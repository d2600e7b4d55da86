# A TLA+ model of publiq.pp

publiq.pp is a blockchain node (`src/src/libblockchain`, started by `src/src/publiqd`), a program
that follows a node's action log (`src/src/commander`), and a program that decides which files a
storage keeps (`src/src/storage_manager`).  This directory holds TLA+ modules of these programs,
the configurations that check them with TLC, and proofs checked by TLAPS.  `PROJECT.json` lists
the components, the runs, the hazards with the line of the code at which they bite, and for each
definition the lines of the source it stands for.

File names without a directory are in `src/src/libblockchain/`.

## 1. The system

### Components, their state and operations

| component | state | operations | who calls it | what is hard | what makes it correct |
|---|---|---|---|---|---|
| transaction flow (`transaction_handler`, `transaction_pool`, `transaction_cache`) | the pool (a file), the cache (memory: key, and whether the transaction was applied) | `action_process_on_chain`, `revert_pool`, put-back at the end of `mine_block` and of a block session, `transaction_cache::clean`, `load_transaction_cache` | p2p and rpc handlers, `mine_block`, `session_action_block`, timers, the start | the cache is the only guard against double use and is erased, refilled, cleaned by age and reloaded | a transaction is on the chain once; the node can start from what it stored |
| accounts (`state`) | balances on two layers, roles | `increase_balance`, `decrease_balance`, `insert_role`, `remove_role` | `action_apply`, `action_revert`, fees, rewards | undone by code written apart from what it undoes | accounts = chain replayed, then the pool |
| documents | files, units, storages of a file | insert and remove of each | as above | each action rests on others: a content on its units and the role of its channel, a unit on its files | as above |
| roles, contents, storage updates (`transaction_role`, `_content`, `_contentunit`, `_storageupdate`) | roles in `state`, the rest in documents | validate, can_apply, apply, revert of each kind | `action_process_on_chain`, `mine_block`, block session | a check that throws where it should refuse; reverts written by hand | the stores are a replay; mining goes on |
| sponsoring (`documents`, `transaction_sponsoring`) | for each unit its sponsored items, the times of its views, an index of the items that are not over; the items by the block in which they expire | `sponsor_content_unit_apply`, `_revert`, `sponsored_content_unit_set_used` (views, expiry, cancel; each both ways) | `action_apply`, `action_revert`, `grant_rewards` | a block's rewards are computed again, backwards, when it is taken off; expiry by block number; a view in the past of another | the two computations agree; no coin is lost or paid twice |
| mining (`mine_block`, `grant_rewards`) | - | picks, sorts and applies transactions, signs a block | `header_worker` | what does not fit must leave no trace | peers accept the block |
| block synchronisation (`session_action_block`) | collected blocks, the session | reverts to the last common block, verifies and applies, puts back | `block_worker` | chunks, ends at any time, throws | as above |
| header session (`session_action_header`, `session_action_sync_request`) | `headers_actions_data`, `sync_responses` | compares, asks, stores headers | `header_worker`, the SYNC timer | the head changes between question and answer | headers start at a common block |
| fork choice (`sync_worker` = `block_worker`, `header_worker`) | votes | chooses among headers, votes, decides to ask or mine | the event loop, every second | three steps, each on what an earlier one left | no swapping for ever, no deep fork without a vote, the node catches up |
| action log | entries (a file), `m_revert_index` | `log_block`, `log_transaction`, `revert`, commit, discard | all that applies or reverts | a log that only grows and is read as a stack | it says what is applied |
| action log over RPC (`get_actions`) | - | answers with the entries from an index on, cut by `max_count` | commander, storage manager | cuts, lost answers, reverts of what was never seen | the reader holds a prefix of the log |
| commander (`daemon_rpc::sync`, `import_account_if_needed`, `get_history`) | `log_index`, `head_block_index`, accounts, blocks, logs of transactions and rewards with an index by block, storages, channels (files); usage (memory) | follows the log forward and back, imports an account from the start of the log, answers | a timer, its clients | tables are undone by code that checks what it finds and throws; one of them is not rolled back | tables = the entries applied, read once; answers agree with them |
| storage manager (`sm_daemon::sync`, `import_storage`, `clear_storage`) | `log_index`, `head_block_index`, files with their storages and last report, the storages it looks after; usage (memory) | follows blocks, sends commands to store or remove | a timer, its clients | two lists of storages in step; differences of unsigned numbers | commands are due |
| blockchain store | blocks, headers | insert, `remove_last_block` | mining, sessions | - | - |
| authority manager | who may sign for whom | `check_authority`, apply and revert of authorization updates | `action_can_apply`, `action_apply` | default records are made and cleaned up on the way | an undone update leaves the form it found; nobody is locked out |
| rewards and statistics | - | `grant_rewards`, `validate_statistics`, `distribute_rewards`, `check_service_statistics` | mining, sessions | rounding; members of several shares; computed again when a block is taken off | the emission is paid whole |
| difficulty (`check_delta_vector`, `calc_delta`) | - | pure | header session | 64-bit arithmetic, window ends | (not modelled) |
| storage node, storage (`storage_controller`, sessions with `slave` and with channels) | `file_requests` (a file), `channels_files_requesting` (memory), the queue of sessions with the storage's thread, the files | enqueue, a round of requests, fetch, save, delete, announce | contents, commands of the manager, a timer, rpc | two threads whose answers name no session; sessions fail and expire | each request has one owner, leaves when it is settled, and rounds go on |
| node id service | addresses of a node, verified or not | add, verify, take | p2p | ageing, retries | (not modelled) |
| inbox, letters, broadcast, configuration, tools, generators | see `PROJECT.json` | | | | |

mesh.pp (sockets, sessions, the stores with commit and discard) and belt.pp are git submodules,
empty at this commit.  What they do is modelled from how the code uses them: a store is committed
or discarded as a whole, a session may end at any time, a message may be lost.

### How they interact

The node is one thread (`node::run`, `node.cpp`): it takes one event (packet, timer, session
step) and runs its handler to the end; the handler either saves and commits the stores or throws,
and the stores are discarded.  So the stores change handler by handler, but what the *network* and
the sessions hold is as old as it likes.  Between handlers the only shared state is
`all_sync_info` (`sync_responses`, `headers_actions_data`), the votes, and the stores.  The
commander and the storage manager are processes of their own that see the log only, through requests;
the manager answers with signed commands.  The one other thread of a node is its storage, joined to it
by a stream of messages.

## 2. The modules

    AppliedStack  <--implements-- ActionLog
                                     NodeLog  <--extends-- Commander, StorageManager
    TransactionFlow  <--implements-- Ledger
    Authority  <--extends-- Catalogue  (Ledger's handlers, for all other kinds of transactions)
    Sponsoring   (Ledger's handlers, for the documents' sponsored items)
    ForkChoice   (which chain; Ledger and Catalogue say what happens to the stores when it changes)
    StorageRequests   (the files a content of Catalogue asks a storage node for)

| module | stands for | state |
|---|---|---|
| `TransactionFlow` | a transaction's way between network, pool, cache and chain, as sets | `chain`, `pool`, `cache`, `now`, `cleaned` |
| `Ledger` | the same handlers with the stores they change: accounts on both layers, files, an ordered pool, the flag in the cache, the log | `stores`, `chain`, `now`, `cleaned` |
| `AppliedStack` | what the log promises: a stack with commit and drop | `applied`, `committed` |
| `ActionLog` | `action_log.cpp`, `get_actions`, `daemon_rpc::sync` | `actions`, `revertIndex`, `saved`, `inFlight`, `reader` |
| `Sponsoring` | sponsored items, with the handlers that mine, check and take off the blocks which pay for them | `stores`, `chain` |
| `Authority` | who may sign for whom: records, checks, updates and their reverts, as operators on a store | |
| `Catalogue` | roles, files, units, contents, storages of files, authorizations, reports, and what a block pays for service | `stores`, `chain`, `setting` |
| `NodeLog` | the log as its readers know it: entries and the courses a sync may take | `world` |
| `Commander` | `daemon_rpc.cpp`, histories and balances of `rpc.cpp`, `range_break` | `db`, `failed` |
| `StorageManager` | `daemon_manager.cpp`, `manager.cpp` | `sm`, `miscounted` |
| `StorageRequests` | `storage_controller` and the sessions that use it | `requests`, `saved`, `requesting`, `fetching`, `slave`, `toStorage`, `toNode`, `files`, `announced` |
| `ForkChoice` | `sync_worker` and the sessions it starts | `head`, `mined`, `responses`, `headers`, `blockSync`, `votes`, `now` |
| `LedgerReplayProofs` (on `LedgerProofs`) | theorems about the stores of `Ledger` | |
| `TransactionFlowProofs`, `LedgerProofs`, `ActionLogProofs`, `ForkChoiceProofs`, `StorageRequestsProofs`, `CatalogueProofs` | theorems about the module of that name | |
| `Induction` | induction, recursion, sums and folds, as lemmas the proofs cite | |

`MC*` modules give the constants of the small instances.  Operators whose comment begins with
"Fault:" are single plausible bugs of the definition after them; no specification uses them.
`PROJECT.json` ("mutants") names for every property the one that breaks it.

### TransactionFlow and Ledger

| action | code |
|---|---|
| `Receive(t)` | `action_process_on_chain`: `signed_transaction_validate`, the check that the head is recent (`BLOCK_TR_LENGTH`), the cache, apply, the pool and the log |
| `MineBlock` | `mine_block`, with `revert_pool` before and the put-back after |
| `SyncBlocks(lcb)` | `session_action_block::process_response` for one chunk; `more` is the case in which the collected blocks are inserted (`BLOCK_INSERT_LENGTH`) while the session goes on, and the pool is not put back |
| `CleanCache` | the `CACHE_CLEANUP_TIMER` handler |
| `Restart` | a stop between any two handlers and `load_transaction_cache` |
| `RevertLastBlocks(n)` | the option that reverts the last blocks at start |

In `TransactionFlow` a choice is left open wherever the accounts decide (which transactions fit);
`Ledger` makes that choice as the code does and *implements* `TransactionFlow` under the mapping
"forget the order, the accounts and the flag" (`ImplementsFlow`).  `cleaned` is a history variable:
the highest head at which the cache was cleaned since it was loaded.

A transaction with several authorizations comes in several forms: `Parts[t]` are its
single-signature forms, which wait in the pool without effect until `mine_block` merges them.
`transaction_cache::add_chain` takes the keys of all forms, `add_pool` that of one; this is why
`Keys(t)` is a set and why `RewoundCache` puts in all keys of an old transaction or none.

Left out of `Ledger`: roles, units, authorization, statistics and rewards for service (see `Catalogue`),
sponsoring (see `Sponsoring`); which of too many transactions are picked (any `BlockMax` of them may be).
`RevertLastBlocks` removes its blocks in one step; the code commits every `BLOCK_REVERT_LENGTH`,
and each of those commits is a state the action with a smaller count reaches.  A handler is
committed as a whole: the six commits of `node_internals::save` are listed as a hazard.

### ActionLog

`Insert`, `Revert` and `Scan` are `action_log::insert` and `revert`; `Commit` and `Discard` are
those of the file, and a restart is a `Discard` (the constructor sets `m_revert_index` to the end).
`Collect`/`Collected` is `get_actions`, `ReadsPastEnd` the case in which it throws; `Take` is one
round of the loop in `daemon_rpc::sync`.  A response may be lost (`Lose`).  `Maintenance` says
whether the node may be started with an option that reverts blocks or actions: those are the only
handlers that commit a log which ends in reverts.

### Catalogue and Authority

| definition | code |
|---|---|
| `...IsValid`, `...Fits`, `...Apply`, `...Revert` | `action_validate`, `action_can_apply`, `action_apply`, `action_revert` of the kind, in `transaction_*.cpp` |
| `Throws` | the one `action_can_apply` that throws (a content whose channel has no role) |
| `WithDummy`, `Cleaned`, `ChangeRecord` | `smart_create_dummy_record`, `smart_cleanup_dummy_record`, `set_record` |
| `Rewards`, `Distribute`, `VerifiedViews`, `...Shares`, `ChannelCount` | `grant_rewards`, `distribute_rewards`, `validate_statistics`, the rule in `publiqd/main.cpp` |
| `Picks`, `Reserved`, `Mined` | how `mine_block` keeps room for reports, then the handler |
| `EnoughReports` | `check_service_statistics` |
| `Receive`, `MineBlock`, `SyncBlocks`, `RevertLastBlock` | the handlers, as in `Ledger` |

A handler is a function on the record of all stores; its field `ok` is FALSE where the code throws, and
the action is then not taken, since the code discards everything.  Fees, lifetimes and the cache are left
to `Ledger`.  A node's own role decides whether it mines (`setting.kind`) and whether it notes the files
of a content (`Requested`).  What `find_authority` chooses among several signatures is not modelled: each
owner here has one signer.

### NodeLog, Commander and StorageManager

`ActionLog` shows what reaches a reader: entries it holds are taken back from the last on, and others
come.  `NodeLog` starts from there: a sync takes `back` entries off and up to `new` ones on
(`Courses`), where what comes is what a node may log (`Fits`: no transaction twice, contents after
their units, and so on).  The reading itself is one step, since the commander answers nobody while it
syncs; but the tables are changed transaction by transaction (`Apply`, `Revert`, one operator for each
`process_...` function), with the checks that throw.  A sync that throws, or whose connection breaks,
discards the tables except `usage`, which is no file.  `Import` is `import_account_if_needed`: the new
account is read from the start of the log, along a `Detour` in which the node changes its mind once.
Both end in a commit that only saves the reward logs (`Committed`).  `RangeBreak`, `GetHistory` and `ConfirmedBalance` are the answers.  In `StorageManager` a step forward
and back is `BlockApplied`, `BlockReverted`; `StoreCommands`, `ClearCommands` and `StoreAgainCommands`
are what it sends.  Amounts are natural numbers; a balance below zero is the exception of `coin`.

### StorageRequests

| action | code |
|---|---|
| `ContentApplied`, `ChainHandlerFails` | the file requests of `action_apply` of a content, saved and committed at the end of `mine_block` and the block session, or discarded |
| `StoreCommand`, `RemoveCommand`, `Upload`, `TellVerifiedChannels` | `StorageUpdateCommand`, `StorageFileDelete`, `StorageFile`, `SetVerifiedChannels` in `node.cpp` |
| `CheckFiles` | the check timer with `get_file_requests` and `initiate` |
| `Serve` | one message of the storage's thread (`storage_node.cpp`) |
| `SlaveTakes`, `SlaveIgnores`, `SlaveExpires` | an answer is taken by the session action that waits, or by none; the session's minute is over |
| `AskChannel`, `ChannelSends`, `ChannelRefuses`, `FetchEnds` | `session_action_request_file` and the end of its session |
| `Restart` | the process stops: the list is as committed, the files stay |

mesh.pp's queue of sessions is modelled from its use: actions for one peer are done one after the
other, all that wait are dropped when one fails, and a dropped action's destructor runs.  Announcements
and pops in a callback may throw (fee, role, `at`), after which the rest is left to the guards.

### Sponsoring

| definition | code |
|---|---|
| `SponsorApply`, `SponsorRevert`, `Refresh`, `ExpiringBlock` | `sponsor_content_unit_apply`, `_revert`, `refresh_index`, `get_expiring_block_number` |
| `View`, `Unview` | `sponsored_content_unit_set_used` without a transaction, `apply` and `revert` |
| `Cancel`, `Uncancel` | the same with a transaction, for an expiry or (`manual`) for a cancel transaction |
| `GrantRewards`, `TakeBackRewards` | `grant_rewards` with `rewards_type::apply` and `revert` |
| `RevertBlock` | the loop body of `session_action_block` that takes a block off, and that of the reverting option |
| `Receive`, `MineBlock`, `SyncBlocks`, `RevertLastBlock` | the handlers, as in `Ledger` |

Times count from the genesis block, amounts are single coins and their division leaves a remainder,
as the code's does.  What was viewed comes from statistics transactions; here any set of units may
have been viewed in a block.  Left out: fees, who signs for a sponsor, lifetimes of transactions (and so
which are picked), the units themselves (all exist).  The index is kept as a set: its order matters in
`Due` only, where the loop stops at the first item that has not begun.  There the items of equal waiting
time come in the order of their arrival, because the index was made anew from 0 and `std::sort` moves no
equal keys among at most 16 items; longer indices are not modelled.

### ForkChoice

Blocks are the nodes of a given tree (`Parent`, `Delta`, `OwnBlock`); a peer is its head and what it
promises.  `Worker` is one call of `sync_worker` (votes, `block_worker`, `header_worker`, mining),
`SyncResponse` an answer to the sync request, `HeadersArrive` and `BlocksArrive` the answers to the
two sessions, `HeadersEnd`, `BlocksEnd` and `Tick` their ends.  The thresholds of the vote
(`max(2, peers / 3)` and the like, over ip addresses) are the constants `PollMin`, `PollStakeMin`,
`PollMany`; one peer for each address.  Not distinguished: public contacts that have no stake, the
number of rounds a long list of headers takes (`HEADER_TR_LENGTH`), `c_const`.  A peer tells the
truth about the sum of its head (the header session would refuse a lie) and may promise anything.

## 3. What is checked

Times are in units in which `BLOCK_MINE_DELAY` is 2 and `NODES_TIME_SHIFT` 1, so that "within the
shift" and "outside" differ; lengths are reduced in the same way and keep their order
(`LifetimeBlocks`, `RecentBlocks`, `InsertLength`).

| run | instance | what it shows |
|---|---|---|
| `transaction_flow` | one single-signature transaction that uses the whole allowed lifetime, one that does not, with two owners and its forms; 6 blocks, lifetime 3 blocks, time 12 | no double use, the pool stays in the cache, the cache protects the chain, a restart succeeds, and what is cleaned is over, when forks are at most `MaxRewind` = 1 below the last cleaning; what each of these leaves open for the transaction that uses its whole lifetime does happen (see "Lifetimes without slack") |
| `ledger` | a node and a peer with a transfer, a file of two authors with its forms and a fee that fits in some orders only; 4 blocks, time 8, lifetime 3 blocks, frozen at block 4 | accounts and files are those of the chain replayed, then the pool; coins are conserved; a peer that starts from genesis accepts the chain; the log is the chain and then the pool transactions the cache has as applied; `Ledger` implements `TransactionFlow` |
| `action_log` | one transaction, blocks of size 2, requests of 2, 3 and 20, 7 entries, reverting options, fairness | the reader holds what the log said after some prefix and counts blocks right; it catches up unless it is stuck behind reverts (below); the log implements `AppliedStack` |
| `fork_choice` | two interchangeable peers with stake and two blocks, the node's block beside the first with an equal sum, chunks of 1, time 4 | headers begin at a common block whatever the head did meanwhile; equal blocks are swapped only for a richer miner; without a vote a node gives up one young block at most |
| `catching_up` | two peers, a block that exists and a better one that is only promised, blocks every 3, time 4, fairness | a follower reaches what it is offered |
| `sponsoring` | one unit; an item that ends between two blocks, one that begins later, one that is over when it comes; one cancel; 3 blocks | a block can be taken off again with the rewards it holds; documents and balances are those of the chain and the pool; a view gives out all that is due by then; a sponsor's coins are given out or returned, none twice (both when a unit's items begin in order) |
| `catalogue` | six settings with 3 to 5 transactions each: service reported by a channel and a storage, two channels of which one serves its own unit and the other's, a library that follows, a file dropped and held again, authorizations given and taken, a role that comes late; 2 blocks above genesis | the stores are a replay; a block can be taken off with its rewards; it pays its emission whole; nobody is locked out of an account; peers take what the node mines |
| `log_clients` | eight worlds: coins between two accounts (once with reward logs that are lost), a channel that approves again, a storage with reports for the commander; two storages and a file, a file reported once and then left, two files of which one is read more for the manager; 3 to 6 entries, one new entry in a sync | tables, indices, histories and confirmed balances are those of the entries applied, where reward logs are kept; no entry makes a sync throw; usage goes wrong only through a failed sync; the storages of a file are known; commands to store and to remove are due |
| `storage_requests` | two files, two channels of which one lacks a file, two requests in a round, one unresolved channel kept, two sessions or messages ahead; fairness | each file asked for belongs to one session action; a request leaves the list settled; rounds go on |

Three runs end in a violation: a comment or an assertion of the code says one thing, the code does another.

- `deep_revert`.  `sessions.cpp:896` puts old blocks into the cache "to prevent transaction double use
  when reverting long chains".  It puts in one block for each removed one, a lifetime below it, but the
  cleaning had removed more.  A fork more than a shift deeper than the cleaning brings a transaction
  back.  `RewindsCovered` is the exact condition used in the proof.
- `late_role`.  `action_can_apply` of a content throws "the content owner is not a channel" instead of
  refusing.  `mine_block` tries transactions in the order of their creation, so a content that was signed
  before its channel's role, and received after it, makes every attempt to mine throw, although the
  comment at `communication_p2p.cpp:1174` puts what "couldn't be applied because of the order" back
  into the pool.
- `commander_stops`.  `TransactionInfo` asserts that it knows every transaction of the log
  (`commander/utility.cpp:96`); an authorization update is logged and not known.  The sync throws, is
  discarded, and throws again at the same entry.

### Observations

What the models show besides, without a run of its own; each is a state the modules reach.

- *A reader behind reverts* (`ActionLog!ReadsPastEnd`, `Stuck`).  When all entries from `start_index` on are
  reverts, as after a start with an option that reverts blocks, the first loop of `get_actions`
  (`communication_rpc.cpp:46`) reads `at(len)`, which throws, until something new is logged.
- *Coins that are kept* (`Sponsoring!CoinsComeBack`).  The first item of a unit counts as a view at its start,
  even when that lies ahead (`documents.cpp:359`).  When another item begins before it, a block in between
  neither gives out nor returns anything of that item, yet it is recorded as viewed or past its expiry.
  `OrderedCoinsComeBack` says that this is the only way coins are lost.
- *An idle cancel* (`Sponsoring!CanApply`).  A cancel whose item is unknown or has not begun cancels nothing;
  `action_can_apply` looks for a zero in the result, which is empty then, and accepts it into the pool;
  `grant_rewards` asserts that coins are returned and throws when it is mined.
- *Lifetimes without slack* (`TransactionFlow!ShortLived`).  A transaction may use the whole lifetime that
  `signed_transaction_validate` allows; those a node makes of its role and of what it stores do
  (`communication_p2p.cpp:1279`, `:1531`).  Head, clock and creation may each be off by `NODES_TIME_SHIFT`, so such a
  transaction, dropped by `transaction_cache::clean` as "definitely expired", may still pass for valid
  within the tolerance and come in again while it is on the chain (the next start then throws), and
  it may be dropped while it is in the pool, once the head is past its expiry: `revert_pool` then passes it over and its
  effect stays in the accounts.  `PoolInCache`, `CanAlwaysRestart` and `CleanedAreExpired` say that this is all that can happen,
  and to no other transaction; the strict statements are violated in the instance of `transaction_flow`.
- *Reward logs are never committed* (`Commander!Committed`).  Both `commit` of `daemon_rpc.cpp` call `save` on the reward logs
  (lines 137 and 229), `commit` on everything else.  What becomes of a list that is saved and not committed, once its loader
  goes out of scope, is decided in mesh.pp; other places of the repository save without a commit and count on it
  being kept (`commander/main.cpp`, `running.txt`).  The field `kept` of a world stands for that.  Where it is FALSE the log of
  rewards stays empty while its index goes on, no history with rewards can be given, and the first reverted block
  with a reward makes every later sync throw: `AnswersAreExact` and `LogIsAlwaysTaken` are claimed where it is TRUE.
- *Costs and sums* (`ForkChoice`).  `block_worker` compares what headers cost, not their sums: headers asked
  for just before the node mines and answered just after may replace its better block until the next rounds.
- *Reports that do not apply* (`Catalogue!EnoughReports`).  `check_service_statistics` counts the pool's reports
  whether or not they can be applied.  With enough of them a node refuses blocks that hold all the good ones.
- *Late answers* (`StorageRequests!orderly`).  An answer names no session.  After a session expired, its
  answer is taken by the next one of the same kind: a "duplicate" makes the node announce and pop a file
  it does not hold, an address trips the assertion of `sessions.cpp:1153`, and the `Done` that answers
  `SetVerifiedChannels` is taken for that of a delete.  Without the condition `orderly` TLC finds
  `RequestsLeaveSettled` violated.
- *Commands not saved* (`StorageRequests!StoreCommand`).  `node.cpp:387` enqueues without a save: the request is
  gone after a restart or the next chain handler that fails, as `RequestsLeaveSettled` admits.
- *A young chain* (`NodeLog!Before`, `StorageManager!ClearCommands`).  `head - 144` and `head - 14400` are unsigned.
  Before the chain is that old, usage is forgotten at once and every file of a storage counts as unread for a
  hundred days, also one read in the last block.
- *Usage that is counted twice* (`Commander!failed`, `StorageManager!miscounted`).  A sync that fails leaves what it
  counted; the next one counts it again.
- *Entries a commander cannot process.*  A content that names a unit twice (`Approve`, not in the instance), like
  the authorization update, throws at every sync.

### Why the bounds are enough

The interesting cases were confirmed to be reached.  In `transaction_flow` a chain longer than the
lifetime, a fork below the last cleaning, and merged transactions.  A pool transaction whose key was cleaned, one that would fail the next start, and one
that was cleaned and is within the tolerance are reached too, each with the transaction that uses its whole lifetime.  In
`ledger`, transfers that fit the pool and not the block, fees that cannot be paid, incomplete
transactions put back after a fork.  In `catalogue`, blocks with all four shares of the emission, members of
several shares, a channel that serves its own unit, a remainder, refused blocks, and each kind of transaction reverted out of a block and out of
the pool; two blocks are enough for a block whose stores rest on the one before.  In `log_clients`, entries
taken back down to the first, an account imported between them, versions of a content with and without
waiting units; `new` = 1 loses nothing, as a longer sync goes through the same tables, `Window` < `Stale` <
`Modulus` as in the code, and the manager sends commands of both kinds on a chain older than `Stale`: to store the file that is read more
than the other, to remove one whose report has become old.  In `storage_requests`, a queue of two sessions, an answer that
comes after its session is gone, a request popped by a refusing channel, and a dropped unresolved one.  In `action_log`, nested reverts, discarded handlers and cut
responses.  In `fork_choice`, a session in two chunks and a deep fork that was voted for.  In
`sponsoring`, each fault named in `PROJECT.json` needs an item that is viewed before and after another
came, an end between two blocks, or a block that is taken off after a view or an expiry; three blocks
hold all of these.  (The properties were also seen to hold with four blocks, and with two blocks at once,
which reaches no further state.)  Names of
the bounds: `MaxRewind`, `MaxSync`, `MaxTime`, `MaxBlocks` (chain), `MaxLength` (log), `MaxTime`
and the finite tree (forks).  `FreezeBefore` is not a bound but the option `freeze_before_block`.
Every run checks for deadlock except those of `Sponsoring` and `Catalogue`, where a chain of `MaxBlocks` blocks is
the end and handlers that throw are left out; elsewhere the node or the client may always be restarted, discard,
or end a session, or a peer may answer.  `MaxAhead` bounds the messages and sessions between the two threads of a storage node, `length`,
`blockMax` and `new` those of a log.

### Fairness

- `StorageRequests!FairSpec`: a session with the storage ends, by an answer or after its minute, and a session
  with a channel ends, by an answer or after its three minutes (weak fairness of `SlaveTakes \/ SlaveExpires`
  and of `ChannelEnds(c)`); nothing is assumed of the storage's thread or of what channels answer.
- `ActionLog!FairSpec`: a handler ends (it is a function of the same thread that later serves
  requests: weak fairness of `Commit \/ Discard`); requests are served between two handlers again and
  again and not every answer is lost (strong fairness of `Request` and `Deliver`).
- `ForkChoice!FairSpec`: `sync_worker` runs each second while sessions live 30, so weak fairness of
  `Worker`; a block session that can be started again and again is started, and peers that are asked
  again and again answer (strong fairness of `StartsBlocks`, `HeadersArrive(p)`, `BlocksArrive`);
  sessions end and the clock goes on (weak fairness).  Nothing is assumed of peers that were not
  asked: `SyncResponse` is not fair.  The clock stops at `MaxTime`; `Age` is then past every limit
  in the code (`TooLate` included), and nothing in the code waits for a later time.

## 4. What is proved

Each theorem holds for every value of the constants that satisfies the assumptions named in the module
of the component: types of the constants, and what the comments below say.

| theorem | module | statement | condition |
|---|---|---|---|
| `TypeCorrect` | `TransactionFlowProofs` | `Spec => []TypeOK` | |
| `MinedBlocksAreLive` | | `Spec => []BlocksHoldLiveTransactions` | |
| `TransactionsUsedOnce` | | `Spec => []NoDoubleUse` | `RewindsCovered` |
| `ChainStaysProtected` | | `Spec => []CacheProtectsChain` | `RewindsCovered` |
| `PoolStaysCached` | | `Spec => []PoolInCache` | |
| `CleaningIsSafe` | | `Spec => CleanedAreExpired` (a step property) | |
| `AlwaysRestarts` | | `Spec => []CanAlwaysRestart` | `RewindsCovered`, `ShiftWithinBlock` |
| `CoinsAreConserved` | `LedgerProofs` | `Spec => []CoinsConserved` | |
| `LedgerImplementsFlow` | | `Spec => ImplementsFlow` (a refinement) | `RewindsCovered` |
| `KeysStay` | `LedgerReplayProofs` | `Spec => []Flow!PoolInCache`: the same of the stores | `RewindsCovered` |
| `TypeCorrect` | | `Spec /\ []PoolKeysStay => []TypeOK`: no account is overdrawn | `RewindsCovered` |
| `StoresAreReplay` | | `Spec /\ []PoolKeysStay => []StateIsReplay` | `RewindsCovered` |
| `ChainStaysAcceptable` | | `Spec /\ []PoolKeysStay => []ChainIsAcceptable` | `RewindsCovered` |
| `LogTellsChainThenPool` | | `Spec /\ []PoolKeysStay => []LogIsChainThenPool` | `RewindsCovered` |
| `LogImplementsStack` | `ActionLogProofs` | `Spec => ImplementsStack` (a refinement) | |
| `ReaderHolds` | | `Spec => []ReaderHoldsPrefix` | |
| `TypesHold` | `ForkChoiceProofs` | `Spec => []TypeOK` | |
| `EqualSwitches` | | `Spec => EqualSwitchNeedsRicher` (a step property) | |
| `UnvotedSwitches` | | `Spec => UnvotedSwitchIsShallow` (a step property) | |
| `UndoneUpdateIsGone` | `CatalogueProofs` | an update that fits, undone, leaves the store of authorities as it was | |
| `TypesHold` | | `Spec => []TypeOK`: nobody is overdrawn, what documents name is there | |
| `StoresAreAReplay` | | `Spec => []StoresAreReplay` | |
| `HeadComesOff` | | `Spec => []HeadCanBeTakenOff` | |
| `EmissionIsAlwaysPaid` | | `Spec => []EmissionIsPaid` | |
| `SomebodyAlwaysDecides` | | `Spec => []SomebodyDecides` | |
| `MinedIsAccepted` | | `Spec => MinedIsAcceptable` (a step property) | |
| `OneOwner` | `StorageRequestsProofs` | `Spec => [](TypeInv /\ RequestsHaveOneOwner)` | |
| `LeaveSettled` | | `Spec => RequestsLeaveSettled` (a step property) | |

The conditions are about the constants, and the code's values are inside or outside of them:
`RewindsCovered` says that no fork is deeper below the last cleaning than the age of a cleaned key covers
(nothing in the code enforces it, see `deep_revert`);
`ShiftWithinBlock`, that the tolerance between clocks is shorter than a block (60 s and 600 s in the code).
`PoolKeysStay` is a condition on the behaviour: no cleaning has dropped the key of a pool transaction.  Where one has, the four
properties fail, as that transaction's effect is never undone; `KeysStay` says when that can be, namely for one that uses its whole
lifetime and whose expiry is more than the tolerance behind the head.  In the run `ledger` no transaction does, and `PoolKeysStay`
follows from `LogIsChainThenPool`, which is checked there.  `RewindsCovered` is sufficient for `Ledger`, not known to be necessary.

### TransactionFlow

*Double use.*  `NoDoubleUse` is not inductive: a new block is only known to bring in no old key
because the keys of the chain are in the cache.  But they are not all there.  `CacheProtectsChain`
says which are missing: those of transactions that lie more than a lifetime below the head, or
that expired before any block a fork may still add.  The invariant `UsedOnceInv` joins it to
`TypeOK`, to `BlocksHoldLiveTransactions` (a transaction of block *n* was alive at *n*, so it has
expired a lifetime later) and to `PoolLifetimes`.  `NewBlockIsNew` is the heart: a transaction alive
at its block's time shares no key with a transaction below.  There is a lemma for each action; `SyncKeepsInv` is the
long one, since taking blocks off shortens the distance to the head, and what is put into the cache
must make up for it.  `CleanKeepsInv` is where `RewindsCovered` is needed.

*The pool.*  A pool transaction's age is bounded by its expiry and twice the shift (`PoolAges`: the head may be
ahead of the clock by one, the clock ahead of the expiry by one), so the cleaning does not drop it if
its lifetime leaves one shift unused, and otherwise only when the head has passed its expiry.

*Restart.*  A start fails when a key is loaded twice.  For the chain that is `NoDoubleUse`; for a pool
transaction, that no form of it lies in a block that is loaded.  `RestartInv` adds what that rests on: the
clock is at most a shift behind the last cleaning (`CleanedInTime`), the keys of a transaction of the chain
are gone only when it is deep or was cleaned by age (`GoneAreOver`), and so whatever of it enters the pool
again finds its block too deep to be loaded (`PoolIsOffChain`).  `ShiftWithinBlock` is needed where a block
is deep enough for the cache and not yet too deep for the start.

### Ledger

A handler is a chain of folds over the pool, over blocks and over their transactions.

*Coins.*  `Holding(k)` is the set
of well-typed stores with *k* coins in the accounts.  There is one lemma for each step (a payment adds what
it pays; a transfer, an action, a fee keep *k*; opening and closing a block change it by one emission) and one for
each fold over that step: the result of the fold is in `Holding(k)`, or in `Holding(k - n * Emission)` after *n* blocks.
The inductive invariant `CoinsInv` (the blocks are well-typed, the stores hold the genesis coins and one emission for each
block) then passes through each action.  A verdict on a peer's block counts only while it is `ok`: `VerdictOn(k)`.
Nothing is assumed of what a transaction costs or whether it fits.

*The flow.*  `LedgerImplementsFlow` says that the handlers do to the sets of transactions in the chain, the pool and the cache
what `TransactionFlow` says, so that its theorems hold of the stores too.  `Table` gives the values of a fold place by place, and the
`...Run` lemmas do so for each fold; the `...Fields` lemmas say what one step does to the stores, `...Keys` what a whole fold does to the
pool and to the keys of the cache, and `...Flows` that this is the action of `TransactionFlow`.  The cache is only right along the
way if no key is missing that should be there, so the invariants of `TransactionFlow` are used inside the step: `FlowInv`.
`FormsAssumption` says what is true of the single-signature forms of a transaction: they have its times and its
action, and no forms of their own.

*The stores.*  That undoing restores what was there needs to know in which state each step is undone.  A *book* is what
accounts, files and log should be; `TxStep`, `PoolStep` and the end of a block lead from book to book.  The invariant
`BooksInv` says that the chain is a path of books from that of the genesis block (`ChainPath`), that the pool goes
on from its end (`OnPool`), and that the stores keep the book at which it arrives.  What puts something on goes along the path, what takes
something off goes back one step on it (`...Back`), and nothing is computed anew.  Whether a pool transaction was applied
is not in the pool but in the flag of its key in the cache, so going back over the pool rests on `Tells`: each flag says what
happened.  That needs the keys of the pool to be in the cache, hence `PoolKeysStay`.  `FullInv` is `FlowInv`,
`PoolKeysStay` and `BooksInv`; the replay, the log, the absence of overdrafts and the acceptance by a peer all follow
from the path.

Assumed: accounts and transactions are finitely many, amounts are natural numbers.

### ActionLog

`After(log, n)` is the stack of actions that are applied after *n* entries.  The backward scan of `revert` steps over pairs
of an action and its revert, starting at an index kept in memory: it is right because of `LogInv`.  Between a revert and the
action it undoes the log is *calm* (`Calm`: the stack is the same at both ends and never below that in between); each revert names
the place of the action that was on top (`EntryOK`); blocks are numbered along the stack (`StackOK`); and the log is calm from
`revertIndex + 1` to its end, which is what makes it sound to start the scan there.  The refinement maps `applied` to the stack after the whole
log and `committed` to that after the saved part.  For a reader, `ReaderInv` says that it, and what it becomes when
the response on its way arrives, is the stack after some prefix of the saved log; the work is in showing that a response from which
pairs were taken off, and that was cut, leads from one such prefix to a later one.

### ForkChoice

The tree is any tree: `TreeAssumption` says that the parents lead to the genesis block in finitely many steps.  `IInv` says of
each waiting entry and of the session under way what blocks its headers are, where they start, and what the clock allowed when the
session began.  A session that was not voted for then swaps heads of one sum for a richer miner only, and drops at most
one block, a young one.  `EqualSwitchNeedsRicher` excepts a vote that takes back more than the head: such a session does not
compare miners.

### StorageRequests

`TypeInv` says what may wait in the queue of the node's slave and be on its way to the storage and back; with it `RequestsHaveOneOwner` is
inductive, action by action.  For `LeaveSettled` the messages and answers on their way are matched with the action that asked (`OneInLine`,
`Answers`), as long as none came late (`orderly`).  Files are finitely many (`IsFiniteSet(File)`): the code keeps them in a map.

### Catalogue and Authority

`UndoneUpdateIsGone` is about the store alone: its entries hold no record that is the default and is not the owner's, and no
entry is the default itself (`AuthStore`); the dummy records that an update makes and the cleaning after it keep that form, so
that a store is given by what `get_record` answers (`SameRecords`), and an update and its opposite cancel out there.

That alone says nothing of the chain: a revert undoes an action in whatever stores it finds, and nothing in the code checks that the
action is the last one.  A file could be taken away under a unit, a role under a report, an update under a later one.  So the
invariant `BooksInv` accounts for the stores from the genesis block on.  A *book* (`Book`) is what transactions make of the stores, without
the pool and the requests.  `Reaches` says that transactions lead from book to book, each `Allowed` where it is applied; `BlockLeads`,
that a block does, by its transactions and then the rewards it holds; `ChainReaches`, that the chain does, from the first book. The stores keep the
book at which the pool, put on the chain, arrives (`Pooled`), or the handler has failed.  Taking off the pool or blocks goes back along
these books (`UndoneIsBack`, `RevertBlockLeads`, `RevertBlocksLeads`); trying a block, verifying and putting back go on along new ones
(`TryAllLeads`, `VerifyAllLeads`, `PutAllBackStays`).  The type invariant, the replay and the authorities are read off the last book;
along the books somebody always decides, because an update is never signed by the actor it is about (`UpdateStaysSound`).

*Taking off a block* asks for rewards once more.  They rest on roles, files and units alone (`SameRewards`), and these are at that
point those of the book after the block's transactions.  The rewards it once computed paid nobody less than nothing, so paying them back is possible.

*The emission.*  `RewardsPay` follows the coins from reports to accounts.  A report that was allowed stays good while later transactions
of the block are applied (`Grows`, `StillStands`), so the views that are paid for are of files and units that are there
(`PaidViewsAre`).  Each set of shares is *fair* (`Fair`): of any amount its rounded shares come to no more than that amount.  For storages and
channels all shares have one denominator; for authors a share is split by files and then by the authors of a file, so the
sum is taken unit by unit, file by file (`AuthorQuotasFit`, `OneFile`).  What rounding leaves is then not negative and goes to one account, so
that each part is given out whole (`DistributeGives`) and the four parts are the emission (`PartsPay`).

*What is mined* was tried once by the miner, with some transactions set aside, and is tried again by the peer, without them: what was kept
applies again, to the same end (`TriedAgain`), because a transaction that is set aside leaves the stores as they were.  The peer is
evaluated with the miner's own `setting` (which decides what role its own address may be given), and without reports of its own in the pool.  The miner
has no role: `Free` is an account that no book gives one, as the code refuses a role to the address of a node that is a miner.

Assumed: transactions and accounts are finitely many; actions name accounts, and amounts and counts are natural numbers
(`CatalogueAssumption`, `MessageAssumption`); nothing of who signs, of thresholds or of how many views are reported.

### How data is reasoned about

The provers know no induction over an operator, so `Induction` states it for sets of numbers and for functions:
a set of naturals with 0 that is closed under the next number is all of them (`InductionOnSet`, from the well-foundedness
of `<`), a function given by its first value and a step exists (`RecursionOnRange`), the same over the subsets of a finite set
(`RecursionOnSubsets`, `SubsetInduction`), sums over a finite set: how they change (`SumChanges`), grow with their terms (`SumAtMost`), are taken
class by class (`SumFibers`) and in either order (`SumSwaps`); and folds: `FoldExists`, `FoldStays` (steps
that stay in a set), `FoldReaches` (the *n*-th step lies in the *n*-th set).  For these, `Ledger` filters a sequence by `Those` and writes a cache
as a function over its new domain, and `ActionLog` marks blocks by their places (`BlocksOf`): operators of the library whose definitions the
provers cannot expand, or that recurse, would have been in the way.  `Authority` writes the change of a map as `With`, and `Catalogue`
sorts by inserting (`Sorted`) and skips what was taken over while it puts back, for the same reason.  `CatalogueProofs` gives the handlers' folds one form: `LeftRun` and
`RightRun` name what comes of the first, or the last, elements.

### Only model-checked

The properties of `Sponsoring`, `Commander` and `StorageManager`, and
`LogIsAlwaysTaken` of `LogClients` are in reach of the
same methods (a path of books from the start) but not yet proved; the tables of the commander hold histories
and sponsored items follow the time of views, so their books are larger than those of `Ledger`.
Out of reach: the liveness properties (`ReaderCatchesUp`, `CatchesUp`, `AsksAgain`), since fairness and
`ENABLED` are beyond the prover.

## 5. Plan

1. *Done*: `TransactionFlow`, `Ledger`, `ActionLog` with `AppliedStack`, `ForkChoice`, `Sponsoring`, `Authority` and `Catalogue`, `NodeLog`
   with `Commander` and `StorageManager`, `StorageRequests`; the proofs of section 4.
2. Proofs that are left, in this order: `HoldersAreKnown` and the commands of `StorageManager`; the tables of `Commander`, with books that hold
   histories; `Sponsoring`, whose books follow the time of views.
3. `DeltaVector`: `check_delta_vector` and `calc_delta` as functions, against a reference definition.
4. `find_authority` and the merging of signatures by an unordered set, in `Catalogue`.
5. The counters from which a node makes its own report (`service_counter`), `NodeIds` (verification and ageing
   of addresses), `Inbox`.
6. `Commits`: the six commits of `save`, and that of the file requests, with a stop between any two.

Runs stay few: a new part joins a run that has its state.

## 6. Not modelled

Message types and code generators, command line tools and manual test programs, the HTTP and RPC
fronts, `storage_utility` (stateless signing), configuration: pure input and output, or no state of their own.
`check_delta_vector` and `calc_delta` are arithmetic of 64-bit products, node ids and letters small tables: they
are in the plan.  Of the commander, the lists of miners and champions, `search_file` and what is sent from it
are left out; of the storage node, the serving of files to viewers.
Signatures and hashes are model values: two transactions are equal or not.  Broadcasting is the
fact that a transaction may arrive at any time and any number of times.
