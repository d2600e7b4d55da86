----------------------------- MODULE Commander -----------------------------
(***************************************************************************)
(* The commander keeps tables of chosen accounts by following the log of a *)
(* node: a balance and a log of transactions and of rewards per account,   *)
(* with an index of the log by block; the blocks; what a storage stores;   *)
(* the history of a channel's contents; and, in memory, how often files    *)
(* were served in each block.                                              *)
(*                                                                         *)
(* A sync takes some entries back and takes some new ones, in one step, as *)
(* the commander serves nobody while it syncs.  The tables change by one   *)
(* transaction at a time, forward or back, and must stay what they would   *)
(* be if the entries applied now had been read once, in order.             *)
(***************************************************************************)
EXTENDS NodeLog

VARIABLES
  db,       \* the tables, see Empty
  failed    \* a sync has failed since the start of the process

commanderVars == <<db, failed>>

Empty == [ok |-> TRUE,            \* FALSE: an exception was thrown
          taken |-> <<>>,         \* the entries applied, known by log_index
          head |-> 0,             \* head_block_index
          accounts |-> <<>>,      \* address -> balance
          tx |-> <<>>,            \* address -> its transaction log
          rw |-> <<>>,            \* address -> its reward log
          txIndex |-> <<>>,       \* address -> block number -> [first, count]
          rwIndex |-> <<>>,
          blocks |-> <<>>,        \* authorities of the blocks
          storages |-> <<>>,      \* address -> file -> stored
          channels |-> <<>>,      \* <<address, content>> -> history
          usage |-> <<>>]         \* m_file_usage_map: block number -> a bag of
                                  \* files

Imported(d) == DOMAIN d.accounts

Throw(d) == [d EXCEPT !.ok = FALSE]

-----------------------------------------------------------------------------
(* One transaction of an entry, for the accounts in S; forward is FALSE when it
   is reverted *)

UpdateBalance(d, S, address, by) ==
  IF ~ d.ok \/ address \notin S \/ by = 0 THEN d
  ELSE LET balance == (IF address \in DOMAIN d.accounts THEN d.accounts[address] ELSE 0) + by
       IN  IF balance < 0 THEN Throw(d)
           ELSE [d EXCEPT !.accounts = (address :> balance) @@ @]

\* The transactions TransactionInfo knows: all but those that give or take the
\* right to sign for another.
KnownKinds == {"transfer", "file", "unit", "content", "role", "update", "statistics",
               "sponsor", "cancel"}

UpdateBalances(d, S, t, authority, forward) ==
  LET sign == IF forward THEN 1 ELSE -1
      d1 == UpdateBalance(IF t.kind \in KnownKinds THEN d ELSE Throw(d), S,
                          t.from, - sign * t.amount)
      d2 == UpdateBalance(d1, S, t.to, sign * t.amount)
      d3 == UpdateBalance(d2, S, t.from, - sign * t.fee)
  IN  UpdateBalance(d3, S, authority, sign * t.fee)

\* The index of a log: for a block, where its items start and how many they are.
\* Empty results stand for the exceptions.
IndexPush(index, number, position) ==
  IF number \notin DOMAIN index THEN {(number :> [first |-> position, count |-> 1]) @@ index}
  ELSE {[index EXCEPT ![number].count = @ + 1] :
          x \in {i \in {index[number]} : i.first + i.count = position}}

IndexPop(index, number, position) ==
  {IF index[number].count = 1 THEN Without(index, number)
   ELSE [index EXCEPT ![number].count = @ - 1] :
     n \in {m \in DOMAIN index \cap {number} :
              index[m].first + index[m].count = position + 1}}

\* process_transaction and process_reward: the log of one account and its index.
ProcessItem(d, S, log, idx, address, number, item, forward) ==
  IF ~ d.ok \/ address \notin S THEN d
  ELSE LET items == d[log][address]
           index == d[idx][address]
           after == IF forward THEN Append(items, item) ELSE Front(items)
           indexes == IF forward THEN IndexPush(index, number, Len(after) - 1)
                      ELSE IndexPop(index, number, Len(after))
       IN  IF (~ forward /\ items = <<>>) \/ indexes = {} THEN Throw(d)
           ELSE [d EXCEPT ![log][address] = after,
                          ![idx][address] = CHOOSE i \in indexes : TRUE]

\* An account is told once, however many parts it has in the transaction.
ProcessTransactions(d, S, t, authority, number, forward) ==
  LET tell(r, address, told) ==
        IF address \in told THEN r
        ELSE ProcessItem(r, S, "tx", "txIndex", address, number, t, forward)
  IN  tell(tell(tell(d, t.from, {}), authority, {t.from}), t.to, {t.from, authority})

ProcessStorage(d, S, t, forward) ==
  IF ~ d.ok \/ t.kind # "update" \/ t.storage \notin S THEN d
  ELSE LET isStored == (t.status = "store") = forward
           files == IF t.storage \in DOMAIN d.storages THEN d.storages[t.storage] ELSE <<>>
       IN  IF t.file \in DOMAIN files /\ files[t.file] = isStored THEN Throw(d)
           ELSE [d EXCEPT !.storages = (t.storage :> ((t.file :> isStored) @@ files)) @@ @]

\* Fault: a reverted report is not taken out.
ProcessStatisticsForward(d, t, number, forward) ==
  IF ~ d.ok \/ t.kind # "statistics" \/ ~ forward THEN d
  ELSE [d EXCEPT !.usage = Counted(@, number, t.served)]

\* A new import counts nothing, nor does a commander without a key to sign
\* commands with.
ProcessStatistics(d, t, number, forward) ==
  IF ~ d.ok \/ t.kind # "statistics" THEN d
  ELSE [d EXCEPT !.usage = IF forward THEN Counted(@, number, t.served) ELSE Without(@, number)]

-----------------------------------------------------------------------------
(* The history of a content: what was approved, one version after the other,
   the last marked, then the units no version has taken up *)

History(d, t) ==
  IF <<t.channel, t.content>> \in DOMAIN d.channels
  THEN d.channels[<<t.channel, t.content>>] ELSE <<>>

WithHistory(d, t, h) ==
  [d EXCEPT !.channels = IF h = <<>> THEN Without(@, <<t.channel, t.content>>)
                         ELSE (<<t.channel, t.content>> :> h) @@ @]

Version(approved, units) == [approved |-> approved, units |-> units]

AddUnit(d, t) ==
  LET h == History(d, t)
      n == Len(h)
  IN  WithHistory(d, t, IF h = <<>> \/ h[n].approved
                        THEN Append(h, Version(FALSE, {t.uri}))
                        ELSE [h EXCEPT ![n].units = @ \union {t.uri}])

TakeUnit(d, t) ==
  LET h == History(d, t)
      n == Len(h)
      rest == h[n].units \ {t.uri}
  IN  IF h = <<>> \/ t.uri \notin h[n].units \/ h[n].approved THEN Throw(d)
      ELSE WithHistory(d, t, IF rest = {} THEN Front(h) ELSE [h EXCEPT ![n].units = rest])

\* Fault: the version approved before stays marked.
ApproveBoth(d, t) ==
  LET h == History(d, t)
      n == Len(h)
      waiting == IF h = <<>> \/ h[n].approved THEN {} ELSE h[n].units
      unknown == Range(t.uris) \ UNION {h[i].units : i \in 1..n}
      twice == {t.uris[i] : i \in {j \in DOMAIN t.uris : \E k \in 1..(j - 1) : t.uris[k] = t.uris[j]}}
      rest == waiting \ Range(t.uris)
      approved == {i \in 1..n : h[i].approved}
      before == SubSeq(h, 1, Max(approved \union {0}))
      old == before
  IN  IF t.uris = <<>> \/ unknown # {} \/ twice \intersect waiting # {} THEN Throw(d)
      ELSE WithHistory(d, t, old \o <<Version(TRUE, Range(t.uris))>>
                                 \o (IF rest = {} THEN <<>> ELSE <<Version(FALSE, rest)>>))

\* A new version takes its units from those that wait or from earlier versions.  One
\* named twice is no longer there the second time, unless it has been approved
\* before.
Approve(d, t) ==
  LET h == History(d, t)
      n == Len(h)
      waiting == IF h = <<>> \/ h[n].approved THEN {} ELSE h[n].units
      unknown == Range(t.uris) \ UNION {h[i].units : i \in 1..n}
      twice == {t.uris[i] : i \in {j \in DOMAIN t.uris : \E k \in 1..(j - 1) : t.uris[k] = t.uris[j]}}
      rest == waiting \ Range(t.uris)
      approved == {i \in 1..n : h[i].approved}
      before == SubSeq(h, 1, Max(approved \union {0}))
      old == IF before = <<>> THEN <<>> ELSE Front(before) \o <<Version(FALSE, Last(before).units)>>
  IN  IF t.uris = <<>> \/ unknown # {} \/ twice \intersect waiting # {} THEN Throw(d)
      ELSE WithHistory(d, t, old \o <<Version(TRUE, Range(t.uris))>>
                                 \o (IF rest = {} THEN <<>> ELSE <<Version(FALSE, rest)>>))

\* The units of the version go back to those that wait, but for the ones an
\* earlier version has.
Unapprove(d, t) ==
  LET h == History(d, t)
      n == Len(h)
      approved == {i \in DOMAIN h : h[i].approved}
      at == Min(approved)
      back == h[at].units \ UNION {h[i].units : i \in 1..(at - 1)}
      marked == IF at > 1 THEN [h EXCEPT ![at - 1].approved = TRUE] ELSE h
  IN  IF approved = {} THEN Throw(d)
      ELSE IF ~ Range(t.uris) \subseteq h[at].units THEN Throw(d)
      ELSE IF at = n THEN WithHistory(d, t, [marked EXCEPT ![n] = Version(FALSE, back)])
      ELSE IF back \intersect h[n].units # {} THEN Throw(d)
      ELSE WithHistory(d, t, RemoveAt([marked EXCEPT ![n].units = @ \union back], at))

ProcessChannel(d, S, t, forward) ==
  IF ~ d.ok \/ t.kind \notin {"unit", "content"} \/ t.channel \notin S THEN d
  ELSE CASE t.kind = "unit" /\ forward -> AddUnit(d, t)
         [] t.kind = "unit" /\ ~ forward -> TakeUnit(d, t)
         [] t.kind = "content" /\ forward -> Approve(d, t)
         [] t.kind = "content" /\ ~ forward -> Unapprove(d, t)

-----------------------------------------------------------------------------
(* An entry, for the accounts in S; a new import keeps no blocks and no usage *)

ProcessTx(d, S, importing, entry, number, t, forward) ==
  LET d1 == ProcessStorage(d, S, t, forward)
      d2 == ProcessChannel(d1, S, t, forward)
      d3 == IF importing \/ entry.type = "tx" THEN d2
            ELSE ProcessStatistics(d2, t, number, forward)
      d4 == UpdateBalances(d3, S, t, entry.authority, forward)
  IN  ProcessTransactions(d4, S, t, entry.authority, number, forward)

ProcessReward(d, S, number, reward, forward) ==
  LET d1 == UpdateBalance(d, S, reward.to, IF forward THEN reward.amount ELSE - reward.amount)
  IN  ProcessItem(d1, S, "rw", "rwIndex", reward.to, number, reward, forward)

ProcessPart(d, S, importing, entry, number, part, forward) ==
  IF "kind" \in DOMAIN part THEN ProcessTx(d, S, importing, entry, number, part, forward)
  ELSE ProcessReward(d, S, number, part, forward)

\* The head counts the blocks after the first.
Apply(d, S, importing, e) ==
  LET head == IF e.type = "block" /\ d.taken # <<>> THEN d.head + 1 ELSE d.head
      number == IF e.type = "block" THEN head ELSE head + 1
  IN  FoldLeft(LAMBDA r, part : ProcessPart(r, S, importing, e, number, part, TRUE),
               [d EXCEPT !.taken = Append(@, e), !.head = head,
                         !.blocks = IF importing \/ e.type = "tx" THEN @ ELSE Append(@, e.authority)],
               e.txs \o e.rewards)

\* Fault: the transactions of a block are reverted in the order they were applied.
RevertInOrder(d, S, importing) ==
  LET e == Last(d.taken)
      number == IF e.type = "block" THEN d.head ELSE d.head + 1
  IN  FoldLeft(LAMBDA r, part : ProcessPart(r, S, importing, e, number, part, FALSE),
               [d EXCEPT !.taken = Front(@),
                         !.head = IF e.type = "block" THEN @ - 1 ELSE @,
                         !.blocks = IF importing \/ e.type = "tx" THEN @ ELSE Front(@)],
               e.txs \o e.rewards)

\* The transactions from the last to the first, then the rewards.
Revert(d, S, importing) ==
  LET e == Last(d.taken)
      number == IF e.type = "block" THEN d.head ELSE d.head + 1
  IN  FoldLeft(LAMBDA r, part : ProcessPart(r, S, importing, e, number, part, FALSE),
               [d EXCEPT !.taken = Front(@),
                         !.head = IF e.type = "block" THEN @ - 1 ELSE @,
                         !.blocks = IF importing \/ e.type = "tx" THEN @ ELSE Front(@)],
               Reverse(e.txs) \o Reverse(e.rewards))

\* What a context makes of a course: entries to apply and entries to take back.
Step(d, S, importing, e) ==
  CASE ~ d.ok -> d
    [] d.ok /\ e.type = "back" -> Revert(d, S, importing)
    [] d.ok /\ e.type # "back" -> Apply(d, S, importing, e)

Follow(d, S, importing, course) ==
  FoldLeft(LAMBDA r, e : Step(r, S, importing, e), [d EXCEPT !.ok = TRUE], course)

-----------------------------------------------------------------------------
CommanderInit ==
  /\ db = Empty
  /\ failed = FALSE

\* The tables of a sync that failed are discarded, all but the usage, which is
\* not a file.
Discard(after) ==
  /\ db' = [db EXCEPT !.usage = after.usage, !.ok = after.ok]
  /\ failed' = (failed \/ after.usage # db.usage)

\* commit: everything is committed but the reward logs, which are saved a second
\* time, so that it is up to the library of stores what becomes of them.
Committed(after) == IF world.kept THEN after.rw ELSE db.rw

\* On a timer: daemon_rpc::sync, save, commit.  It breaks when the connection drops
\* between two responses, or at an entry it cannot process.
Sync ==
  \E c \in Courses(db.taken) :
  \E after \in {Follow(db, Imported(db), FALSE, c)} :
    \/ after.ok /\ db' = [after EXCEPT !.rw = Committed(after)] /\ UNCHANGED failed
    \/ ~ after.ok /\ Discard(after)
    \/ ~ failed /\ after.usage # db.usage /\ Discard(after)

NewLogs(d, a) ==
  [d EXCEPT !.taken = <<>>, !.head = 0,
            !.tx = (a :> <<>>) @@ @, !.rw = (a :> <<>>) @@ @,
            !.txIndex = (a :> <<>>) @@ @, !.rwIndex = (a :> <<>>) @@ @]

\* import_account_if_needed: the log is read from its start for the new account
\* and from where the others are for them, until both have read as far.  While
\* the first is at it the node may change its mind: it reads an entry that is
\* taken back.
Import ==
  \E a \in world.accounts \ Imported(db), c \in Courses(db.taken) :
  \E existing \in {Follow(db, Imported(db), FALSE, c)} :
  \E detour \in Detours(existing.taken) :
  \E after \in {Follow(NewLogs(existing, a), {a}, TRUE, detour)} :
    IF existing.ok /\ after.ok
    THEN /\ db' = [after EXCEPT !.accounts = IF a \in DOMAIN @ THEN @ ELSE (a :> 0) @@ @,
                                !.rw = Committed(after) @@ (a :> <<>>)]
         /\ UNCHANGED failed
    ELSE Discard([existing EXCEPT !.ok = @ /\ after.ok])

\* Every 600 seconds, before it sends commands to storages, the commander forgets
\* the usage of blocks that are too old.
ForgetUsage ==
  /\ db' = [db EXCEPT !.usage = Recent(@, db.head)]
  /\ UNCHANGED failed

\* The process stops and starts again.
Restart ==
  /\ db' = [db EXCEPT !.usage = <<>>]
  /\ failed' = FALSE

CommanderNext == Sync \/ Import \/ ForgetUsage \/ Restart

-----------------------------------------------------------------------------
(* What an account is told of its past *)

\* Fault: what comes after the common part starts one block late.
RangeBreakLate(rw, tx) ==
  LET none == <<0, 0>>
      both == <<Max({rw[1], tx[1]}), Min({rw[2], tx[2]})>>
  IN  IF rw[2] <= tx[1] THEN [tx1 |-> none, rw1 |-> rw, both |-> none, tx2 |-> tx, rw2 |-> none]
      ELSE IF tx[2] <= rw[1] THEN [tx1 |-> tx, rw1 |-> none, both |-> none, tx2 |-> none, rw2 |-> rw]
      ELSE [tx1 |-> IF tx[1] < rw[1] THEN <<tx[1], rw[1]>> ELSE none,
            rw1 |-> IF rw[1] < tx[1] THEN <<rw[1], tx[1]>> ELSE none,
            both |-> both,
            tx2 |-> IF tx[2] > rw[2] THEN <<rw[2] + 1, tx[2]>> ELSE none,
            rw2 |-> IF rw[2] > tx[2] THEN <<tx[2], rw[2]>> ELSE none]

\* range_break: where the rewards and the transactions are alone and where they
\* are together.  Ranges are given as their first number and the one after the
\* last.
RangeBreak(rw, tx) ==
  LET none == <<0, 0>>
      both == <<Max({rw[1], tx[1]}), Min({rw[2], tx[2]})>>
  IN  IF rw[2] <= tx[1] THEN [tx1 |-> none, rw1 |-> rw, both |-> none, tx2 |-> tx, rw2 |-> none]
      ELSE IF tx[2] <= rw[1] THEN [tx1 |-> tx, rw1 |-> none, both |-> none, tx2 |-> none, rw2 |-> rw]
      ELSE [tx1 |-> IF tx[1] < rw[1] THEN <<tx[1], rw[1]>> ELSE none,
            rw1 |-> IF rw[1] < tx[1] THEN <<rw[1], tx[1]>> ELSE none,
            both |-> both,
            tx2 |-> IF tx[2] > rw[2] THEN <<rw[2], tx[2]>> ELSE none,
            rw2 |-> IF rw[2] > tx[2] THEN <<tx[2], rw[2]>> ELSE none]

Item(kind, number, amount) == [kind |-> kind, number |-> number, amount |-> amount]

\* The lines a transaction gives an account.  The blocks tell who got the fee,
\* for a transaction that is in one.
TxItems(d, a, number, t) ==
  LET authority == IF number < Len(d.blocks) THEN d.blocks[number + 1] ELSE ""
      line(condition, kind, amount) ==
        IF condition THEN <<Item(kind, number, amount)>> ELSE <<>>
  IN  line(t.kind = "transfer" /\ t.to = a, "received", t.amount)
      \o line(t.kind = "transfer" /\ t.from = a, "sent", t.amount)
      \o line(t.kind = "sponsor" /\ t.from = a, "sponsored", t.amount)
      \o line(t.from = a /\ t.fee # 0, "sent_fee", t.fee)
      \o line(authority = a /\ t.fee # 0, "received_fee", t.fee)

Slice(log, i) == SubSeq(log, i.first + 1, i.first + i.count)

TxHistory(d, a, number) ==
  IF number \notin DOMAIN d.txIndex[a] THEN <<>>
  ELSE FlattenSeq([i \in 1..d.txIndex[a][number].count |->
                     TxItems(d, a, number, Slice(d.tx[a], d.txIndex[a][number])[i])])

RwHistory(d, a, number) ==
  IF number \notin DOMAIN d.rwIndex[a] THEN <<>>
  ELSE [i \in 1..d.rwIndex[a][number].count |->
          Item("rewarded", number, Slice(d.rw[a], d.rwIndex[a][number])[i].amount)]

\* get_history, for the blocks from start on, count of them
GetHistory(d, a, start, count) ==
  LET asked == start..(start + count - 1)
      span(index) == LET S == DOMAIN index \intersect asked
                     IN  IF S = {} THEN <<0, 0>> ELSE <<Min(S), Max(S) + 1>>
      cut == RangeBreak(span(d.rwIndex[a]), span(d.txIndex[a]))
      walk(range, tx, rw) ==
        FlattenSeq([i \in 1..(range[2] - range[1]) |->
          (IF tx THEN TxHistory(d, a, range[1] + i - 1) ELSE <<>>)
          \o (IF rw THEN RwHistory(d, a, range[1] + i - 1) ELSE <<>>)])
  IN  walk(cut.tx1, TRUE, FALSE) \o walk(cut.rw1, FALSE, TRUE)
      \o walk(cut.both, TRUE, TRUE)
      \o walk(cut.tx2, TRUE, FALSE) \o walk(cut.rw2, FALSE, TRUE)

AddAmounts(items, kinds) ==
  FoldLeft(LAMBDA sum, i : IF i.kind \in kinds THEN sum + i.amount ELSE sum, 0, items)

\* AccountResponseFromRawAccount: lines without confirmations are of the block
\* after the head.
ConfirmedBalance(d, a) ==
  LET unconfirmed == SelectSeq(GetHistory(d, a, d.head, 2), LAMBDA i : d.head - i.number + 1 = 0)
      received == {"received", "received_fee", "rewarded"}
  IN  d.accounts[a]
      + AddAmounts(unconfirmed, {"sent", "sponsored", "sent_fee"})
      - AddAmounts(unconfirmed, received)

-----------------------------------------------------------------------------
(* The same from the entries applied, read once *)

\* Its transactions and rewards that concern an account, with their numbers.
TxsFor(stack, a) ==
  FlattenSeq([i \in DOMAIN stack |->
    LET about == SelectSeq(stack[i].txs, LAMBDA t : a \in {t.from, t.to, stack[i].authority})
    IN  [j \in DOMAIN about |-> [number |-> NumberOf(stack, i), item |-> about[j]]]])

RewardsFor(stack, a) ==
  FlattenSeq([i \in DOMAIN stack |->
    LET about == SelectSeq(stack[i].rewards, LAMBDA r : r.to = a)
    IN  [j \in DOMAIN about |-> [number |-> NumberOf(stack, i), item |-> about[j]]]])

BalanceFrom(stack, a) ==
  LET gain(t, authority) == (IF t.to = a THEN t.amount ELSE 0)
                            + (IF authority = a THEN t.fee ELSE 0)
                            - (IF t.from = a THEN t.amount + t.fee ELSE 0)
      ofEntry(e) == FoldLeft(LAMBDA sum, t : sum + gain(t, e.authority), 0, e.txs)
                    + FoldLeft(LAMBDA sum, r : IF r.to = a THEN sum + r.amount ELSE sum,
                               0, e.rewards)
  IN  FoldLeft(LAMBDA sum, e : sum + ofEntry(e), 0, stack)

IndexFrom(items) ==
  [n \in {items[i].number : i \in DOMAIN items} |->
     LET at == {i \in DOMAIN items : items[i].number = n}
     IN  [first |-> Min(at) - 1, count |-> Cardinality(at)]]

\* What a channel's content should show: the approvals, one version each, and
\* the units that are in none.
VersionsFrom(stack, a, content) ==
  LET txs == SelectSeq(AllTxs(stack), LAMBDA t : t.kind \in {"unit", "content"}
                                                 /\ t.channel = a /\ t.content = content)
      approvals == SelectSeq(txs, LAMBDA t : t.kind = "content")
      waiting == {txs[i].uri : i \in {j \in DOMAIN txs : txs[j].kind = "unit"}}
                 \ UNION {Range(approvals[i].uris) : i \in DOMAIN approvals}
  IN  [i \in DOMAIN approvals |-> Version(i = Len(approvals), Range(approvals[i].uris))]
      \o (IF waiting = {} THEN <<>> ELSE <<Version(FALSE, waiting)>>)

\* A version without units may be left at the end by a revert.
Trimmed(h) ==
  IF h # <<>> /\ Last(h) = Version(FALSE, {}) THEN Front(h) ELSE h

Contents == {t.content : t \in {u \in world.tx : u.kind \in {"unit", "content"}}}
Files == {t.file : t \in {u \in world.tx : u.kind = "update"}}

\* Every table of every account imported, whenever it was, is what the entries
\* applied make it, whatever was taken back on the way: the balances, the logs
\* and their indices, the files a storage stores, the versions of a content, the
\* blocks.  A reward log is, where its library keeps what is not committed;
\* elsewhere it stays empty while its index goes on counting.  (Following the log
\* in daemon_rpc::sync, and import_account_if_needed.)
TablesAreReplay ==
  /\ Len(db.blocks) = Cardinality({i \in DOMAIN db.taken : db.taken[i].type = "block"})
  /\ db.taken # <<>> => db.head = Len(db.blocks) - 1
  /\ \A a \in Imported(db) :
       LET txs == TxsFor(db.taken, a)
           rewards == RewardsFor(db.taken, a)
       IN
       /\ db.accounts[a] = BalanceFrom(db.taken, a)
       /\ db.tx[a] = [i \in DOMAIN txs |-> txs[i].item]
       /\ db.txIndex[a] = IndexFrom(txs)
       /\ IF world.kept
          THEN /\ db.rw[a] = [i \in DOMAIN rewards |-> rewards[i].item]
               /\ db.rwIndex[a] = IndexFrom(rewards)
          ELSE /\ db.rw[a] = <<>>
               /\ [n \in DOMAIN db.rwIndex[a] |-> db.rwIndex[a][n].count]
                    = [n \in DOMAIN IndexFrom(rewards) |-> IndexFrom(rewards)[n].count]
       /\ \A f \in Files :
            Holding(AllTxs(db.taken), a, f)
              = (a \in DOMAIN db.storages /\ f \in DOMAIN db.storages[a] /\ db.storages[a][f])
       /\ \A content \in Contents :
            VersionsFrom(db.taken, a, content)
              = IF <<a, content>> \in DOMAIN db.channels
                THEN Trimmed(db.channels[<<a, content>>]) ELSE <<>>

\* An account's history, for any range of blocks, is the lines of its transactions
\* and rewards in the order of the blocks, each once, and its confirmed balance is
\* what the blocks alone give it: the pool counts in neither.  This needs the
\* reward logs, and so a library that keeps what is not committed.  (get_history
\* with range_break, AccountResponseFromRawAccount.)
AnswersAreExact ==
  world.kept => \A a \in Imported(db) :
    LET txs == TxsFor(db.taken, a)
        rewards == RewardsFor(db.taken, a)
        of(items, n) == SelectSeq(items, LAMBDA i : i.number = n)
        lines(n) == FlattenSeq([i \in DOMAIN of(txs, n) |-> TxItems(db, a, n, of(txs, n)[i].item)])
                    \o [i \in DOMAIN of(rewards, n) |-> Item("rewarded", n, of(rewards, n)[i].item.amount)]
    IN
    /\ \A start \in 0..(db.head + 1), count \in 0..(db.head + 2) :
         GetHistory(db, a, start, count)
           = FlattenSeq([i \in 1..count |-> lines(start + i - 1)])
    /\ ConfirmedBalance(db, a)
         = BalanceFrom(SelectSeq(db.taken, LAMBDA e : e.type = "block"), a)

\* While no sync has failed, what the commander has of a block's usage is what the
\* reports of that block say, all of them: it decides which files are stored more
\* widely.  (process_statistics_transactions; a failed sync does not take back
\* what it has counted.)
UsageIsReports ==
  ~ failed =>
    \A n \in DOMAIN db.usage :
      LET reports == ReportsOf(db.taken, n)
          sum(f) == FoldLeft(LAMBDA x, t : IF f \in DOMAIN t.served THEN x + t.served[f] ELSE x,
                             0, reports)
      IN  /\ DOMAIN db.usage[n] = UNION {DOMAIN reports[j].served : j \in DOMAIN reports}
          /\ \A f \in DOMAIN db.usage[n] : db.usage[n][f] = sum(f)
=============================================================================
