------------------------------ MODULE NodeLog ------------------------------
(***************************************************************************)
(* The log of a node as its readers know it.  The modules ActionLog and    *)
(* AppliedStack show what reaches a reader: some of the entries it holds   *)
(* as applied are taken back and new ones are put on, never leaving a      *)
(* hole, and the reader may stop after any of them.  Here are the entries  *)
(* and the courses one sync may take; the log itself is whatever the       *)
(* course says it is.                                                      *)
(***************************************************************************)
EXTENDS Integers, Sequences, SequencesExt, FiniteSets, FiniteSetsExt, TLC

CONSTANTS
  Window,       \* 144, the blocks whose usage counts
  Modulus,      \* 2^64
  Worlds        \* the transactions a log may be made of and the bounds, one of
                \* these: [client, tx, pooled, authorities, genesis, reward,
                \* accounts, kept, blockMax, length, new]

VARIABLE
  world         \* chosen once.  A transaction is a record with a kind, from, to
                \* ("" for none), amount, fee and what the kind needs; those
                \* pooled may be logged alone.  kept says whether a list that is
                \* saved and never committed outlives the sync, which the library
                \* of stores decides.  blockMax, length and new bound the
                \* transactions of a block, the entries applied and the new
                \* entries a sync brings

Without(f, key) == [k \in DOMAIN f \ {key} |-> f[k]]

Transaction(t) == [type |-> "tx", txs |-> <<t>>, authority |-> "", rewards |-> <<>>]
Block(authority, txs, rewards) ==
  [type |-> "block", txs |-> txs, authority |-> authority, rewards |-> rewards]

GenesisBlock == Block("", <<>>, world.genesis)

\* Every transaction applied, in order.
AllTxs(stack) == FlattenSeq([i \in DOMAIN stack |-> stack[i].txs])

Holding(txs, storage, file) ==
  LET about == SelectSeq(txs, LAMBDA t : t.kind = "update" /\ t.storage = storage /\ t.file = file)
  IN  about # <<>> /\ Last(about).status = "store"

\* What the node has checked before it logs a transaction, as far as the tables
\* depend on it; the accounts have the coins they spend.
Fits(t, before) ==
  /\ ~ Contains(before, t)
  /\ t.kind = "content" =>
       \A u \in Range(t.uris) : \E i \in DOMAIN before :
         /\ before[i].kind = "unit" /\ before[i].uri = u
         /\ before[i].channel = t.channel /\ before[i].content = t.content
  /\ t.kind = "statistics" =>
       \A f \in DOMAIN t.served : \E i \in DOMAIN before :
         before[i].kind = "unit" /\ f \in before[i].files
  /\ t.kind = "update" =>
       Holding(before, t.storage, t.file) = (t.status = "remove")

TxSeqs(stack) ==
  {s \in UNION {[1..n -> world.tx] : n \in 0..world.blockMax} :
     \A i \in DOMAIN s : Fits(s[i], AllTxs(stack) \o SubSeq(s, 1, i - 1))}

\* What the node may log next.  A block is logged after the pool is taken off.
Next1(stack) ==
  IF stack = <<>> THEN {GenesisBlock}
  ELSE {Transaction(t) : t \in {u \in world.pooled : Fits(u, AllTxs(stack))}}
       \union
       (IF Last(stack).type = "tx" THEN {}
        ELSE {Block(a, txs, IF world.reward = 0 THEN <<>> ELSE <<[to |-> a, amount |-> world.reward]>>) :
                a \in world.authorities, txs \in TxSeqs(stack)})

\* The ways a log may go on for at most n entries.
Extensions(stack, n) ==
  LET ext[k \in 0..n] ==
        IF k = 0 \/ Len(stack) >= world.length THEN {<<>>}
        ELSE {<<>>} \union
             UNION {{Append(s, e) : e \in IF Len(stack) + Len(s) < world.length
                                          THEN Next1(stack \o s) ELSE {}} : s \in ext[k - 1]}
             \union ext[k - 1]
  IN  ext[n]

\* Where a sync may lead: some entries are taken off, the first block never, and
\* new ones are put on.
Back == [type |-> "back"]

Courses(taken) ==
  UNION {{[i \in 1..back |-> Back] \o entries :
            entries \in Extensions(SubSeq(taken, 1, Len(taken) - back), world.new)} :
         back \in {0} \union 0..(Len(taken) - 1)}

\* The ways to read from its start a log that ends up like this one, while the
\* node may change its mind once.
Detours(taken) ==
  {taken} \union
  UNION {{SubSeq(taken, 1, k) \o <<e, Back>> \o SubSeq(taken, k + 1, Len(taken)) :
            e \in IF Len(taken) < world.length THEN Next1(SubSeq(taken, 1, k)) ELSE {}} :
         k \in 1..Len(taken)}

\* The number of the block an entry is, or waits for.
NumberOf(stack, i) ==
  LET blocks == Cardinality({j \in 1..i : stack[j].type = "block"})
  IN  IF stack[i].type = "block" THEN blocks - 1 ELSE blocks

-----------------------------------------------------------------------------
(* m_file_usage_map: for a block, how often each file was served *)

\* The usage with a report of one more server.  Only what a channel reports has
\* the unit that was read; the rest is not in served.
Counted(usage, number, served) ==
  IF DOMAIN served = {} THEN usage
  ELSE LET before == IF number \in DOMAIN usage THEN usage[number] ELSE <<>>
           was(f) == IF f \in DOMAIN before THEN before[f] ELSE 0
           more(f) == IF f \in DOMAIN served THEN served[f] ELSE 0
       IN  (number :> [f \in DOMAIN before \union DOMAIN served |-> was(f) + more(f)]) @@ usage

\* head - blocks, unsigned
Before(head, blocks) == (head - blocks) % Modulus

\* What is left of it when the blocks before the window are forgotten.  While the
\* chain is shorter than the window the first number kept is a huge one.
Recent(usage, head) ==
  [n \in {m \in DOMAIN usage : m >= Before(head, Window)} |-> usage[n]]

\* Fault: the window is a block too long.
ServedLonger(usage, head) ==
  LET numbers == {n \in DOMAIN usage : n > 0 /\ n >= Before(head, Window)}
  IN  [f \in UNION {DOMAIN usage[n] : n \in numbers} |->
         FoldSet(LAMBDA n, sum : sum + (IF f \in DOMAIN usage[n] THEN usage[n][f] ELSE 0),
                 0, numbers)]

\* How often each file was served in the blocks of the window.
Served(usage, head) ==
  LET numbers == {n \in DOMAIN usage : n > 0 /\ n > Before(head, Window)}
  IN  [f \in UNION {DOMAIN usage[n] : n \in numbers} |->
         FoldSet(LAMBDA n, sum : sum + (IF f \in DOMAIN usage[n] THEN usage[n][f] ELSE 0),
                 0, numbers)]

\* The blocks applied that have a number, and what is reported in them.
ReportsOf(stack, n) ==
  FlattenSeq([i \in DOMAIN stack |->
    IF stack[i].type = "block" /\ NumberOf(stack, i) = n
    THEN SelectSeq(stack[i].txs, LAMBDA t : t.kind = "statistics") ELSE <<>>])
=============================================================================
