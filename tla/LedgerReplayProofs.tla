------------------------- MODULE LedgerReplayProofs -------------------------
(***************************************************************************)
(* Proofs about Ledger, for every finite set of accounts and transactions  *)
(* and every value of the other constants, if the rewinds are covered by   *)
(* the age of a cleaned key (RewindsCovered of TransactionFlow), and as    *)
(* long as no cleaning drops the key of a pool transaction (PoolKeysStay): *)
(*                                                                         *)
(*   KeysStay           when that is so for certain                        *)
(*                                                                         *)
(*   TypeCorrect        no account is ever overdrawn                       *)
(*   StoresAreReplay    the stores are those of the chain applied from the *)
(*                      genesis block, followed by the pool                *)
(*   ChainStaysAcceptable  another node accepts the chain                  *)
(*   LogTellsChainThenPool  the log and the flags of the cache             *)
(*                                                                         *)
(* A book is what the accounts, the files and the log should hold.  The    *)
(* chain is a path of books from that of the genesis block (ChainPath),    *)
(* the pool another one on top of it (OnPool).  Stores to which something  *)
(* is put on go along the path, stores from which something is taken off   *)
(* go back along it: the invariant (BooksInv) needs no recomputation.  To  *)
(* go back over the pool the flags of the cache must tell what was applied *)
(* (Tells), which is where the keys of the pool have to stay cached.       *)
(***************************************************************************)
EXTENDS LedgerProofs

-----------------------------------------------------------------------------
(* Books: what the chain and the pool make of the accounts, the files and   *)
(* the log                                                                  *)

Book == [balance : [Address -> Nat], files : SUBSET Uri, log : Seq(Entry)]

\* The stores say what a book says.
Keeps(w, s) == w.balance = s.balance /\ w.files = s.files /\ w.log = s.log

\* The steps from one book to the next: a transaction of a block, a transaction
\* of the pool, the end of a block.
TxStep(s, u, t, miner) ==
  /\ Can(s, t)
  /\ u.balance = BlockMoves(s.balance, t, miner)
  /\ u.files = s.files \union NewFiles(t)
  /\ u.log = s.log
PoolStep(s, u, t) ==
  /\ t \in Complete =>
       /\ Can(s, t)
       /\ u.balance = ActionMoves(s.balance, t)
       /\ u.files = s.files \union NewFiles(t)
       /\ u.log = Append(s.log, <<"tx", t>>)
  /\ t \notin Complete => u = s
Closes(s, u, block) ==
  /\ u.balance = [c \in Address |-> s.balance[c] + (IF c = block.miner THEN Emission ELSE 0)]
  /\ u.files = s.files
  /\ u.log = Append(s.log, <<"block", block>>)

LEMMA StoresFields ==
  ASSUME NEW w \in Stores
  PROVE  /\ w.balance \in [Address -> Int] /\ w.own \in Int /\ w.files \in SUBSET Uri
         /\ w.pool \in Seq(Tx) /\ w.cache \in Cache /\ w.log \in Seq(Entry)
BY DEF Stores

LEMMA BookFields ==
  ASSUME NEW s \in Book
  PROVE  /\ s.balance \in [Address -> Nat] /\ s.balance \in [Address -> Int]
         /\ s.files \in SUBSET Uri /\ s.log \in Seq(Entry)
BY DEF Book

\* No coins are taken that are not there.
LEMMA CanMoves ==
  ASSUME NEW b \in [Address -> Nat], NEW s, s.balance = b, NEW t \in Tx, Can(s, t),
         NEW miner \in Address
  PROVE  /\ ActionMoves(b, t) \in [Address -> Nat]
         /\ BlockMoves(b, t, miner) \in [Address -> Nat]
<1>1. /\ Owner(t) \in Address
      /\ Fee[t] \in Nat
      /\ Action[t].type = "Transfer" => /\ Action[t].from \in Address
                                        /\ Action[t].to \in Address
                                        /\ Action[t].amount \in Nat
  BY ActionNames, LedgerAssumption
<1>2. PICK d : d = ActionMoves(b, t)
  OBVIOUS
<1>3. d \in [Address -> Nat]
  <2>1. CASE Action[t].type = "Transfer"
    <3>1. PICK f \in Address, a \in Address, x \in Nat :
            f = Action[t].from /\ a = Action[t].to /\ x = Action[t].amount
      BY <1>1, <2>1
    <3>2. b[f] >= x
      BY <2>1, <3>1 DEF Can
    <3>3. d = [c \in Address |-> b[c] + (IF c = a THEN x ELSE 0) - (IF c = f THEN x ELSE 0)]
      BY <1>2, <2>1, <3>1 DEF ActionMoves, Moved
    <3>4. ASSUME NEW c \in Address
          PROVE  b[c] + (IF c = a THEN x ELSE 0) - (IF c = f THEN x ELSE 0) \in Nat
      <4>1. b[c] \in Nat
        OBVIOUS
      <4>2. CASE c = f
        BY <3>2, <4>1, <4>2
      <4>3. CASE c # f
        BY <4>1, <4>3
      <4> QED BY <4>2, <4>3
    <3> QED BY <3>3, <3>4
  <2>2. CASE Action[t].type # "Transfer"
    BY <1>2, <2>2 DEF ActionMoves
  <2> QED BY <2>1, <2>2
<1>4. PICK o \in Address, x \in Nat : o = Owner(t) /\ x = Fee[t]
  BY <1>1
<1>5. d[o] >= x
  BY <1>2, <1>4 DEF Can
<1>6. BlockMoves(b, t, miner) = [c \in Address |-> d[c] + (IF c = miner THEN x ELSE 0) - (IF c = o THEN x ELSE 0)]
  BY <1>2, <1>4 DEF BlockMoves, Moved
<1>7. ASSUME NEW c \in Address
      PROVE  d[c] + (IF c = miner THEN x ELSE 0) - (IF c = o THEN x ELSE 0) \in Nat
  <2>1. d[c] \in Nat
    BY <1>3
  <2>2. CASE c = o
    BY <1>5, <2>1, <2>2
  <2>3. CASE c # o
    BY <2>1, <2>3
  <2> QED BY <2>2, <2>3
<1> QED BY <1>2, <1>3, <1>6, <1>7

LEMMA NewFilesType ==
  ASSUME NEW t \in Tx
  PROVE  NewFiles(t) \in SUBSET Uri
BY ActionNames DEF NewFiles

\* A book for stores that hold no debts.
LEMMA BookKept ==
  ASSUME NEW w \in Stores, w.balance \in [Address -> Nat]
  PROVE  \E u \in Book : Keeps(w, u)
<1>1. PICK u : u = [balance |-> w.balance, files |-> w.files, log |-> w.log]
  OBVIOUS
<1>2. u \in Book
  BY <1>1, StoresFields DEF Book
<1>3. Keeps(w, u)
  BY <1>1 DEF Keeps
<1> QED BY <1>2, <1>3

LEMMA CanKept ==
  ASSUME NEW w, NEW s, Keeps(w, s), NEW t
  PROVE  Can(w, t) <=> Can(s, t)
BY DEF Can, Keeps

\* A transaction enters a block.
LEMMA TxForward ==
  ASSUME NEW w \in Stores, NEW s \in Book, Keeps(w, s), NEW t \in Tx, NEW miner \in Address,
         Can(w, t), NEW v \in Stores, Joins(v, w, t, miner)
  PROVE  \E u \in Book : Keeps(v, u) /\ TxStep(s, u, t, miner)
<1>1. Can(s, t)
  BY CanKept
<1>2. PICK b \in [Address -> Nat] : b = s.balance /\ b = w.balance
  BY BookFields DEF Keeps
<1>3. BlockMoves(b, t, miner) \in [Address -> Nat]
  BY <1>1, <1>2, CanMoves
<1>4. v.balance = BlockMoves(b, t, miner) /\ v.files = w.files \union NewFiles(t) /\ v.log = w.log
  BY <1>2 DEF Joins
<1>5. PICK u \in Book : Keeps(v, u)
  BY <1>3, <1>4, BookKept
<1>6. TxStep(s, u, t, miner)
  BY <1>1, <1>2, <1>4, <1>5 DEF TxStep, Keeps
<1> QED BY <1>5, <1>6

\* A transaction of a block is taken off.
LEMMA TxBackward ==
  ASSUME NEW w \in Stores, NEW s \in Book, NEW u \in Book, NEW t \in Tx, NEW miner \in Address,
         TxStep(s, u, t, miner), Keeps(w, u), NEW v, v = Unapplied(t, w, miner)
  PROVE  v \in Stores /\ Keeps(v, s) /\ (Owned(w) => Owned(v))
<1>1. PICK x : x = ChainRevert(w, t, miner)
  OBVIOUS
<1>2. PICK b \in [Address -> Int] : b = s.balance
  BY BookFields
<1>3. PICK F : F = s.files
  OBVIOUS
<1>4. /\ F \intersect NewFiles(t) = {}
      /\ w.balance = BlockMoves(b, t, miner) /\ w.files = F \union NewFiles(t) /\ w.log = s.log
  BY <1>2, <1>3 DEF TxStep, Keeps, Can
<1>5. x \in Stores /\ x.balance = b /\ x.files = F /\ x.log = w.log /\ (Owned(w) => Owned(x))
  BY <1>1, <1>2, <1>4, ChainRevertFields
<1>6. v \in Stores
  BY UnappliedPapers
<1>7. v = [x EXCEPT !.cache = EraseKeys(@, Keys(t))]
  BY <1>1 DEF Unapplied
<1>8. v.balance = x.balance /\ v.files = x.files /\ v.log = x.log /\ v.own = x.own
  BY <1>5, <1>7 DEF Stores
<1> QED BY <1>2, <1>3, <1>4, <1>5, <1>6, <1>8 DEF Keeps, Owned

\* A transaction is put back into the pool.
LEMMA PoolForward ==
  ASSUME NEW w \in Stores, NEW s \in Book, Keeps(w, s), NEW t \in Tx,
         NEW v \in Stores, Waits(v, w, t)
  PROVE  \E u \in Book : Keeps(v, u) /\ PoolStep(s, u, t)
<1>1. CASE t \notin Complete
  <2>1. Keeps(v, s)
    BY <1>1 DEF Waits, Keeps
  <2> QED BY <1>1, <2>1 DEF PoolStep
<1>2. CASE t \in Complete
  <2>1. Can(w, t) /\ Can(s, t)
    BY <1>2, CanKept DEF Waits
  <2>2. PICK b \in [Address -> Nat] : b = s.balance /\ b = w.balance
    BY BookFields DEF Keeps
  <2>3. PICK a \in Address : TRUE
    BY LedgerAssumption
  <2>4. ActionMoves(b, t) \in [Address -> Nat]
    BY <2>1, <2>2, <2>3, CanMoves
  <2>5. /\ v.balance = ActionMoves(b, t) /\ v.files = w.files \union NewFiles(t)
        /\ v.log = Append(w.log, <<"tx", t>>)
    BY <1>2, <2>2 DEF Waits
  <2>6. PICK u \in Book : Keeps(v, u)
    BY <2>4, <2>5, BookKept
  <2>7. PoolStep(s, u, t)
    BY <1>2, <2>1, <2>2, <2>5, <2>6 DEF PoolStep, Keeps
  <2> QED BY <2>6, <2>7
<1> QED BY <1>1, <1>2

\* The end of a log is taken off.
LEMMA FrontOfAppend ==
  ASSUME NEW A, NEW q \in Seq(A), NEW x \in A
  PROVE  Front(Append(q, x)) = q
<1>1. PICK n \in Nat : n = Len(q) /\ q = [i \in 1..n |-> q[i]]
  OBVIOUS
<1>2. PICK d \in Seq(A) : d = Append(q, x) /\ Len(d) = n + 1 /\ \A i \in 1..n : d[i] = q[i]
  <2>1. Append(q, x) \in Seq(A) /\ Len(Append(q, x)) = n + 1 /\ \A i \in 1..n : Append(q, x)[i] = q[i]
    BY <1>1
  <2> QED BY <2>1
<1>3. Front(d) = SubSeq(d, 1, n)
  BY <1>2 DEF Front
<1>4. PICK y \in Seq(A) : y = SubSeq(d, 1, n) /\ Len(y) = n /\ \A i \in 1..n : y[i] = d[i]
  <2>1. SubSeq(d, 1, n) \in Seq(A) /\ Len(SubSeq(d, 1, n)) = n /\ \A i \in 1..n : SubSeq(d, 1, n)[i] = d[i]
    BY <1>2, SubSeqProperties
  <2> QED BY <2>1
<1>5. y = q
  BY <1>1, <1>2, <1>4, SeqEqual
<1> QED BY <1>2, <1>3, <1>4, <1>5

\* The action of a pool transaction is reverted.
LEMMA PoolReverts ==
  ASSUME NEW w \in Stores, NEW s \in Book, NEW u \in Book, NEW t \in Tx, t \in Complete,
         PoolStep(s, u, t), Keeps(w, u), NEW layer, NEW x, x = ActionRevert(w, t, layer)
  PROVE  x \in Stores /\ x.balance = s.balance /\ x.files = s.files /\ x.log = w.log
<1>1. PICK b \in [Address -> Int] : b = s.balance
  BY BookFields
<1>2. PICK F : F = s.files
  OBVIOUS
<1>4. F \intersect NewFiles(t) = {} /\ w.balance = ActionMoves(b, t) /\ w.files = F \union NewFiles(t)
  BY <1>1, <1>2 DEF PoolStep, Keeps, Can
<1>5. /\ x \in Stores /\ x.balance = b /\ x.files = F
      /\ x.log = w.log /\ x.pool = w.pool /\ x.cache = w.cache
      /\ OwnFollows(x, w, layer)
  BY <1>4, ActionRevertFields
<1> QED BY <1>1, <1>2, <1>5

\* A transaction of the pool is taken off.
LEMMA PoolBackward ==
  ASSUME NEW w \in Stores, NEW s \in Book, NEW u \in Book, NEW t \in Tx,
         PoolStep(s, u, t), Keeps(w, u), t \in DOMAIN w.cache, w.cache[t] = (t \in Complete),
         NEW v, v = RevertPooled(t, w)
  PROVE  v \in Stores /\ Keeps(v, s)
<1>1. v \in Stores
  BY PooledPapers
<1>2. CASE t \notin Complete
  <2>1. ~ (t \in DOMAIN w.cache /\ w.cache[t])
    BY <1>2
  <2>2. v = [w EXCEPT !.cache = EraseKeys(@, {t})]
    BY <2>1 DEF RevertPooled
  <2>3. v.balance = w.balance /\ v.files = w.files /\ v.log = w.log
    BY <2>2 DEF Stores
  <2> QED BY <1>1, <1>2, <2>3 DEF Keeps, PoolStep
<1>3. CASE t \in Complete
  <2>1. t \in DOMAIN w.cache /\ w.cache[t]
    BY <1>3
  <2>2. PICK x : x = ActionRevert(w, t, "pool")
    OBVIOUS
  <2>3. x \in Stores /\ x.balance = s.balance /\ x.files = s.files /\ x.log = w.log
    BY <1>3, <2>2, PoolReverts
  <2>4. v = [[x EXCEPT !.log = Front(@)] EXCEPT !.cache = EraseKeys(@, {t})]
    BY <2>1, <2>2 DEF RevertPooled
  <2>5. v.balance = x.balance /\ v.files = x.files /\ v.log = Front(x.log)
    BY <2>3, <2>4 DEF Stores
  <2>6. Front(w.log) = s.log
    <3>1. PICK l \in Seq(Entry) : l = s.log
      BY BookFields
    <3>2. PICK e \in Entry : e = <<"tx", t>>
      BY DEF Entry
    <3>3. w.log = Append(l, e)
      BY <1>3, <3>1, <3>2 DEF PoolStep, Keeps
    <3> QED BY <3>1, <3>2, <3>3, FrontOfAppend
  <2> QED BY <1>1, <2>3, <2>5, <2>6 DEF Keeps
<1> QED BY <1>2, <1>3

\* The reward of a block and its entry in the log are put on.
LEMMA CloseForward ==
  ASSUME NEW w \in Stores, NEW s \in Book, Keeps(w, s), NEW block \in Block,
         NEW v, v = CloseBlock(w, block)
  PROVE  v \in Stores /\ \E u \in Book : Keeps(v, u) /\ Closes(s, u, block)
<1>1. /\ v \in Stores
      /\ v.balance = [c \in Address |-> w.balance[c] + (IF c = block.miner THEN Emission ELSE 0)]
      /\ v.log = Append(w.log, <<"block", block>>)
      /\ v.files = w.files
  BY CloseBlockFields
<1>2. PICK b \in [Address -> Nat] : b = s.balance /\ b = w.balance
  BY BookFields DEF Keeps
<1>3. v.balance \in [Address -> Nat]
  <2>1. \A c \in Address : b[c] + (IF c = block.miner THEN Emission ELSE 0) \in Nat
    BY LedgerAssumption
  <2>2. v.balance = [c \in Address |-> b[c] + (IF c = block.miner THEN Emission ELSE 0)]
    BY <1>1, <1>2
  <2> QED BY <2>1, <2>2
<1>4. PICK u \in Book : Keeps(v, u)
  BY <1>1, <1>3, BookKept
<1>5. Closes(s, u, block)
  BY <1>1, <1>2, <1>4 DEF Closes, Keeps
<1> QED BY <1>1, <1>4, <1>5

\* They are taken off.
LEMMA CloseBackward ==
  ASSUME NEW w \in Stores, NEW s \in Book, NEW u \in Book, NEW block \in Block,
         Closes(s, u, block), Keeps(w, u),
         NEW v, v = Pay([w EXCEPT !.log = Front(@)], block.miner, -Emission, "chain")
  PROVE  v \in Stores /\ Keeps(v, s) /\ (Owned(w) => Owned(v))
<1>1. PICK r \in Stores : r = [w EXCEPT !.log = Front(@)]
  <2>1. <<"block", block>> \in Entry
    BY DEF Entry
  <2> QED BY <2>1, LogTypes
<1>2. r.balance = w.balance /\ r.files = w.files /\ r.own = w.own /\ r.log = Front(w.log)
  BY <1>1 DEF Stores
<1>3. PICK miner \in Address : miner = block.miner
  BY DEF Block
<1>4. PICK x \in Int : x = -Emission
  BY LedgerAssumption
<1>5. v = Pay(r, miner, x, "chain")
  BY <1>1, <1>3, <1>4
<1>6. v \in Stores /\ SamePapers(v, r) /\ OwnFollows(v, r, "chain")
  BY <1>5, PayFields
<1>7. v.balance = [c \in Address |-> r.balance[c] + (IF c = miner THEN x ELSE 0)]
  BY <1>5, PayFields
<1>8. v.balance = s.balance
  <2>1. PICK b \in [Address -> Int] : b = s.balance
    BY BookFields
  <2>2. r.balance = [c \in Address |-> b[c] + (IF c = miner THEN Emission ELSE 0)]
    BY <1>2, <1>3, <2>1 DEF Keeps, Closes
  <2>3. ASSUME NEW c \in Address
        PROVE  v.balance[c] = b[c]
    <3>1. v.balance[c] = r.balance[c] + (IF c = miner THEN x ELSE 0)
      BY <1>7
    <3>2. r.balance[c] = b[c] + (IF c = miner THEN Emission ELSE 0)
      BY <2>2
    <3>3. b[c] \in Int /\ Emission \in Int
      BY LedgerAssumption
    <3> QED BY <1>4, <3>1, <3>2, <3>3
  <2>4. v.balance = [c \in Address |-> v.balance[c]] /\ b = [c \in Address |-> b[c]]
    BY <1>7
  <2> QED BY <2>1, <2>3, <2>4
<1>9. Front(w.log) = s.log
  <2>1. PICK l \in Seq(Entry) : l = s.log
    BY BookFields
  <2>2. PICK e \in Entry : e = <<"block", block>>
    BY DEF Entry
  <2> QED BY <2>1, <2>2, FrontOfAppend DEF Keeps, Closes
<1>10. v.files = s.files /\ v.log = s.log
  BY <1>2, <1>6, <1>9 DEF SamePapers, Keeps, Closes
<1>11. Owned(w) => Owned(v)
  BY <1>2, <1>6 DEF OwnFollows, Owned
<1> QED BY <1>6, <1>8, <1>10, <1>11 DEF Keeps

-----------------------------------------------------------------------------
(* Paths: the books along a sequence of transactions *)

Leads(kind, miner, s, u, t) ==
  IF kind = "block" THEN TxStep(s, u, t, miner) ELSE PoolStep(s, u, t)

\* p holds the books from s, after each of the transactions of q, to u.
Path(p, kind, miner, s, u, q) ==
  /\ p[0] = s /\ p[Len(q)] = u
  /\ \A n \in 0..Len(q) : p[n] \in Book
  /\ \A n \in 1..Len(q) : Leads(kind, miner, p[n - 1], p[n], q[n])
Reaches(kind, miner, s, u, q) == \E p : Path(p, kind, miner, s, u, q)

LEMMA ReachesItself ==
  ASSUME NEW s \in Book, NEW kind, NEW miner
  PROVE  Reaches(kind, miner, s, s, <<>>)
<1>1. PICK p : p = [n \in {0} |-> s]
  OBVIOUS
<1>2. p[0] = s /\ 0..Len(<<>>) = {0} /\ 1..Len(<<>>) = {}
  BY <1>1
<1>3. Path(p, kind, miner, s, s, <<>>)
  BY <1>2 DEF Path
<1> QED BY <1>3 DEF Reaches

LEMMA ReachesFurther ==
  ASSUME NEW kind, NEW miner, NEW s \in Book, NEW u \in Book, NEW z \in Book,
         NEW A, NEW q \in Seq(A), NEW t \in A,
         Reaches(kind, miner, s, u, q), Leads(kind, miner, u, z, t)
  PROVE  Reaches(kind, miner, s, z, Append(q, t))
<1>1. PICK p : Path(p, kind, miner, s, u, q)
  BY DEF Reaches
<1>2. PICK N \in Nat : N = Len(q)
  OBVIOUS
<1>3. PICK d : d = Append(q, t) /\ Len(d) = N + 1 /\ d[N + 1] = t /\ \A n \in 1..N : d[n] = q[n]
  <2>1. /\ Len(Append(q, t)) = N + 1 /\ Append(q, t)[N + 1] = t
        /\ \A n \in 1..N : Append(q, t)[n] = q[n]
    BY <1>2
  <2> QED BY <2>1
<1>4. PICK g : g = [n \in 0..(N + 1) |-> IF n = N + 1 THEN z ELSE p[n]]
  OBVIOUS
<1>5. g[N + 1] = z /\ \A n \in 0..N : g[n] = p[n]
  BY <1>4
<1>6. g[0] = s /\ g[N] = u
  BY <1>1, <1>2, <1>5 DEF Path
<1>7. \A n \in 0..(N + 1) : g[n] \in Book
  <2>1. ASSUME NEW n \in 0..(N + 1)
        PROVE  g[n] \in Book
    <3>1. n = N + 1 \/ n \in 0..N
      OBVIOUS
    <3> QED BY <1>1, <1>2, <1>5, <3>1 DEF Path
  <2> QED BY <2>1
<1>8. \A n \in 1..(N + 1) : Leads(kind, miner, g[n - 1], g[n], d[n])
  <2>1. ASSUME NEW n \in 1..(N + 1)
        PROVE  Leads(kind, miner, g[n - 1], g[n], d[n])
    <3>1. CASE n = N + 1
      BY <1>3, <1>5, <1>6, <3>1
    <3>2. CASE n # N + 1
      <4>1. n \in 1..N /\ n - 1 \in 0..N /\ n \in 0..N
        BY <3>2
      <4>2. g[n - 1] = p[n - 1] /\ g[n] = p[n] /\ d[n] = q[n]
        BY <1>3, <1>5, <4>1
      <4> QED BY <1>1, <1>2, <4>1, <4>2 DEF Path
    <3> QED BY <3>1, <3>2
  <2> QED BY <2>1
<1>9. Path(g, kind, miner, s, z, d)
  BY <1>3, <1>5, <1>6, <1>7, <1>8 DEF Path
<1> QED BY <1>3, <1>9 DEF Reaches

\* The first elements of a sequence.
LEMMA PrefixGrows ==
  ASSUME NEW A, NEW q \in Seq(A)
  PROVE  /\ SubSeq(q, 1, 0) = <<>> /\ SubSeq(q, 1, Len(q)) = q
         /\ \A n \in 0..Len(q) : SubSeq(q, 1, n) \in Seq(A)
         /\ \A n \in 1..Len(q) : SubSeq(q, 1, n) = Append(SubSeq(q, 1, n - 1), q[n])
<1>1. PICK N \in Nat : N = Len(q) /\ q = [i \in 1..N |-> q[i]]
  OBVIOUS
<1>2. ASSUME NEW n \in 0..N
      PROVE  /\ SubSeq(q, 1, n) \in Seq(A) /\ Len(SubSeq(q, 1, n)) = n
             /\ \A i \in 1..n : SubSeq(q, 1, n)[i] = q[i]
  <2>1. n \in Nat /\ n <= Len(q)
    BY <1>1
  <2> QED BY <2>1, SubSeqProperties
<1>3. ASSUME NEW n \in 1..N
      PROVE  SubSeq(q, 1, n) = Append(SubSeq(q, 1, n - 1), q[n])
  <2>1. PICK x \in Seq(A) : x = SubSeq(q, 1, n) /\ Len(x) = n /\ \A i \in 1..n : x[i] = q[i]
    <3>1. n \in 0..N
      OBVIOUS
    <3> QED BY <1>2, <3>1
  <2>2. n - 1 \in 0..N /\ q[n] \in A
    BY <1>1
  <2>3. PICK y \in Seq(A) : y = SubSeq(q, 1, n - 1) /\ Len(y) = n - 1 /\ \A i \in 1..(n - 1) : y[i] = q[i]
    BY <1>2, <2>2
  <2>4. PICK z \in Seq(A) : /\ z = Append(y, q[n]) /\ Len(z) = n /\ z[n] = q[n]
                            /\ \A i \in 1..(n - 1) : z[i] = y[i]
    <3>1. /\ Append(y, q[n]) \in Seq(A) /\ Len(Append(y, q[n])) = n /\ Append(y, q[n])[n] = q[n]
          /\ \A i \in 1..(n - 1) : Append(y, q[n])[i] = y[i]
      BY <2>2, <2>3
    <3> QED BY <3>1
  <2>5. \A i \in 1..n : x[i] = z[i]
    BY <2>1, <2>3, <2>4
  <2>6. x = z
    BY <2>1, <2>4, <2>5, SeqEqual
  <2> QED BY <2>1, <2>3, <2>4, <2>6
<1>4. SubSeq(q, 1, Len(q)) = q
  <2>1. N \in 0..N
    OBVIOUS
  <2>2. PICK x \in Seq(A) : x = SubSeq(q, 1, N) /\ Len(x) = N /\ \A i \in 1..N : x[i] = q[i]
    BY <1>2, <2>1
  <2> QED BY <1>1, <2>2, SeqEqual
<1>5. SubSeq(q, 1, 0) = <<>>
  <2>1. 0 \in 0..N
    OBVIOUS
  <2>2. SubSeq(q, 1, 0) \in Seq(A) /\ Len(SubSeq(q, 1, 0)) = 0
    BY <1>2, <2>1
  <2> QED BY <2>2
<1> QED BY <1>1, <1>2, <1>3, <1>4, <1>5

-----------------------------------------------------------------------------
(* The pool and the blocks are taken off: the stores go back along a path   *)

\* The cache tells whether a transaction was applied when it entered the pool.
FlagTold(e, t) == t \in DOMAIN e /\ e[t] = (t \in Complete)
Flags(w) == Distinct(w.pool) /\ \A i \in DOMAIN w.pool : FlagTold(w.cache, w.pool[i])

LEMMA FlagErased ==
  ASSUME NEW e \in Cache, NEW t \in Tx, NEW k \in Tx, k # t, FlagTold(e, k)
  PROVE  FlagTold(EraseKeys(e, {t}), k)
<1>1. k \in DOMAIN e \ {t}
  BY DEF FlagTold
<1>2. DOMAIN EraseKeys(e, {t}) = DOMAIN e \ {t}
  BY CacheFields
<1>3. EraseKeys(e, {t})[k] = e[k]
  BY <1>1 DEF EraseKeys
<1> QED BY <1>1, <1>2, <1>3 DEF FlagTold

LEMMA PoolBackwardTold ==
  ASSUME NEW w \in Stores, NEW s \in Book, NEW u \in Book, NEW t \in Tx,
         PoolStep(s, u, t), Keeps(w, u), FlagTold(w.cache, t),
         NEW v, v = RevertPooled(t, w)
  PROVE  v \in Stores /\ Keeps(v, s)
<1>1. t \in DOMAIN w.cache /\ w.cache[t] = (t \in Complete)
  BY DEF FlagTold
<1> QED BY <1>1, PoolBackward

\* The pool is taken off, back to the book of the chain.
LEMMA PoolOffBook ==
  ASSUME NEW w \in Stores, NEW s \in Book, NEW u \in Book, Flags(w),
         Reaches("pool", <<>>, s, u, w.pool), Keeps(w, u), NEW v, v = RevertPool(w)
  PROVE  v \in Stores /\ Keeps(v, s) /\ Owned(v)
<1>1. PICK q \in Seq(Tx) : q = w.pool
  BY StoresFields
<1>2. PICK N \in Nat : N = Len(q) /\ DOMAIN q = 1..N
  OBVIOUS
<1>3. PICK p : Path(p, "pool", <<>>, s, u, q)
  BY <1>1 DEF Reaches
<1>4. PICK f : RightRun(f, "pooled", <<>>, w, q) /\ FoldRight(RevertPooled, q, w) = f[0]
  BY PooledRun
<1>5. PICK W : W = [n \in 0..N |-> {z \in Stores : Keeps(z, p[n]) /\ \A i \in 1..n : FlagTold(z.cache, q[i])}]
  OBVIOUS
<1>6. f[N] \in W[N]
  <2>1. f[N] = w
    BY <1>2, <1>4 DEF RightRun
  <2>2. W[N] = {z \in Stores : Keeps(z, p[N]) /\ \A i \in 1..N : FlagTold(z.cache, q[i])}
    BY <1>5
  <2>3. p[N] = u
    BY <1>2, <1>3 DEF Path
  <2>4. \A i \in 1..N : FlagTold(w.cache, q[i])
    BY <1>1, <1>2 DEF Flags
  <2> QED BY <2>1, <2>2, <2>3, <2>4
<1>7. ASSUME NEW n \in 1..N, f[n] \in W[n]
      PROVE  f[n - 1] \in W[n - 1]
  <2>1. W[n] = {z \in Stores : Keeps(z, p[n]) /\ \A i \in 1..n : FlagTold(z.cache, q[i])}
    BY <1>5
  <2>2. W[n - 1] = {z \in Stores : Keeps(z, p[n - 1]) /\ \A i \in 1..(n - 1) : FlagTold(z.cache, q[i])}
    BY <1>5
  <2>3. PICK z \in Stores : z = f[n] /\ Keeps(z, p[n]) /\ \A i \in 1..n : FlagTold(z.cache, q[i])
    BY <1>7, <2>1
  <2>4. PICK t \in Tx : t = q[n]
    BY <1>2
  <2>5. PICK y : y = RevertPooled(t, z)
    OBVIOUS
  <2>6. f[n - 1] = y
    BY <1>2, <1>4, <2>3, <2>4, <2>5 DEF RightRun, Do
  <2>7. p[n - 1] \in Book /\ p[n] \in Book /\ PoolStep(p[n - 1], p[n], t)
    BY <1>2, <1>3, <2>4 DEF Path, Leads
  <2>8. FlagTold(z.cache, t)
    BY <2>3, <2>4
  <2>9. y \in Stores /\ Keeps(y, p[n - 1])
    BY <2>3, <2>5, <2>7, <2>8, PoolBackwardTold
  <2>10. y.cache = EraseKeys(z.cache, {t})
    BY <2>5, PooledPapers
  <2>11. ASSUME NEW i \in 1..(n - 1)
         PROVE  FlagTold(y.cache, q[i])
    <3>1. q[i] \in Tx /\ FlagTold(z.cache, q[i])
      BY <1>2, <2>3
    <3>2. q[i] # t
      BY <1>1, <1>2, <2>4 DEF Flags, Distinct
    <3>3. z.cache \in Cache
      BY StoresFields
    <3> QED BY <2>10, <3>1, <3>2, <3>3, FlagErased
  <2> QED BY <2>2, <2>6, <2>9, <2>11
<1>8. f[0] \in W[0]
  <2>1. \A n \in 0..N : f[n] \in W[n]
    BY <1>6, <1>7, RightReaches
  <2> QED BY <2>1
<1>9. PICK z \in Stores : z = f[0] /\ Keeps(z, p[0])
  <2>1. W[0] = {z \in Stores : Keeps(z, p[0]) /\ \A i \in 1..0 : FlagTold(z.cache, q[i])}
    BY <1>5
  <2> QED BY <1>8, <2>1
<1>10. p[0] = s
  BY <1>3 DEF Path
<1>11. v = [z EXCEPT !.pool = <<>>, !.own = z.balance[Own]]
  BY <1>1, <1>4, <1>9 DEF RevertPool
<1>12. v.balance = z.balance /\ v.files = z.files /\ v.log = z.log
  BY <1>11 DEF Stores
<1>13. v \in Stores /\ Owned(v)
  BY PoolOffKeys
<1> QED BY <1>9, <1>10, <1>12, <1>13 DEF Keeps

\* A block leads from one book to the next: its miner has enough coins for it.
BlockStep(s, u, block) ==
  /\ s.balance[block.miner] >= Threshold
  /\ \E z \in Book : Reaches("block", block.miner, s, z, block.txs) /\ Closes(z, u, block)

\* A block is taken off.
LEMMA BlockOffBook ==
  ASSUME NEW w \in Stores, NEW s \in Book, NEW u \in Book, NEW block \in Block,
         BlockStep(s, u, block), Keeps(w, u), NEW v, v = RevertBlock(w, block)
  PROVE  v \in Stores /\ Keeps(v, s) /\ (Owned(w) => Owned(v))
<1>1. PICK q \in Seq(Tx), miner \in Address : q = block.txs /\ miner = block.miner
  BY DEF Block
<1>2. PICK N \in Nat : N = Len(q) /\ DOMAIN q = 1..N
  OBVIOUS
<1>3. PICK x \in Book : Reaches("block", miner, s, x, q) /\ Closes(x, u, block)
  BY <1>1 DEF BlockStep
<1>4. PICK p : Path(p, "block", miner, s, x, q)
  BY <1>3 DEF Reaches
<1>5. PICK base : base = Pay([w EXCEPT !.log = Front(@)], block.miner, -Emission, "chain")
  OBVIOUS
<1>6. base \in Stores /\ Keeps(base, x) /\ (Owned(w) => Owned(base))
  BY <1>3, <1>5, CloseBackward
<1>7. PICK f : RightRun(f, "unapply", miner, base, q) /\ v = f[0]
  BY <1>1, <1>5, RevertBlockRun
<1>8. PICK W : W = [n \in 0..N |-> {z \in Stores : Keeps(z, p[n]) /\ (Owned(w) => Owned(z))}]
  OBVIOUS
<1>9. f[N] \in W[N]
  <2>1. f[N] = base
    BY <1>2, <1>7 DEF RightRun
  <2>2. W[N] = {z \in Stores : Keeps(z, p[N]) /\ (Owned(w) => Owned(z))}
    BY <1>8
  <2>3. p[N] = x
    BY <1>2, <1>4 DEF Path
  <2> QED BY <1>6, <2>1, <2>2, <2>3
<1>10. ASSUME NEW n \in 1..N, f[n] \in W[n]
       PROVE  f[n - 1] \in W[n - 1]
  <2>1. W[n] = {z \in Stores : Keeps(z, p[n]) /\ (Owned(w) => Owned(z))}
    BY <1>8
  <2>2. W[n - 1] = {z \in Stores : Keeps(z, p[n - 1]) /\ (Owned(w) => Owned(z))}
    BY <1>8
  <2>3. PICK z \in Stores : z = f[n] /\ Keeps(z, p[n]) /\ (Owned(w) => Owned(z))
    BY <1>10, <2>1
  <2>4. PICK t \in Tx : t = q[n]
    BY <1>2
  <2>5. PICK y : y = Unapplied(t, z, miner)
    OBVIOUS
  <2>6. f[n - 1] = y
    BY <1>2, <1>7, <2>3, <2>4, <2>5 DEF RightRun, Do
  <2>7. p[n - 1] \in Book /\ p[n] \in Book /\ TxStep(p[n - 1], p[n], t, miner)
    BY <1>2, <1>4, <2>4 DEF Path, Leads
  <2>8. y \in Stores /\ Keeps(y, p[n - 1]) /\ (Owned(z) => Owned(y))
    BY <2>3, <2>5, <2>7, TxBackward
  <2> QED BY <2>2, <2>3, <2>6, <2>8
<1>11. f[0] \in W[0]
  <2>1. \A n \in 0..N : f[n] \in W[n]
    BY <1>9, <1>10, RightReaches
  <2> QED BY <2>1
<1>12. W[0] = {z \in Stores : Keeps(z, p[0]) /\ (Owned(w) => Owned(z))}
  BY <1>8
<1>13. p[0] = s
  BY <1>4 DEF Path
<1> QED BY <1>7, <1>11, <1>12, <1>13

\* A block of the chain is taken off; what comes into the cache again changes
\* nothing else.
LEMMA UnblockedBook ==
  ASSUME chain \in Seq(Block), NEW i \in DOMAIN chain, NEW w \in Stores, NEW s \in Book,
         NEW u \in Book, BlockStep(s, u, chain[i]), Keeps(w, u), NEW v, v = Unblocked(i, w)
  PROVE  v \in Stores /\ Keeps(v, s) /\ (Owned(w) => Owned(v))
<1>1. PICK block \in Block : block = chain[i]
  OBVIOUS
<1>2. v \in Stores
  <2>1. Unblocked(i, w) \in Holding(Coins(w) - Emission)
    BY StoresHold, UnblockedHolds
  <2> QED BY <2>1 DEF Holding
<1>3. PICK off : off = RevertBlock(w, block)
  OBVIOUS
<1>4. off \in Stores /\ Keeps(off, s) /\ (Owned(w) => Owned(off))
  BY <1>1, <1>3, BlockOffBook
<1>5. PICK old : old = IF i > LifetimeBlocks THEN chain[i - LifetimeBlocks].txs ELSE <<>>
  OBVIOUS
<1>6. v = [off EXCEPT !.cache = FoldLeft(AddChain, @, old)]
  BY <1>1, <1>3, <1>5 DEF Unblocked
<1>7. v.balance = off.balance /\ v.files = off.files /\ v.log = off.log /\ v.own = off.own
  BY <1>4, <1>6 DEF Stores
<1> QED BY <1>2, <1>4, <1>7 DEF Keeps, Owned

\* The books of a chain: h[i] is what its first i blocks make of the accounts, the
\* files and the log.
GenesisBook == [balance |-> Genesis, files |-> {}, log |-> <<<<"block", GenesisBlock>>>>]
ChainPath(h, c) ==
  /\ h[1] = GenesisBook
  /\ \A i \in 1..Len(c) : h[i] \in Book
  /\ \A i \in 2..Len(c) : BlockStep(h[i - 1], h[i], c[i])

\* The blocks above lcb are taken off, back to the book of the block at lcb.
LEMMA BlocksOffBook ==
  ASSUME chain \in Seq(Block), NEW h, ChainPath(h, chain),
         NEW w \in Stores, Keeps(w, h[Len(chain)]), Owned(w),
         NEW lcb \in 0..(Len(chain) - 1), NEW v, v = RevertBlocks(w, lcb)
  PROVE  v \in Stores /\ Keeps(v, h[lcb + 1]) /\ Owned(v)
<1> DEFINE q == [n \in 1..(HeadNumber - lcb) |-> n + lcb + 1]
<1>1. PICK N \in Nat : N = HeadNumber - lcb /\ Len(chain) = N + lcb + 1
  <2>1. Len(chain) \in Nat /\ HeadNumber = Len(chain) - 1
    BY DEF HeadNumber
  <2>2. HeadNumber - lcb \in Nat /\ Len(chain) = (HeadNumber - lcb) + lcb + 1
    BY <2>1
  <2> QED BY <2>2
<1>2. q \in Seq(Int) /\ Len(q) = N
  BY <1>1
<1>3. \A n \in 1..N : q[n] = n + lcb + 1 /\ q[n] \in DOMAIN chain
  BY <1>1
<1>4. v = FoldRight(Unblocked, q, w)
  BY DEF RevertBlocks, Unblocked
<1> HIDE DEF q
<1>5. PICK f : RightRun(f, "unblock", <<>>, w, q) /\ v = f[0]
  BY <1>2, <1>4, UnblockRun
<1>6. PICK W : W = [n \in 0..N |-> {z \in Stores : Keeps(z, h[n + lcb + 1]) /\ Owned(z)}]
  OBVIOUS
<1>7. f[N] \in W[N]
  <2>1. f[N] = w
    BY <1>2, <1>5 DEF RightRun
  <2>2. W[N] = {z \in Stores : Keeps(z, h[N + lcb + 1]) /\ Owned(z)}
    BY <1>6
  <2> QED BY <1>1, <2>1, <2>2
<1>8. ASSUME NEW n \in 1..N, f[n] \in W[n]
      PROVE  f[n - 1] \in W[n - 1]
  <2>1. W[n] = {z \in Stores : Keeps(z, h[n + lcb + 1]) /\ Owned(z)}
    BY <1>6
  <2>2. W[n - 1] = {z \in Stores : Keeps(z, h[(n - 1) + lcb + 1]) /\ Owned(z)}
    BY <1>6
  <2>3. PICK z \in Stores : z = f[n] /\ Keeps(z, h[n + lcb + 1]) /\ Owned(z)
    BY <1>8, <2>1
  <2>4. PICK i \in DOMAIN chain : i = q[n] /\ i = n + lcb + 1 /\ i - 1 = (n - 1) + lcb + 1 /\ i \in 2..Len(chain)
    <3>1. n + lcb + 1 \in 2..Len(chain) /\ (n + lcb + 1) - 1 = (n - 1) + lcb + 1
      BY <1>1
    <3> QED BY <1>3, <3>1
  <2>5. PICK y : y = Unblocked(i, z)
    OBVIOUS
  <2>6. f[n - 1] = y
    BY <1>2, <1>5, <2>3, <2>4, <2>5 DEF RightRun, Do
  <2>7. PICK s, u : s = h[i - 1] /\ u = h[i]
    OBVIOUS
  <2>8. s \in Book /\ u \in Book /\ BlockStep(s, u, chain[i])
    BY <2>4, <2>7 DEF ChainPath
  <2>9. y \in Stores /\ Keeps(y, s) /\ (Owned(z) => Owned(y))
    BY <2>3, <2>4, <2>5, <2>7, <2>8, UnblockedBook
  <2> QED BY <2>2, <2>3, <2>4, <2>6, <2>7, <2>9
<1>9. f[0] \in W[0]
  <2>1. \A n \in 0..N : f[n] \in W[n]
    BY <1>7, <1>8, RightReaches
  <2> QED BY <2>1
<1>10. W[0] = {z \in Stores : Keeps(z, h[lcb + 1]) /\ Owned(z)}
  <2>1. 0 \in 0..N /\ 0 + lcb + 1 = lcb + 1
    OBVIOUS
  <2> QED BY <1>6, <2>1
<1> QED BY <1>5, <1>9, <1>10

\* The first blocks of a chain.
LEMMA ChainPathPrefix ==
  ASSUME NEW c \in Seq(Block), NEW h, ChainPath(h, c), NEW n \in 1..Len(c)
  PROVE  ChainPath(h, SubSeq(c, 1, n))
<1>1. PICK N \in Nat : N = Len(c) /\ n <= N /\ n \in Nat
  OBVIOUS
<1>2. PICK d \in Seq(Block) : d = SubSeq(c, 1, n) /\ Len(d) = n /\ \A i \in 1..n : d[i] = c[i]
  <2>1. /\ SubSeq(c, 1, n) \in Seq(Block) /\ Len(SubSeq(c, 1, n)) = n
        /\ \A i \in 1..n : SubSeq(c, 1, n)[i] = c[i]
    BY <1>1, SubSeqProperties
  <2> QED BY <2>1
<1>3. \A i \in 1..n : h[i] \in Book
  BY <1>1 DEF ChainPath
<1>4. ASSUME NEW i \in 2..n
      PROVE  BlockStep(h[i - 1], h[i], d[i])
  <2>1. i \in 2..N /\ i \in 1..n
    BY <1>1
  <2> QED BY <1>1, <1>2, <2>1 DEF ChainPath
<1> QED BY <1>2, <1>3, <1>4 DEF ChainPath

\* One block more.
LEMMA ChainPathGrows ==
  ASSUME NEW c \in Seq(Block), Len(c) # 0, NEW h, ChainPath(h, c), NEW block \in Block,
         NEW u \in Book, BlockStep(h[Len(c)], u, block)
  PROVE  \E g : ChainPath(g, Append(c, block)) /\ g[Len(c)] = h[Len(c)] /\ g[Len(c) + 1] = u
<1>1. PICK N \in Nat \ {0} : N = Len(c)
  OBVIOUS
<1>2. PICK d : d = Append(c, block) /\ Len(d) = N + 1 /\ d[N + 1] = block /\ \A i \in 1..N : d[i] = c[i]
  <2>1. /\ Len(Append(c, block)) = N + 1 /\ Append(c, block)[N + 1] = block
        /\ \A i \in 1..N : Append(c, block)[i] = c[i]
    BY <1>1
  <2> QED BY <2>1
<1>3. PICK g : g = [i \in 1..(N + 1) |-> IF i = N + 1 THEN u ELSE h[i]]
  OBVIOUS
<1>4. g[N + 1] = u /\ \A i \in 1..N : g[i] = h[i]
  BY <1>3
<1>5. g[1] = GenesisBook
  BY <1>4 DEF ChainPath
<1>6. ASSUME NEW i \in 1..(N + 1)
      PROVE  g[i] \in Book
  <2>1. i = N + 1 \/ i \in 1..N
    OBVIOUS
  <2> QED BY <1>1, <1>4, <2>1 DEF ChainPath
<1>7. ASSUME NEW i \in 2..(N + 1)
      PROVE  BlockStep(g[i - 1], g[i], d[i])
  <2>1. CASE i = N + 1
    <3>1. i - 1 = N /\ N \in 1..N
      BY <2>1
    <3> QED BY <1>1, <1>2, <1>4, <2>1, <3>1
  <2>2. CASE i # N + 1
    <3>1. i \in 2..N /\ i \in 1..N /\ i - 1 \in 1..N
      BY <2>2
    <3> QED BY <1>1, <1>2, <1>4, <3>1 DEF ChainPath
  <2> QED BY <2>1, <2>2
<1>8. ChainPath(g, d)
  BY <1>2, <1>5, <1>6, <1>7 DEF ChainPath
<1>9. g[N] = h[N]
  <2>1. N \in 1..N
    OBVIOUS
  <2> QED BY <1>4, <2>1
<1> QED BY <1>1, <1>2, <1>4, <1>8, <1>9

-----------------------------------------------------------------------------
(* Blocks and pool transactions are put on: the stores go along a path      *)

LEMMA VerifiedAlone ==
  ASSUME NEW s \in Verdict, NEW t \in Tx, NEW u, u = VerifyTransaction(s, t)
  PROVE  u \in Verdict /\ EntersReceived(u, s, t)
<1>1. AddSet(s.w.cache, {}) = s.w.cache
  BY AddSetFields DEF Stores, Verdict
<1>2. Fits(s.w.cache, {})
  BY DEF Fits, KeysDisjoint, KeysOf
<1>3. PICK S \in SUBSET Tx : S = {}
  OBVIOUS
<1>4. VerifiedTxs(s, s, S)
  BY <1>1, <1>2, <1>3 DEF VerifiedTxs
<1>5. u \in Verdict
  BY <1>4, VerifiedOne
<1>6. EntersReceived(u, s, t)
  BY <1>4, VerifiedOne
<1> QED BY <1>5, <1>6

\* What verifying transactions in turn has come to, from the book b.
Came(z, r, b, miner, q) ==
  z.ok => /\ r.ok
          /\ \E u \in Book : Keeps(z.w, u) /\ Reaches("block", miner, b, u, q)

LEMMA CameFurther ==
  ASSUME NEW z \in Verdict, NEW r, NEW b \in Book, NEW q \in Seq(Tx),
         NEW miner, z.miner = miner, Came(z, r, b, miner, q),
         NEW t \in Tx, NEW y, y = VerifyTransaction(z, t)
  PROVE  y \in Verdict /\ y.miner = miner /\ Came(y, r, b, miner, Append(q, t))
<1>1. y \in Verdict /\ EntersReceived(y, z, t)
  BY VerifiedAlone
<1>2. ASSUME y.ok
      PROVE  r.ok /\ \E u \in Book : Keeps(y.w, u) /\ Reaches("block", miner, b, u, Append(q, t))
  <2>1. z.ok /\ Can(z.w, t) /\ Joins(y.w, z.w, t, z.miner)
    BY <1>1, <1>2 DEF EntersReceived
  <2>2. PICK w \in Stores, v \in Stores, m \in Address : w = z.w /\ v = y.w /\ m = z.miner
    BY <1>1 DEF Verdict
  <2>3. PICK s \in Book : Keeps(w, s) /\ Reaches("block", m, b, s, q)
    BY <2>1, <2>2 DEF Came
  <2>4. PICK u \in Book : Keeps(v, u) /\ TxStep(s, u, t, m)
    BY <2>1, <2>2, <2>3, TxForward
  <2>5. Leads("block", m, s, u, t)
    BY <2>4 DEF Leads
  <2>6. Reaches("block", m, b, u, Append(q, t))
    BY <2>3, <2>5, ReachesFurther
  <2> QED BY <2>1, <2>2, <2>4, <2>6 DEF Came
<1>3. Came(y, r, b, miner, Append(q, t))
  BY <1>2 DEF Came
<1> QED BY <1>1, <1>3 DEF EntersReceived

\* The transactions of a received block.
LEMMA VerifyingBook ==
  ASSUME NEW r \in Verdict, NEW b \in Book, r.ok => Keeps(r.w, b), NEW q \in Seq(Tx),
         NEW v, v = FoldLeft(VerifyTransaction, r, q)
  PROVE  v \in Verdict /\ v.miner = r.miner /\ Came(v, r, b, r.miner, q)
<1>1. PICK f : LeftRun(f, "verify", <<>>, r, q) /\ v = f[Len(q)]
  BY VerifyRun
<1>2. PICK N \in Nat : N = Len(q) /\ DOMAIN q = 1..N
  OBVIOUS
<1>3. PICK W : W = [n \in 0..N |-> {z \in Verdict : z.miner = r.miner /\ Came(z, r, b, r.miner, SubSeq(q, 1, n))}]
  OBVIOUS
<1>4. f[0] \in W[0]
  <2>1. f[0] = r
    BY <1>1 DEF LeftRun
  <2>2. W[0] = {z \in Verdict : z.miner = r.miner /\ Came(z, r, b, r.miner, SubSeq(q, 1, 0))}
    BY <1>3
  <2>3. SubSeq(q, 1, 0) = <<>>
    BY PrefixGrows
  <2>4. Came(r, r, b, r.miner, <<>>)
    BY ReachesItself DEF Came
  <2> QED BY <2>1, <2>2, <2>3, <2>4
<1>5. ASSUME NEW n \in 1..N, f[n - 1] \in W[n - 1]
      PROVE  f[n] \in W[n]
  <2>1. W[n] = {z \in Verdict : z.miner = r.miner /\ Came(z, r, b, r.miner, SubSeq(q, 1, n))}
    BY <1>3
  <2>2. W[n - 1] = {z \in Verdict : z.miner = r.miner /\ Came(z, r, b, r.miner, SubSeq(q, 1, n - 1))}
    BY <1>3
  <2>3. n - 1 \in 0..Len(q)
    BY <1>2
  <2>4. SubSeq(q, 1, n - 1) \in Seq(Tx) /\ SubSeq(q, 1, n) = Append(SubSeq(q, 1, n - 1), q[n])
    BY <1>2, <2>3, PrefixGrows
  <2>5. PICK d \in Seq(Tx), t \in Tx : d = SubSeq(q, 1, n - 1) /\ t = q[n]
    <3>1. q[n] \in Tx
      BY <1>2
    <3> QED BY <2>4, <3>1
  <2>6. PICK z \in Verdict : z = f[n - 1] /\ z.miner = r.miner /\ Came(z, r, b, r.miner, d)
    BY <1>5, <2>2, <2>5
  <2>7. PICK y : y = VerifyTransaction(z, t)
    OBVIOUS
  <2>8. f[n] = y
    BY <1>1, <1>2, <2>5, <2>6, <2>7 DEF LeftRun, Do
  <2>9. y \in Verdict /\ y.miner = r.miner /\ Came(y, r, b, r.miner, Append(d, t))
    <3>1. PICK m : m = r.miner
      OBVIOUS
    <3>2. z.miner = m /\ Came(z, r, b, m, d)
      BY <2>6, <3>1
    <3>3. y \in Verdict
      BY <2>7, <3>2, CameFurther
    <3>4. y.miner = m
      BY <2>7, <3>2, VerifiedAlone DEF EntersReceived
    <3>5. Came(y, r, b, m, Append(d, t))
      BY <2>7, <3>2, CameFurther
    <3> QED BY <3>1, <3>3, <3>4, <3>5
  <2> QED BY <2>1, <2>4, <2>5, <2>6, <2>8, <2>9
<1>6. f[N] \in W[N]
  <2>1. \A n \in 0..N : f[n] \in W[n]
    BY <1>4, <1>5, LeftReaches
  <2> QED BY <2>1
<1>7. W[N] = {z \in Verdict : z.miner = r.miner /\ Came(z, r, b, r.miner, SubSeq(q, 1, N))}
  BY <1>3
<1>8. SubSeq(q, 1, N) = q
  BY <1>2, PrefixGrows
<1> QED BY <1>1, <1>2, <1>6, <1>7, <1>8

\* What verifying a block has come to, from the book b.
PutOn(s, r, b, block) ==
  s.ok => r.ok /\ \E u \in Book : Keeps(s.w, u) /\ BlockStep(b, u, block)

LEMMA VerifyBlockBook ==
  ASSUME NEW r \in Verdict, NEW block \in Block, NEW b \in Book, r.ok => Keeps(r.w, b),
         NEW s, s = VerifyBlock(r, block)
  PROVE  s \in Verdict /\ PutOn(s, r, b, block)
<1>1. s \in Verdict
  BY VerifyBlockKeys
<1>2. CASE ~ r.ok \/ r.w.balance[block.miner] < Threshold
  <2>1. s = [r EXCEPT !.ok = FALSE]
    BY <1>2 DEF VerifyBlock
  <2>2. ~ s.ok
    BY <2>1 DEF Verdict
  <2> QED BY <1>1, <2>2 DEF PutOn
<1>3. CASE ~ (~ r.ok \/ r.w.balance[block.miner] < Threshold)
  <2>1. PICK m \in Address, q \in Seq(Tx) : m = block.miner /\ q = block.txs
    BY DEF Block
  <2>2. PICK z : z = [r EXCEPT !.miner = m]
    OBVIOUS
  <2>3. z \in Verdict /\ z.w = r.w /\ z.ok = r.ok /\ z.miner = m
    BY <2>2 DEF Verdict
  <2>4. PICK v : v = FoldLeft(VerifyTransaction, z, q)
    OBVIOUS
  <2>5. v \in Verdict /\ Came(v, z, b, m, q)
    <3>1. z.ok => Keeps(z.w, b)
      BY <2>3
    <3>2. v \in Verdict /\ v.miner = z.miner /\ Came(v, z, b, z.miner, q)
      BY <2>3, <2>4, <3>1, VerifyingBook
    <3> QED BY <2>3, <3>2
  <2>6. s = [v EXCEPT !.w = CloseBlock(@, block)]
    BY <1>3, <2>1, <2>2, <2>4 DEF VerifyBlock
  <2>7. PICK x \in Stores : x = v.w
    BY <2>5 DEF Verdict
  <2>8. PICK y : y = CloseBlock(x, block)
    OBVIOUS
  <2>9. s.w = y /\ s.ok = v.ok
    BY <2>5, <2>6, <2>7, <2>8 DEF Verdict
  <2>10. b.balance[m] >= Threshold
    <3>1. r.w.balance[m] = b.balance[m] /\ b.balance[m] \in Nat /\ Threshold \in Nat
      BY <1>3, <2>1, BookFields, LedgerAssumption DEF Keeps
    <3> QED BY <1>3, <2>1, <3>1
  <2>11. ASSUME v.ok
         PROVE  \E u \in Book : Keeps(y, u) /\ BlockStep(b, u, block)
    <3>1. PICK e \in Book : Keeps(x, e) /\ Reaches("block", m, b, e, q)
      BY <2>5, <2>7, <2>11 DEF Came
    <3>2. PICK u \in Book : Keeps(y, u) /\ Closes(e, u, block)
      BY <2>8, <3>1, CloseForward
    <3>3. BlockStep(b, u, block)
      BY <2>1, <2>10, <3>1, <3>2 DEF BlockStep
    <3> QED BY <3>2, <3>3
  <2> QED BY <1>1, <1>3, <2>9, <2>11 DEF PutOn
<1> QED BY <1>2, <1>3

LEMMA ConcatGrows ==
  ASSUME NEW A, NEW c \in Seq(A), NEW d \in Seq(A), NEW x \in A
  PROVE  c \o Append(d, x) = Append(c \o d, x)
<1>1. c \o d \in Seq(A) /\ Append(d, x) \in Seq(A) /\ Append(c \o d, x) \in Seq(A) /\ c \o Append(d, x) \in Seq(A)
  OBVIOUS
<1>2. PICK m \in Nat, n \in Nat : m = Len(c) /\ n = Len(d)
  OBVIOUS
<1>3. Len(c \o Append(d, x)) = m + n + 1 /\ Len(Append(c \o d, x)) = m + n + 1
  BY <1>2
<1>4. ASSUME NEW i \in 1..(m + n + 1)
      PROVE  (c \o Append(d, x))[i] = Append(c \o d, x)[i]
  BY <1>2
<1> QED BY <1>1, <1>3, <1>4, SeqEqual

\* Stores that hold what a chain makes of them.
OnChain(z, c) == z.ok => \E g : ChainPath(g, c) /\ Keeps(z.w, g[Len(c)])

LEMMA OneBlockOn ==
  ASSUME NEW c \in Seq(Block), Len(c) # 0, NEW z \in Verdict, OnChain(z, c),
         NEW block \in Block, NEW y, y = VerifyBlock(z, block)
  PROVE  y \in Verdict /\ OnChain(y, Append(c, block))
<1>1. y \in Verdict
  BY VerifyBlockKeys
<1>2. ASSUME y.ok
      PROVE  \E g : ChainPath(g, Append(c, block)) /\ Keeps(y.w, g[Len(Append(c, block))])
  <2>1. z.ok
    <3>1. CASE ~ z.ok
      <4>1. y = [z EXCEPT !.ok = FALSE]
        BY <3>1 DEF VerifyBlock
      <4> QED BY <1>2, <4>1 DEF Verdict
    <3> QED BY <3>1
  <2>2. PICK h : ChainPath(h, c) /\ Keeps(z.w, h[Len(c)])
    BY <2>1 DEF OnChain
  <2>3. PICK b \in Book : b = h[Len(c)]
    <3>1. Len(c) \in 1..Len(c)
      OBVIOUS
    <3> QED BY <2>2, <3>1 DEF ChainPath
  <2>4. PutOn(y, z, b, block)
    BY <2>2, <2>3, VerifyBlockBook
  <2>5. PICK u \in Book : Keeps(y.w, u) /\ BlockStep(b, u, block)
    BY <1>2, <2>4 DEF PutOn
  <2>6. PICK g : ChainPath(g, Append(c, block)) /\ g[Len(c)] = h[Len(c)] /\ g[Len(c) + 1] = u
    BY <2>2, <2>3, <2>5, ChainPathGrows
  <2>7. Len(Append(c, block)) = Len(c) + 1
    OBVIOUS
  <2> QED BY <2>5, <2>6, <2>7
<1>3. OnChain(y, Append(c, block))
  BY <1>2 DEF OnChain
<1> QED BY <1>1, <1>3

\* The blocks of a peer are put on.
LEMMA VerifyingBlocksBook ==
  ASSUME NEW c \in Seq(Block), Len(c) # 0, NEW r \in Verdict, OnChain(r, c),
         NEW q \in Seq(Block), NEW s, s = FoldLeft(VerifyBlock, r, q)
  PROVE  s \in Verdict /\ OnChain(s, c \o q)
<1>1. PICK f : LeftRun(f, "block", <<>>, r, q) /\ s = f[Len(q)]
  BY BlockRun
<1>2. PICK N \in Nat : N = Len(q) /\ DOMAIN q = 1..N
  OBVIOUS
<1>3. PICK W : W = [n \in 0..N |-> {z \in Verdict : OnChain(z, c \o SubSeq(q, 1, n))}]
  OBVIOUS
<1>4. f[0] \in W[0]
  <2>1. f[0] = r
    BY <1>1 DEF LeftRun
  <2>2. W[0] = {z \in Verdict : OnChain(z, c \o SubSeq(q, 1, 0))}
    BY <1>3
  <2>3. SubSeq(q, 1, 0) = <<>>
    BY PrefixGrows
  <2>4. c \o <<>> = c
    OBVIOUS
  <2> QED BY <2>1, <2>2, <2>3, <2>4
<1>5. ASSUME NEW n \in 1..N, f[n - 1] \in W[n - 1]
      PROVE  f[n] \in W[n]
  <2>1. W[n] = {z \in Verdict : OnChain(z, c \o SubSeq(q, 1, n))}
    BY <1>3
  <2>2. W[n - 1] = {z \in Verdict : OnChain(z, c \o SubSeq(q, 1, n - 1))}
    BY <1>3
  <2>3. n - 1 \in 0..Len(q) /\ q[n] \in Block
    BY <1>2
  <2>4. SubSeq(q, 1, n - 1) \in Seq(Block) /\ SubSeq(q, 1, n) = Append(SubSeq(q, 1, n - 1), q[n])
    BY <1>2, <2>3, PrefixGrows
  <2>5. PICK d \in Seq(Block), x \in Block : d = SubSeq(q, 1, n - 1) /\ x = q[n]
    BY <2>3, <2>4
  <2>6. PICK e \in Seq(Block) : e = c \o d /\ Len(e) # 0
    <3>1. c \o d \in Seq(Block) /\ Len(c \o d) = Len(c) + Len(d)
      BY ConcatProperties
    <3>2. Len(c) \in Nat \ {0} /\ Len(d) \in Nat
      OBVIOUS
    <3>3. Len(c) + Len(d) # 0
      BY <3>2
    <3>4. c \o d \in Seq(Block) /\ Len(c \o d) # 0
      BY <3>1, <3>3
    <3> QED BY <3>4
  <2>7. c \o SubSeq(q, 1, n) = Append(e, x)
    BY <2>4, <2>5, <2>6, ConcatGrows
  <2>8. PICK z \in Verdict : z = f[n - 1] /\ OnChain(z, e)
    BY <1>5, <2>2, <2>5, <2>6
  <2>9. PICK y : y = VerifyBlock(z, x)
    OBVIOUS
  <2>10. f[n] = y
    BY <1>1, <1>2, <2>5, <2>8, <2>9 DEF LeftRun, Do
  <2>11. y \in Verdict /\ OnChain(y, Append(e, x))
    BY <2>6, <2>8, <2>9, OneBlockOn
  <2> QED BY <2>1, <2>7, <2>10, <2>11
<1>6. f[N] \in W[N]
  <2>1. \A n \in 0..N : f[n] \in W[n]
    BY <1>4, <1>5, LeftReaches
  <2> QED BY <2>1
<1>7. W[N] = {z \in Verdict : OnChain(z, c \o SubSeq(q, 1, N))}
  BY <1>3
<1>8. SubSeq(q, 1, N) = q
  BY <1>2, PrefixGrows
<1> QED BY <1>1, <1>2, <1>6, <1>7, <1>8

\* What trying transactions in turn has come to, from the book b.
Mining(r, b) == \E u \in Book : Keeps(r.w, u) /\ Reaches("block", Own, b, u, r.txs)

LEMMA TryingFurther ==
  ASSUME NEW r \in [w : Stores, txs : Seq(Tx), failed : SUBSET Tx], NEW b \in Book, Mining(r, b),
         NEW t \in Tx, NEW s, s = TryTransaction(r, t)
  PROVE  s \in [w : Stores, txs : Seq(Tx), failed : SUBSET Tx] /\ Mining(s, b)
<1>1. r.w \in Stores /\ r.txs \in Seq(Tx)
  OBVIOUS
<1>2. CASE CanAddChain(r.w.cache, t) /\ Applies(r.w, t)
  <2>1. PICK x \in Stores, q \in Seq(Tx) : x = r.w /\ q = r.txs
    BY <1>1
  <2>2. PICK v : v = [ChainApply(x, t, Own) EXCEPT !.cache = AddChain(@, t)]
    OBVIOUS
  <2>3. v \in Stores /\ Joins(v, x, t, Own)
    BY <2>2, JoinsFields, LedgerAssumption
  <2>4. s = [r EXCEPT !.w = v, !.txs = Append(q, t)]
    BY <1>2, <2>1, <2>2 DEF TryTransaction
  <2>5. s.w = v /\ s.txs = Append(q, t)
    BY <2>4
  <2>6. s \in [w : Stores, txs : Seq(Tx), failed : SUBSET Tx]
    <3>1. Append(q, t) \in Seq(Tx)
      OBVIOUS
    <3> QED BY <2>3, <2>4, <3>1
  <2>7. Can(x, t)
    BY <1>2, <2>1, AppliesIsCan
  <2>8. PICK z \in Book : Keeps(x, z) /\ Reaches("block", Own, b, z, q)
    BY <2>1 DEF Mining
  <2>9. Own \in Address
    BY LedgerAssumption
  <2>10. PICK u \in Book : Keeps(v, u) /\ TxStep(z, u, t, Own)
    BY <2>3, <2>7, <2>8, <2>9, TxForward
  <2>11. Leads("block", Own, z, u, t)
    BY <2>10 DEF Leads
  <2>12. Reaches("block", Own, b, u, Append(q, t))
    BY <2>8, <2>11, ReachesFurther
  <2> QED BY <2>5, <2>6, <2>10, <2>12 DEF Mining
<1>3. CASE ~ (CanAddChain(r.w.cache, t) /\ Applies(r.w, t))
  <2>1. s = [r EXCEPT !.failed = @ \union {t}]
    BY <1>3 DEF TryTransaction
  <2>2. s.w = r.w /\ s.txs = r.txs
    BY <2>1
  <2>3. s \in [w : Stores, txs : Seq(Tx), failed : SUBSET Tx]
    BY <2>1
  <2> QED BY <2>2, <2>3 DEF Mining
<1> QED BY <1>2, <1>3

\* The transactions of the own block.
LEMMA TryingBook ==
  ASSUME NEW w \in Stores, NEW b \in Book, Keeps(w, b), NEW q \in Seq(Tx),
         NEW r, r = FoldLeft(TryTransaction, [w |-> w, txs |-> <<>>, failed |-> {}], q)
  PROVE  Mining(r, b)
<1> DEFINE Trials == [w : Stores, txs : Seq(Tx), failed : SUBSET Tx]
<1>1. PICK z : z = [w |-> w, txs |-> <<>>, failed |-> {}]
  OBVIOUS
<1>2. PICK f : LeftRun(f, "try", <<>>, z, q) /\ r = f[Len(q)]
  BY <1>1, TryRun
<1>3. PICK N \in Nat : N = Len(q) /\ DOMAIN q = 1..N
  OBVIOUS
<1>4. PICK W : W = [n \in 0..N |-> {s \in Trials : Mining(s, b)}]
  OBVIOUS
<1>5. f[0] \in W[0]
  <2>1. f[0] = z
    BY <1>2 DEF LeftRun
  <2>2. z \in Trials /\ z.w = w /\ z.txs = <<>>
    BY <1>1
  <2>3. Mining(z, b)
    BY <2>2, ReachesItself DEF Mining
  <2>4. W[0] = {s \in Trials : Mining(s, b)}
    BY <1>4
  <2> QED BY <2>1, <2>2, <2>3, <2>4
<1>6. ASSUME NEW n \in 1..N, f[n - 1] \in W[n - 1]
      PROVE  f[n] \in W[n]
  <2>1. W[n] = {s \in Trials : Mining(s, b)} /\ W[n - 1] = {s \in Trials : Mining(s, b)}
    BY <1>4
  <2>2. PICK s \in Trials : s = f[n - 1] /\ Mining(s, b)
    BY <1>6, <2>1
  <2>3. PICK t \in Tx : t = q[n]
    BY <1>3
  <2>4. PICK y : y = TryTransaction(s, t)
    OBVIOUS
  <2>5. f[n] = y
    BY <1>2, <1>3, <2>2, <2>3, <2>4 DEF LeftRun, Do
  <2>6. y \in Trials /\ Mining(y, b)
    BY <2>2, <2>4, TryingFurther
  <2> HIDE DEF Trials
  <2> QED BY <2>1, <2>5, <2>6
<1>7. f[N] \in W[N]
  <2>1. \A n \in 0..N : f[n] \in W[n]
    BY <1>5, <1>6, LeftReaches
  <2> QED BY <2>1
<1>8. W[N] = {s \in Trials : Mining(s, b)}
  BY <1>4
<1> HIDE DEF Trials
<1> QED BY <1>2, <1>3, <1>7, <1>8

\* The pool on top of the book of the chain.
OnPool(w, s) == \E u \in Book : Keeps(w, u) /\ Reaches("pool", <<>>, s, u, w.pool)

LEMMA OnPoolStarts ==
  ASSUME NEW w, NEW s \in Book, Keeps(w, s), w.pool = <<>>
  PROVE  OnPool(w, s)
BY ReachesItself DEF OnPool

LEMMA PutBackOnPool ==
  ASSUME NEW w \in Stores, NEW s \in Book, OnPool(w, s), NEW t \in Tx, NEW v, v = PutBack(w, t)
  PROVE  OnPool(v, s)
<1>1. v \in Stores /\ (Waits(v, w, t) \/ v = w)
  BY PutBackFields
<1>2. CASE v = w
  BY <1>2
<1>3. CASE Waits(v, w, t)
  <2>1. PICK q \in Seq(Tx) : q = w.pool
    BY StoresFields
  <2>2. PICK z \in Book : Keeps(w, z) /\ Reaches("pool", <<>>, s, z, q)
    BY <2>1 DEF OnPool
  <2>3. PICK u \in Book : Keeps(v, u) /\ PoolStep(z, u, t)
    BY <1>1, <1>3, <2>2, PoolForward
  <2>4. Leads("pool", <<>>, z, u, t)
    BY <2>3 DEF Leads
  <2>5. Reaches("pool", <<>>, s, u, Append(q, t))
    BY <2>2, <2>4, ReachesFurther
  <2>6. v.pool = Append(q, t)
    BY <1>3, <2>1 DEF Waits
  <2> QED BY <2>3, <2>5, <2>6 DEF OnPool
<1> QED BY <1>1, <1>2, <1>3

-----------------------------------------------------------------------------
(* The flags of the cache                                                   *)

\* A complete transaction is never held for one that waits.
Told(e) == \A k \in DOMAIN e : k \in Complete => e[k] = TRUE
Tells(w) == Flags(w) /\ Told(w.cache)

LEMMA ToldKept ==
  ASSUME NEW e \in Cache, Told(e), NEW t \in Tx, NEW K, NEW S \in SUBSET Tx
  PROVE  /\ Told(EraseKeys(e, K))
         /\ Told(AddPool(e, t, t \in Complete))
         /\ Told(AddSet(e, S))
<1>1. Told(EraseKeys(e, K))
  BY DEF Told, EraseKeys
<1>2. Told(AddPool(e, t, t \in Complete))
  <2>1. PICK f : f = AddPool(e, t, t \in Complete)
    OBVIOUS
  <2>2. DOMAIN f = DOMAIN e \union {t} /\ \A k \in DOMAIN f : k \in DOMAIN e => f[k] = e[k]
    BY <2>1 DEF AddPool
  <2>3. t \notin DOMAIN e => f[t] = (t \in Complete)
    BY <2>1 DEF AddPool
  <2>4. ASSUME NEW k \in DOMAIN f, k \in Complete
        PROVE  f[k] = TRUE
    <3>1. CASE k \in DOMAIN e
      BY <2>2, <2>4, <3>1 DEF Told
    <3>2. CASE k \notin DOMAIN e
      <4>1. k = t
        BY <2>2, <3>2
      <4>2. f[k] = (k \in Complete)
        BY <2>3, <3>2, <4>1
      <4> QED BY <2>4, <4>2
    <3> QED BY <3>1, <3>2
  <2> QED BY <2>1, <2>4 DEF Told
<1>3. Told(AddSet(e, S))
  BY DEF Told, AddSet
<1> QED BY <1>1, <1>2, <1>3

LEMMA FlagAdded ==
  ASSUME NEW e \in Cache, NEW t \in Tx, Told(e), t \notin Complete => t \notin DOMAIN e
  PROVE  /\ FlagTold(AddPool(e, t, t \in Complete), t)
         /\ \A k : FlagTold(e, k) => FlagTold(AddPool(e, t, t \in Complete), k)
<1>1. PICK f : f = AddPool(e, t, t \in Complete)
  OBVIOUS
<1>2. DOMAIN f = DOMAIN e \union {t} /\ \A k \in DOMAIN f : k \in DOMAIN e => f[k] = e[k]
  BY <1>1 DEF AddPool
<1>3. t \notin DOMAIN e => f[t] = (t \in Complete)
  BY <1>1 DEF AddPool
<1>4. FlagTold(f, t)
  <2>1. CASE t \notin DOMAIN e
    BY <1>2, <1>3, <2>1 DEF FlagTold
  <2>2. CASE t \in DOMAIN e
    <3>1. t \in Complete
      BY <2>2
    <3>2. e[t] = TRUE
      BY <2>2, <3>1 DEF Told
    <3>3. f[t] = TRUE
      BY <1>2, <2>2, <3>2
    <3> QED BY <1>2, <3>1, <3>3 DEF FlagTold
  <2> QED BY <2>1, <2>2
<1>5. ASSUME NEW k, FlagTold(e, k)
      PROVE  FlagTold(f, k)
  BY <1>2, <1>5 DEF FlagTold
<1> QED BY <1>1, <1>4, <1>5

\* A transaction that is put back is told of, unless it has a key in the cache and
\* can be held for one that waits.
LEMMA PutBackTells ==
  ASSUME NEW w \in Stores, Tells(w), NEW t \in Tx, t \notin ToSet(w.pool),
         t \notin Complete /\ t \in DOMAIN w.cache => w.files \intersect NewFiles(t) # {},
         NEW v, v = PutBack(w, t)
  PROVE  v \in Stores /\ Tells(v) /\ v.own = w.own
<1>1. v \in Stores /\ v.own = w.own /\ (Waits(v, w, t) \/ v = w)
  BY PutBackFields
<1>2. CASE v = w
  BY <1>1, <1>2
<1>3. CASE Waits(v, w, t)
  <2>1. PICK q \in Seq(Tx), e \in Cache : q = w.pool /\ e = w.cache
    BY StoresFields
  <2>2. PICK f : f = AddPool(e, t, t \in Complete)
    OBVIOUS
  <2>3. v.pool = Append(q, t) /\ v.cache = f /\ w.files \intersect NewFiles(t) = {}
    BY <1>3, <2>1, <2>2 DEF Waits
  <2>4. Distinct(q) /\ (\A i \in DOMAIN q : FlagTold(e, q[i])) /\ Told(e)
    BY <2>1 DEF Tells, Flags
  <2>5. t \notin Complete => t \notin DOMAIN e
    BY <2>1, <2>3
  <2>6. FlagTold(f, t)
    BY <2>2, <2>4, <2>5, FlagAdded
  <2>7. \A k : FlagTold(e, k) => FlagTold(f, k)
    BY <2>2, <2>4, <2>5, FlagAdded
  <2>8. Distinct(Append(q, t))
    BY <2>1, <2>4, DistinctAppend
  <2>0. PICK N \in Nat : N = Len(q)
    OBVIOUS
  <2>9. PICK d : /\ d = Append(q, t) /\ DOMAIN d = 1..(N + 1) /\ d[N + 1] = t
                 /\ \A i \in 1..N : d[i] = q[i] /\ i \in DOMAIN q
    <3>1. /\ DOMAIN Append(q, t) = 1..(N + 1) /\ Append(q, t)[N + 1] = t
          /\ \A i \in 1..N : Append(q, t)[i] = q[i] /\ i \in DOMAIN q
      BY <2>0
    <3> QED BY <3>1
  <2>10. ASSUME NEW i \in DOMAIN d
         PROVE  FlagTold(f, d[i])
    <3>1. CASE i = N + 1
      BY <2>6, <2>9, <3>1
    <3>2. CASE i # N + 1
      <4>1. i \in 1..N
        BY <2>9, <3>2
      <4> QED BY <2>4, <2>7, <2>9, <4>1
    <3> QED BY <3>1, <3>2
  <2>11. Told(f)
    BY <2>2, <2>4, ToldKept
  <2>12. Flags(v)
    BY <2>3, <2>8, <2>9, <2>10 DEF Flags
  <2> QED BY <1>1, <2>3, <2>11, <2>12 DEF Tells
<1> QED BY <1>1, <1>2, <1>3

\* What is in a pool that is told of is in the cache.
LEMMA TellsCached ==
  ASSUME NEW w \in Stores, Tells(w)
  PROVE  ToSet(w.pool) \subseteq DOMAIN w.cache
BY DEF Tells, Flags, FlagTold, ToSet

\* Transactions return to the pool.
LEMMA ReturningBook ==
  ASSUME NEW w \in Stores, NEW s \in Book, OnPool(w, s), Tells(w), NEW q \in Seq(Tx),
         NEW v, v = FoldLeft(Return, w, q)
  PROVE  v \in Stores /\ OnPool(v, s) /\ Tells(v) /\ v.own = w.own
<1>1. PICK f : LeftRun(f, "return", <<>>, w, q) /\ v = f[Len(q)]
  BY ReturnRun
<1>2. PICK N \in Nat : N = Len(q) /\ DOMAIN q = 1..N
  OBVIOUS
<1>3. PICK W : W = [n \in 0..N |-> {z \in Stores : OnPool(z, s) /\ Tells(z) /\ z.own = w.own}]
  OBVIOUS
<1>4. \A n \in 0..N : W[n] = {z \in Stores : OnPool(z, s) /\ Tells(z) /\ z.own = w.own}
  BY <1>3
<1>5. f[0] \in W[0]
  <2>1. f[0] = w
    BY <1>1 DEF LeftRun
  <2>2. 0 \in 0..N
    OBVIOUS
  <2> QED BY <1>4, <2>1, <2>2
<1>6. ASSUME NEW n \in 1..N, f[n - 1] \in W[n - 1]
      PROVE  f[n] \in W[n]
  <2>1. n - 1 \in 0..N /\ n \in 0..N
    OBVIOUS
  <2>2. PICK z \in Stores : z = f[n - 1] /\ OnPool(z, s) /\ Tells(z) /\ z.own = w.own
    BY <1>4, <1>6, <2>1
  <2>3. PICK t \in Tx : t = q[n]
    BY <1>2
  <2>4. f[n] = Return(z, t)
    BY <1>1, <1>2, <2>2, <2>3 DEF LeftRun, Do
  <2>5. CASE now - NodesTimeShift <= Expiry[t] /\ t \notin DOMAIN z.cache
    <3>1. PICK y : y = PutBack(z, t)
      OBVIOUS
    <3>2. f[n] = y
      BY <2>4, <2>5, <3>1 DEF Return
    <3>3. OnPool(y, s)
      BY <2>2, <3>1, PutBackOnPool
    <3>4. t \notin ToSet(z.pool)
      BY <2>2, <2>5, TellsCached
    <3>5. y \in Stores /\ Tells(y) /\ y.own = z.own
      BY <2>2, <2>5, <3>1, <3>4, PutBackTells
    <3> QED BY <1>4, <2>1, <2>2, <3>2, <3>3, <3>5
  <2>6. CASE ~ (now - NodesTimeShift <= Expiry[t] /\ t \notin DOMAIN z.cache)
    <3>1. f[n] = z
      BY <2>4, <2>6 DEF Return
    <3> QED BY <1>4, <2>1, <2>2, <3>1
  <2> QED BY <2>5, <2>6
<1>7. f[N] \in W[N]
  <2>1. \A n \in 0..N : f[n] \in W[n]
    BY <1>5, <1>6, LeftReaches
  <2> QED BY <2>1
<1>8. N \in 0..N
  OBVIOUS
<1> QED BY <1>1, <1>2, <1>4, <1>7, <1>8

\* An incomplete transaction that has a key in the cache has its file there too.
Telling(w, S) ==
  \A t \in S : t \notin Complete /\ t \in DOMAIN w.cache => w.files \intersect NewFiles(t) # {}

LEMMA PutBackTellsMore ==
  ASSUME NEW w \in Stores, w.pool = <<>>, NEW S, Telling(w, S), NEW t \in Tx, t \in S,
         NEW B \in SUBSET Tx, t \notin B, NEW z \in Stores, Tells(z), Grown(z, w, B),
         NEW y, y = PutBack(z, t)
  PROVE  /\ y \in Stores /\ Tells(y) /\ y.own = z.own
         /\ Grown(y, w, B) \/ Grown(y, w, B \union {t})
<1>1. ToSet(z.pool) = B /\ DOMAIN z.cache = DOMAIN w.cache \union B /\ w.files \subseteq z.files
  <2>1. ToSet(<<>>) = {}
    BY DEF ToSet
  <2> QED BY <2>1 DEF Grown
<1>2. t \notin Complete /\ t \in DOMAIN z.cache => z.files \intersect NewFiles(t) # {}
  BY <1>1 DEF Telling
<1>3. y \in Stores /\ Tells(y) /\ y.own = z.own
  BY <1>1, <1>2, PutBackTells
<1>4. Grown(y, z, {}) \/ Grown(y, z, {t})
  BY PutBackGrows
<1>5. Grown(y, w, B \union {}) \/ Grown(y, w, B \union {t})
  BY <1>4, GrownTwice
<1>6. B \union {} = B
  OBVIOUS
<1> QED BY <1>3, <1>5, <1>6

\* Transactions are put back after a block was mined.
LEMMA PuttingBackBook ==
  ASSUME NEW w \in Stores, w.pool = <<>>, NEW s \in Book, OnPool(w, s), Tells(w),
         NEW q \in Seq(Tx), Distinct(q), Telling(w, ToSet(q)),
         NEW v, v = FoldLeft(PutBack, w, q)
  PROVE  v \in Stores /\ OnPool(v, s) /\ Tells(v) /\ v.own = w.own
<1> DEFINE Below(n) == {q[m] : m \in 1..n}
           Good(z, n) == /\ OnPool(z, s) /\ Tells(z) /\ z.own = w.own
                         /\ \E B \in SUBSET Below(n) : Grown(z, w, B)
<1>1. PICK f : LeftRun(f, "put", <<>>, w, q) /\ v = f[Len(q)]
  BY PutRun
<1>2. PICK N \in Nat : N = Len(q) /\ DOMAIN q = 1..N
  OBVIOUS
<1>3. PICK W : W = [n \in 0..N |-> {z \in Stores : Good(z, n)}]
  OBVIOUS
<1>4. \A n \in 0..N : W[n] = {z \in Stores : Good(z, n)}
  <2> HIDE DEF Good
  <2> QED BY <1>3
<1>5. f[0] \in W[0]
  <2>1. f[0] = w
    BY <1>1 DEF LeftRun
  <2>2. Grown(w, w, {})
    BY DEF Grown
  <2>3. Good(w, 0)
    BY <2>2
  <2>4. 0 \in 0..N
    OBVIOUS
  <2> HIDE DEF Good
  <2> QED BY <1>4, <2>1, <2>3, <2>4
<1>6. ASSUME NEW n \in 1..N, f[n - 1] \in W[n - 1]
      PROVE  f[n] \in W[n]
  <2>1. n - 1 \in 0..N /\ n \in 0..N
    OBVIOUS
  <2>2. PICK z \in Stores : z = f[n - 1] /\ Good(z, n - 1)
    <3> HIDE DEF Good
    <3> QED BY <1>4, <1>6, <2>1
  <2>3. PICK B \in SUBSET Below(n - 1) : Grown(z, w, B)
    BY <2>2
  <2>4. PICK t \in Tx : t = q[n]
    BY <1>2
  <2>5. Below(n) = Below(n - 1) \union {t}
    BY <2>4
  <2>6. B \in SUBSET Tx /\ t \notin B /\ t \in ToSet(q)
    <3>1. Below(n - 1) \subseteq Tx
      BY <1>2
    <3>2. t \notin Below(n - 1)
      BY <1>2, <2>4 DEF Distinct
    <3>3. t \in ToSet(q)
      BY <1>2, <2>4 DEF ToSet
    <3> HIDE DEF Below
    <3> QED BY <3>1, <3>2, <3>3
  <2>7. PICK y : y = PutBack(z, t)
    OBVIOUS
  <2>8. f[n] = y
    BY <1>1, <1>2, <2>2, <2>4, <2>7 DEF LeftRun, Do
  <2>9. OnPool(y, s)
    BY <2>2, <2>7, PutBackOnPool
  <2>10. PICK S : S = ToSet(q)
    OBVIOUS
  <2>11. Telling(w, S) /\ t \in S
    BY <2>6, <2>10
  <2>12. Tells(z)
    BY <2>2
  <2>13. y \in Stores /\ Tells(y) /\ y.own = z.own
    <3> HIDE DEF Below, Good
    <3>1. PICK C \in SUBSET Tx : C = B
      BY <2>6
    <3>2. t \notin C /\ Grown(z, w, C)
      BY <2>3, <2>6, <3>1
    <3>3. Tells(y)
      BY <2>7, <2>11, <2>12, <3>2, PutBackTellsMore
    <3>4. y \in Stores /\ y.own = z.own
      BY <2>7, PutBackFields
    <3> QED BY <3>3, <3>4
  <2>14. Grown(y, w, B) \/ Grown(y, w, B \union {t})
    <3> HIDE DEF Below, Good
    <3> QED BY <2>3, <2>6, <2>7, <2>11, <2>12, PutBackTellsMore
  <2>15. \E C \in SUBSET Below(n) : Grown(y, w, C)
    <3> HIDE DEF Below, Good
    <3> QED BY <2>5, <2>14
  <2>16. Good(y, n)
    BY <2>2, <2>9, <2>13, <2>15
  <2> HIDE DEF Good
  <2> QED BY <1>4, <2>1, <2>8, <2>13, <2>16
<1>7. f[N] \in W[N]
  <2>1. \A n \in 0..N : f[n] \in W[n]
    BY <1>5, <1>6, LeftReaches
  <2> QED BY <2>1
<1>8. PICK z \in Stores : z = f[N] /\ Good(z, N)
  <2>1. N \in 0..N
    OBVIOUS
  <2> HIDE DEF Good
  <2> QED BY <1>4, <1>7, <2>1
<1> QED BY <1>1, <1>2, <1>8

-----------------------------------------------------------------------------
(* The stores hold what the chain and the pool make of them                 *)

\* The stores w hold the books h of the chain c, and the pool on top of them; the
\* node's own account leaves the pool out.
Books(h, c, w) ==
  /\ ChainPath(h, c)
  /\ OnPool(w, h[Len(c)])
  /\ w.own = h[Len(c)].balance[Own]

BooksInv == Tells(stores) /\ \E h : Books(h, chain, stores)

\* A change of the cache alone.
LEMMA CacheAlone ==
  ASSUME NEW w \in Stores, NEW e \in Cache, NEW v, v = [w EXCEPT !.cache = e]
  PROVE  /\ v \in Stores /\ v.cache = e /\ v.pool = w.pool /\ v.own = w.own
         /\ \A s : Keeps(w, s) => Keeps(v, s)
         /\ \A s : OnPool(w, s) => OnPool(v, s)
         /\ \A h, c : Books(h, c, w) => Books(h, c, v)
<1>1. /\ v \in Stores /\ v.cache = e /\ v.pool = w.pool /\ v.own = w.own
      /\ v.balance = w.balance /\ v.files = w.files /\ v.log = w.log
  BY DEF Stores
<1>2. \A s : Keeps(w, s) => Keeps(v, s)
  BY <1>1 DEF Keeps
<1>3. \A s : OnPool(w, s) => OnPool(v, s)
  BY <1>1, <1>2 DEF OnPool
<1>4. \A h, c : Books(h, c, w) => Books(h, c, v)
  BY <1>1, <1>3 DEF Books
<1> QED BY <1>1, <1>2, <1>3, <1>4

LEMMA GenesisBookType == GenesisBook \in Book
<1>1. GenesisBlock \in Block
  BY LedgerAssumption DEF GenesisBlock, Block
<1>2. <<"block", GenesisBlock>> \in Entry
  BY <1>1 DEF Entry
<1>3. Genesis \in [Address -> Nat]
  BY LedgerAssumption
<1>4. <<<<"block", GenesisBlock>>>> \in Seq(Entry)
  BY <1>2
<1>5. {} \in SUBSET Uri
  OBVIOUS
<1> HIDE DEF GenesisBlock, Entry
<1> QED BY <1>3, <1>4, <1>5 DEF GenesisBook, Book

LEMMA BooksStart ==
  ASSUME Init
  PROVE  BooksInv
<1>1. /\ stores.balance = Genesis /\ stores.own = Genesis[Own] /\ stores.files = {}
      /\ stores.pool = <<>> /\ stores.cache = <<>> /\ stores.log = <<<<"block", GenesisBlock>>>>
      /\ chain = <<GenesisBlock>>
  BY DEF Init
<1>2. PICK h : h = [i \in {1} |-> GenesisBook]
  OBVIOUS
<1>3. h[1] = GenesisBook /\ Len(chain) = 1
  BY <1>1, <1>2
<1>4. ChainPath(h, chain)
  BY <1>3, GenesisBookType DEF ChainPath
<1>5. Keeps(stores, GenesisBook)
  BY <1>1 DEF Keeps, GenesisBook
<1>6. OnPool(stores, GenesisBook)
  BY <1>1, <1>5, GenesisBookType, OnPoolStarts
<1>7. stores.own = GenesisBook.balance[Own]
  BY <1>1 DEF GenesisBook
<1>8. Books(h, chain, stores)
  BY <1>3, <1>4, <1>6, <1>7 DEF Books
<1>9. Tells(stores)
  BY <1>1 DEF Tells, Flags, Told, Distinct
<1> QED BY <1>8, <1>9 DEF BooksInv

\* A transaction comes in.
LEMMA ReceiveBooks ==
  ASSUME FlowInv, BooksInv, NEW t \in Tx, Receive(t)
  PROVE  BooksInv'
<1>1. PICK w \in Stores : w = stores
  BY FlowFacts
<1>2. t \notin DOMAIN w.cache /\ stores' = PutBack(w, t) /\ chain' = chain
  BY <1>1 DEF Receive
<1>3. PICK h : Books(h, chain, w)
  BY <1>1 DEF BooksInv
<1>4. Tells(w)
  BY <1>1 DEF BooksInv
<1>5. t \notin ToSet(w.pool)
  BY <1>2, <1>4, TellsCached
<1>6. PICK v : v = PutBack(w, t) /\ v = stores'
  BY <1>2
<1>7. v \in Stores /\ Tells(v) /\ v.own = w.own
  BY <1>2, <1>4, <1>5, <1>6, PutBackTells
<1>8. h[Len(chain)] \in Book
  BY <1>3, FlowFacts DEF Books, ChainPath
<1>9. OnPool(v, h[Len(chain)])
  BY <1>3, <1>6, <1>8, PutBackOnPool DEF Books
<1>10. Books(h, chain, v)
  BY <1>3, <1>7, <1>9 DEF Books
<1> QED BY <1>2, <1>6, <1>7, <1>10 DEF BooksInv

\* Keys leave the cache; those of the pool stay.
LEMMA ErasedTells ==
  ASSUME NEW w \in Stores, Tells(w), NEW K, ToSet(w.pool) \intersect K = {},
         NEW v, v.pool = w.pool, v.cache = EraseKeys(w.cache, K)
  PROVE  Tells(v)
<1>1. PICK e \in Cache, q \in Seq(Tx) : e = w.cache /\ q = w.pool
  BY StoresFields
<1>2. Told(EraseKeys(e, K))
  <2>1. Told(e)
    BY <1>1 DEF Tells
  <2> QED BY <2>1, ToldKept, LedgerAssumption DEF Told, EraseKeys
<1>3. ASSUME NEW i \in DOMAIN q
      PROVE  FlagTold(EraseKeys(e, K), q[i])
  <2>1. FlagTold(e, q[i])
    BY <1>1 DEF Tells, Flags
  <2>2. q[i] \notin K
    BY <1>1 DEF ToSet
  <2> QED BY <2>1, <2>2 DEF FlagTold, EraseKeys
<1>4. Distinct(q)
  BY <1>1 DEF Tells, Flags
<1> QED BY <1>1, <1>2, <1>3, <1>4 DEF Tells, Flags

\* What is loaded at a start tells of the stored pool.
LEMMA LoadedTells ==
  ASSUME NEW c \in Seq(Block), NEW q \in Seq(Tx),
         q # <<>> => Distinct(q) /\ ToSet(q) \intersect TF!LoadedKeys(SetsOf(c)) = {},
         NEW v, v.pool = q, v.cache = LoadedCache(c, q)
  PROVE  LoadedCache(c, q) \in Cache /\ Tells(v)
<1>1. PICK C \in Seq(SUBSET Tx) : /\ C = SetsOf(c) /\ Len(C) = Len(c) /\ DOMAIN C = DOMAIN c
                                  /\ \A i \in DOMAIN c : C[i] = ToSet(c[i].txs) /\ c[i].txs \in Seq(Tx)
  BY SetsFields
<1>2. PICK R \in SUBSET DOMAIN c : R = RecentBlocksOf(c)
  BY DEF RecentBlocksOf
<1>3. TF!RecentIndices(C) = R
  BY <1>1, <1>2, SameWords DEF TF!RecentIndices, RecentBlocksOf
<1>4. PICK K : K = UNION {Keys(t) : t \in UNION {ToSet(c[i].txs) : i \in R}}
  OBVIOUS
<1>5. K = TF!LoadedKeys(C)
  <2>1. {ToSet(c[i].txs) : i \in R} = {C[i] : i \in R}
    BY <1>1
  <2>2. TF!LoadedKeys(C) = UNION {Keys(t) : t \in UNION {C[i] : i \in R}}
    BY <1>3, SameWords DEF TF!LoadedKeys, KeysOf
  <2> QED BY <1>4, <2>1, <2>2
<1>6. PICK e : e = LoadedCache(c, q) /\ e = [k \in K \union ToSet(q) |-> k \in K \/ k \in Complete]
  BY <1>2, <1>4, ZenonT(30) DEF LoadedCache
<1>7. e \in Cache
  <2>1. ToSet(q) \subseteq Tx
    BY SetInside
  <2>2. K \subseteq Tx
    <3>1. UNION {ToSet(c[i].txs) : i \in R} \in SUBSET Tx
      BY <1>1, SetInside
    <3>2. K = KeysOf(UNION {ToSet(c[i].txs) : i \in R})
      BY <1>4 DEF KeysOf
    <3> QED BY <3>1, <3>2, KeysInTx
  <2>3. PICK D \in SUBSET Tx : D = K \union ToSet(q)
    BY <2>1, <2>2
  <2>4. \A k \in D : (k \in K \/ k \in Complete) \in BOOLEAN
    OBVIOUS
  <2>5. [k \in D |-> k \in K \/ k \in Complete] \in [D -> BOOLEAN]
    BY <2>4, Zenon
  <2>6. e = [k \in D |-> k \in K \/ k \in Complete]
    BY <1>6, <2>3
  <2> QED BY <2>5, <2>6 DEF Cache
<1>8. Told(e)
  BY <1>6 DEF Told
<1>9. ASSUME NEW i \in DOMAIN q
      PROVE  FlagTold(e, q[i])
  <2>1. q # <<>> /\ q[i] \in ToSet(q)
    BY DEF ToSet
  <2>2. q[i] \notin K
    BY <1>1, <1>5, <2>1
  <2> QED BY <1>6, <2>1, <2>2 DEF FlagTold
<1>10. Distinct(q)
  <2>1. CASE q = <<>>
    BY <2>1 DEF Distinct
  <2> QED BY <2>1
<1> QED BY <1>6, <1>7, <1>8, <1>9, <1>10 DEF Tells, Flags

\* The keys of the cache are cleaned by their age.
LEMMA CleanCacheBooks ==
  ASSUME FlowInv, BooksInv, CleanCache, Pooled' \subseteq Cached'
  PROVE  BooksInv'
<1>1. PICK w \in Stores : w = stores
  BY FlowFacts
<1>2. PICK K : stores' = [w EXCEPT !.cache = EraseKeys(w.cache, K)] /\ chain' = chain
  BY <1>1 DEF CleanCache
<1>3. PICK e \in Cache : e = EraseKeys(w.cache, K)
  BY StoresFields, ErasedTwice
<1>4. PICK v : v = [w EXCEPT !.cache = e] /\ v = stores'
  BY <1>2, <1>3
<1>5. /\ v \in Stores /\ v.cache = e /\ v.pool = w.pool
      /\ \A h, c : Books(h, c, w) => Books(h, c, v)
  BY <1>4, CacheAlone
<1>6. ToSet(w.pool) \intersect K = {}
  <2>1. ToSet(v.pool) \subseteq DOMAIN v.cache
    BY <1>4 DEF Pooled, Cached
  <2> QED BY <1>3, <1>5, <2>1 DEF EraseKeys
<1>7. Tells(w)
  BY <1>1 DEF BooksInv
<1>8. Tells(v)
  BY <1>3, <1>5, <1>6, <1>7, ErasedTells
<1>9. \E h : Books(h, chain, v)
  BY <1>1, <1>5 DEF BooksInv
<1> QED BY <1>2, <1>4, <1>8, <1>9 DEF BooksInv

\* The process starts again.
LEMMA RestartBooks ==
  ASSUME FlowInv, BooksInv, Restart
  PROVE  BooksInv'
<1>1. PICK w \in Stores, c \in Seq(Block), q \in Seq(Tx) : w = stores /\ c = chain /\ q = w.pool
  BY FlowFacts DEF Stores
<1>2. stores' = [w EXCEPT !.cache = LoadedCache(c, q)] /\ chain' = chain
  BY <1>1 DEF Restart
<1>3. Distinct(q)
  BY <1>1 DEF BooksInv, Tells, Flags
<1>4. ToSet(q) \intersect TF!LoadedKeys(SetsOf(c)) = {}
  <2>1. TF!LoadSucceeds(Sets, Pooled)
    BY RestartFlows DEF TF!Restart
  <2> QED BY <1>1, <2>1 DEF TF!LoadSucceeds, Sets, Pooled
<1>5. PICK v : v = [w EXCEPT !.cache = LoadedCache(c, q)] /\ v = stores'
  BY <1>2
<1>6. v.pool = q /\ v.cache = LoadedCache(c, q)
  BY <1>1, <1>5 DEF Stores
<1>7. PICK e \in Cache : e = LoadedCache(c, q)
  BY <1>3, <1>4, <1>6, LoadedTells
<1>8. Tells(v)
  BY <1>3, <1>4, <1>6, LoadedTells
<1>9. \A h, d : Books(h, d, w) => Books(h, d, v)
  BY <1>5, <1>7, CacheAlone
<1>10. \E h : Books(h, chain, v)
  BY <1>1, <1>9 DEF BooksInv
<1> QED BY <1>2, <1>5, <1>8, <1>10 DEF BooksInv

LEMMA TickBooks ==
  ASSUME BooksInv, Tick \/ UNCHANGED vars
  PROVE  BooksInv'
  BY DEF Tick, vars, BooksInv

\* The pool and the blocks above lcb are taken off stores that hold their books.
LEMMA RewindBooks ==
  ASSUME chain \in Seq(Block), Len(chain) # 0, NEW w \in Stores, Flags(w), NEW h, Books(h, chain, w),
         NEW lcb \in 0..(Len(chain) - 1),
         NEW v, v = RevertBlocks(RevertPool(w), lcb),
         NEW kept, kept = SubSeq(chain, 1, lcb + 1)
  PROVE  /\ v \in Stores /\ Owned(v) /\ Keeps(v, h[lcb + 1]) /\ h[lcb + 1] \in Book
         /\ kept \in Seq(Block) /\ Len(kept) = lcb + 1
         /\ ChainPath(h, kept)
<1>1. ChainPath(h, chain) /\ OnPool(w, h[Len(chain)])
  BY DEF Books
<1>2. PICK N \in Nat \ {0} : N = Len(chain) /\ lcb + 1 \in 1..N /\ DOMAIN chain = 1..N
  OBVIOUS
<1>3. PICK s \in Book : s = h[Len(chain)]
  BY <1>1, <1>2 DEF ChainPath
<1>4. PICK u \in Book : Keeps(w, u) /\ Reaches("pool", <<>>, s, u, w.pool)
  BY <1>1, <1>3 DEF OnPool
<1>5. PICK z : z = RevertPool(w)
  OBVIOUS
<1>6. z \in Stores /\ Keeps(z, s) /\ Owned(z)
  BY <1>3, <1>4, <1>5, PoolOffBook
<1>7. v = RevertBlocks(z, lcb)
  BY <1>5
<1>8. v \in Stores /\ Keeps(v, h[lcb + 1]) /\ Owned(v)
  BY <1>1, <1>3, <1>6, <1>7, BlocksOffBook
<1>9. h[lcb + 1] \in Book
  BY <1>1, <1>2 DEF ChainPath
<1>10. PICK n \in 1..Len(chain) : n = lcb + 1
  BY <1>2
<1>11. ChainPath(h, SubSeq(chain, 1, n))
  BY <1>1, <1>10, ChainPathPrefix
<1>12. SubSeq(chain, 1, n) \in Seq(Block) /\ Len(SubSeq(chain, 1, n)) = n
  BY <1>2, <1>10, SubSeqProperties
<1> QED BY <1>8, <1>9, <1>10, <1>11, <1>12

\* The node is started with the option that reverts its last blocks.
LEMMA RevertLastBlocksBooks ==
  ASSUME FlowInv, BooksInv, NEW count \in 1..HeadNumber, RevertLastBlocks(count)
  PROVE  BooksInv'
<1>1. PICK w \in Stores, c \in Seq(Block) : w = stores /\ c = chain /\ Len(c) = HeadNumber + 1
  BY FlowFacts
<1>2. HeadNumber \in Nat /\ chain \in Seq(Block)
  BY FlowFacts
<1>3. PICK lcb \in 0..(Len(chain) - 1) : lcb = HeadNumber - count /\ lcb + 1 = Len(chain) - count
  BY <1>1, <1>2
<1>4. PICK q \in Seq(Tx) : q = w.pool
  BY StoresFields
<1>5. PICK e \in Cache : e = [t \in ToSet(q) |-> t \in Complete]
  <2>1. PICK D \in SUBSET Tx : D = ToSet(q)
    BY SetInside
  <2>2. \A t \in D : (t \in Complete) \in BOOLEAN
    OBVIOUS
  <2>3. [t \in D |-> t \in Complete] \in [D -> BOOLEAN]
    BY <2>2, Zenon
  <2> QED BY <2>1, <2>3 DEF Cache
<1>6. PICK y : y = [w EXCEPT !.cache = e]
  OBVIOUS
<1>7. /\ y \in Stores /\ y.cache = e /\ y.pool = q
      /\ \A h, d : Books(h, d, w) => Books(h, d, y)
  BY <1>4, <1>6, CacheAlone
<1>8. Flags(y)
  <2>1. Distinct(q)
    BY <1>1, <1>4 DEF BooksInv, Tells, Flags
  <2>2. \A i \in DOMAIN q : FlagTold(e, q[i])
    BY <1>5 DEF ToSet, FlagTold
  <2> QED BY <1>7, <2>1, <2>2 DEF Flags
<1>9. PICK h : Books(h, chain, y)
  BY <1>1, <1>7 DEF BooksInv
<1>10. PICK v : v = RevertBlocks(RevertPool(y), lcb)
  OBVIOUS
<1>11. PICK kept : kept = SubSeq(chain, 1, lcb + 1)
  OBVIOUS
<1>12. /\ v \in Stores /\ Owned(v) /\ Keeps(v, h[lcb + 1]) /\ h[lcb + 1] \in Book
       /\ kept \in Seq(Block) /\ Len(kept) = lcb + 1
       /\ ChainPath(h, kept)
  <2>1. Len(chain) # 0
    BY <1>1, <1>2
  <2> QED BY <1>2, <1>7, <1>8, <1>9, <1>10, <1>11, <2>1, RewindBooks
<1>13. chain' = kept /\ stores' = [v EXCEPT !.cache = LoadedCache(kept, <<>>)]
  <2>1. chain' = SubSeq(chain, 1, Len(chain) - count)
    BY DEF RevertLastBlocks
  <2>2. kept = SubSeq(chain, 1, Len(chain) - count)
    BY <1>3, <1>11
  <2>3. y = [stores EXCEPT !.cache = [t \in ToSet(stores.pool) |-> t \in Complete]]
    BY <1>1, <1>4, <1>5, <1>6
  <2>4. v = RevertBlocks(RevertPool(y), HeadNumber - count)
    BY <1>3, <1>10
  <2>5. v = RevertBlocks(RevertPool([stores EXCEPT !.cache = [t \in ToSet(stores.pool) |-> t \in Complete]]),
                         HeadNumber - count)
    BY <2>3, <2>4
  <2>6. stores' = [v EXCEPT !.cache = LoadedCache(SubSeq(chain, 1, Len(chain) - count), <<>>)]
    BY <2>5 DEF RevertLastBlocks
  <2> QED BY <2>1, <2>2, <2>6
<1>14. v.pool = <<>>
  <2>1. UsedOnce
    BY FlowFacts
  <2>2. PICK z : z = RevertPool(y)
    OBVIOUS
  <2>3. z \in Stores /\ z.pool = <<>>
    BY <1>7, <2>2, PoolOffKeys
  <2>4. v = RevertBlocks(z, lcb)
    BY <1>10, <2>2
  <2> QED BY <1>2, <2>1, <2>3, <2>4, BlocksOffKeys
<1>15. PICK none \in Seq(Tx) : none = <<>>
  <2>1. <<>> \in Seq(Tx)
    OBVIOUS
  <2> QED BY <2>1
<1>16. PICK x : x = [v EXCEPT !.cache = LoadedCache(kept, none)] /\ x = stores'
  BY <1>13, <1>15
<1>17. x.pool = none /\ x.cache = LoadedCache(kept, none)
  BY <1>12, <1>14, <1>15, <1>16 DEF Stores
<1>18. PICK f \in Cache : f = LoadedCache(kept, none)
  BY <1>12, <1>15, <1>17, LoadedTells
<1>19. Tells(x)
  BY <1>12, <1>15, <1>17, LoadedTells
<1>20. Books(h, kept, v)
  <2>1. OnPool(v, h[lcb + 1])
    BY <1>12, <1>14, OnPoolStarts
  <2>2. v.own = h[lcb + 1].balance[Own]
    BY <1>12 DEF Owned, Keeps
  <2> QED BY <1>12, <2>1, <2>2 DEF Books
<1>21. Books(h, kept, x)
  BY <1>12, <1>16, <1>18, <1>20, CacheAlone
<1> QED BY <1>13, <1>16, <1>19, <1>21 DEF BooksInv

\* What a node makes when it mines: the chain and the stores.  An incomplete
\* transaction that is put back was in the pool.
Mined(order, back, b, r) ==
  /\ r = FoldLeft(TryTransaction, [w |-> RevertPool(stores), txs |-> <<>>, failed |-> {}], order)
  /\ Distinct(order) /\ Distinct(back)
  /\ b.miner = Own /\ b.txs = r.txs
  /\ chain' = Append(chain, b)
  /\ stores' = FoldLeft(PutBack, CloseBlock(r.w, b), back)
  /\ \A t \in ToSet(back) : t \in Complete \/ t \in Pooled

LEMMA MineBlockIs ==
  ASSUME FlowInv, MineBlock
  PROVE  /\ stores.own >= Threshold
         /\ \E order \in Seq(Tx), back \in Seq(Tx), b \in Block : \E r : Mined(order, back, b, r)
<1> DEFINE time       == TimeOf(HeadNumber + 1)
           reverted   == {t \in ToSet(stores.pool) : time <= Expiry[t]}
           young      == {t \in reverted : Creation[t] < time}
           merged     == Merged(young)
           joined     == UNION {Parts[t] : t \in merged}
           candidates == (young \intersect Complete) \union merged
           bare       == RevertPool(stores)
           tried(order) == FoldLeft(TryTransaction, [w |-> bare, txs |-> <<>>, failed |-> {}], order)
           block(order) == [miner |-> Own, txs |-> tried(order).txs]
           rest(picked, order) == (reverted \ young)
                         \union ((young \ Complete) \ joined)
                         \union (candidates \ picked) \union tried(order).failed
<1>1. reverted \in SUBSET Tx /\ candidates \in SUBSET Tx /\ candidates \subseteq Complete
  <2>1. reverted \in SUBSET Tx
    BY FlowFacts DEF Pooled
  <2>2. merged \in SUBSET Complete /\ Complete \subseteq Tx
    BY LedgerAssumption DEF Merged
  <2> QED BY <2>1, <2>2
<1>2. PICK picked \in SUBSET candidates :
        \E order \in SortedByCreation(picked) :
             /\ chain' = Append(chain, block(order))
             /\ \E back \in SortedByCreation(rest(picked, order)) :
                  stores' = FoldLeft(PutBack, CloseBlock(tried(order).w, block(order)), back)
  BY DEF MineBlock
<1>3. PICK order \in SortedByCreation(picked) :
        /\ chain' = Append(chain, block(order))
        /\ \E back \in SortedByCreation(rest(picked, order)) :
             stores' = FoldLeft(PutBack, CloseBlock(tried(order).w, block(order)), back)
  BY <1>2
<1>4. order \in Seq(Tx) /\ ToSet(order) \subseteq picked /\ Distinct(order)
  <2>1. picked \in SUBSET Tx
    BY <1>1
  <2> QED BY <2>1, SortedOrders
<1>5. PICK w \in Stores : w = stores
  BY FlowFacts
<1>6. PICK b0 \in Stores : b0 = bare /\ b0 = RevertPool(w)
  BY <1>5, PoolOffKeys
<1>7. PICK r : /\ r = tried(order)
               /\ r = FoldLeft(TryTransaction, [w |-> b0, txs |-> <<>>, failed |-> {}], order)
  BY <1>6
<1>8. r \in [w : Stores, txs : Seq(Tx), failed : SUBSET Tx] /\ Tried(r, b0, ToSet(order))
  BY <1>4, <1>7, TryingKeys
<1>9. PICK b \in Block : b = block(order) /\ b.txs = r.txs /\ b.miner = Own
  <2>1. [miner |-> Own, txs |-> r.txs] \in Block
    BY <1>8, LedgerAssumption DEF Block
  <2> QED BY <1>7, <2>1
<1>10. PICK R \in SUBSET Tx : /\ R = rest(picked, order)
                              /\ \A t \in R : t \in reverted \/ t \in candidates \/ t \in r.failed
  <2>1. rest(picked, order) = (reverted \ young)
                         \union ((young \ Complete) \ joined)
                         \union (candidates \ picked) \union r.failed
    BY <1>7
  <2>2. rest(picked, order) \in SUBSET Tx
    BY <1>1, <1>8, <2>1
  <2> QED BY <2>1, <2>2
<1>11. PICK back \in SortedByCreation(R) : stores' = FoldLeft(PutBack, CloseBlock(r.w, b), back)
  BY <1>3, <1>7, <1>9, <1>10
<1>12. back \in Seq(Tx) /\ ToSet(back) \subseteq R /\ Distinct(back)
  BY <1>10, <1>11, SortedOrders
<1>13. \A t \in ToSet(back) : t \in Complete \/ t \in Pooled
  <2>1. r.failed \subseteq candidates
    BY <1>2, <1>4, <1>8 DEF Tried
  <2>2. reverted \subseteq Pooled
    BY DEF Pooled
  <2> QED BY <1>1, <1>10, <1>12, <2>1, <2>2
<1>14. chain' = Append(chain, b)
  BY <1>3, <1>9
<1>15. r = FoldLeft(TryTransaction, [w |-> RevertPool(stores), txs |-> <<>>, failed |-> {}], order)
  BY <1>7
<1>16. stores.own >= Threshold
  BY DEF MineBlock
<1> HIDE DEF time, reverted, young, merged, joined, candidates, bare, tried, block, rest
<1>17. Mined(order, back, b, r)
  BY <1>4, <1>9, <1>11, <1>12, <1>13, <1>14, <1>15 DEF Mined
<1> QED BY <1>4, <1>12, <1>16, <1>17

\* The files of a form of a transaction are those of the transaction.
LEMMA FormFiles ==
  ASSUME NEW u \in Tx, NEW t \in Parts[u]
  PROVE  NewFiles(t) = NewFiles(u) /\ NewFiles(t) # {}
<1>1. Action[t] = Action[u]
  BY FormsAssumption
<1>2. Action[u].type # "Transfer"
  BY LedgerAssumption
<1> QED BY <1>1, <1>2 DEF NewFiles

\* An incomplete transaction of the pool that has a key in the cache when the own
\* block is on is a form of a transaction of the block, whose file is there.
LEMMA MinedTells ==
  ASSUME NEW w \in Stores, NEW order \in Seq(Tx), Distinct(order),
         NEW bare, bare = RevertPool(w),
         NEW r, r = FoldLeft(TryTransaction, [w |-> bare, txs |-> <<>>, failed |-> {}], order),
         NEW S, \A t \in S : t \in Complete \/ t \in ToSet(w.pool),
         ToSet(r.txs) \subseteq Complete
  PROVE  Telling(r.w, S)
<1>1. /\ bare \in Stores /\ bare.cache = EraseKeys(w.cache, ToSet(w.pool))
  BY PoolOffKeys
<1>2. PICK T : T = ToSet(order)
  OBVIOUS
<1>3. r \in [w : Stores, txs : Seq(Tx), failed : SUBSET Tx] /\ Tried(r, bare, T)
  BY <1>1, <1>2, TryingKeys
<1>4. PICK B \in SUBSET Tx : B = ToSet(r.txs)
  BY <1>3, SetInside
<1>5. PICK e \in Cache : e = bare.cache /\ DOMAIN e \intersect ToSet(w.pool) = {}
  <2>1. bare.cache \in Cache
    BY <1>1, StoresFields
  <2> QED BY <1>1, <2>1 DEF EraseKeys
<1>6. r.w.cache = AddSet(e, B) /\ (\A u \in B : NewFiles(u) \subseteq r.w.files)
  BY <1>3, <1>4, <1>5 DEF Tried
<1>7. ASSUME NEW t \in S, t \notin Complete, t \in DOMAIN r.w.cache
      PROVE  r.w.files \intersect NewFiles(t) # {}
  <2>1. t \in KeysOf(B)
    <3>1. t \notin DOMAIN e
      BY <1>5, <1>7
    <3>2. DOMAIN AddSet(e, B) = DOMAIN e \union KeysOf(Free(e, B))
      BY AddSetFields
    <3> QED BY <1>6, <1>7, <3>1, <3>2 DEF KeysOf, Free
  <2>2. PICK u \in B : t \in Keys(u)
    BY <2>1 DEF KeysOf
  <2>3. t \in Parts[u]
    BY <1>4, <1>7, <2>2 DEF Keys
  <2>4. NewFiles(t) = NewFiles(u) /\ NewFiles(t) # {}
    BY <2>3, FormFiles
  <2> QED BY <1>6, <2>2, <2>4
<1> QED BY <1>7 DEF Telling

\* The node's own block.
LEMMA MineBlockBooks ==
  ASSUME FlowInv, BooksInv, MineBlock
  PROVE  BooksInv'
<1>1. PICK w \in Stores, c \in Seq(Block), n \in Nat \ {0} : w = stores /\ c = chain /\ n = Len(chain)
  BY FlowFacts
<1>2. PICK order \in Seq(Tx), back \in Seq(Tx), b \in Block : \E r : Mined(order, back, b, r)
  BY MineBlockIs
<1>3. PICK r : Mined(order, back, b, r)
  BY <1>2
<1>4. PICK h : Books(h, c, w)
  BY <1>1 DEF BooksInv
<1>5. PICK s \in Book : s = h[n] /\ w.own = s.balance[Own] /\ ChainPath(h, c) /\ OnPool(w, s)
  BY <1>1, <1>4 DEF Books, ChainPath
<1>6. s.balance[Own] >= Threshold
  BY <1>1, <1>5, MineBlockIs
<1>7. Tells(w)
  BY <1>1 DEF BooksInv
<1>8. PICK u \in Book : Keeps(w, u) /\ Reaches("pool", <<>>, s, u, w.pool)
  BY <1>5 DEF OnPool
<1>9. PICK bare : bare = RevertPool(w)
  OBVIOUS
<1>10. /\ bare \in Stores /\ Keeps(bare, s) /\ Owned(bare)
       /\ bare.pool = <<>> /\ bare.cache = EraseKeys(w.cache, ToSet(w.pool))
  <2>1. Flags(w)
    BY <1>7 DEF Tells
  <2> QED BY <1>8, <1>9, <2>1, PoolOffBook, PoolOffKeys
<1>11. r = FoldLeft(TryTransaction, [w |-> bare, txs |-> <<>>, failed |-> {}], order)
  BY <1>1, <1>3, <1>9 DEF Mined
<1>12. Distinct(order) /\ Distinct(back) /\ b.miner = Own /\ b.txs = r.txs
  BY <1>3 DEF Mined
<1>13. chain' = Append(c, b) /\ stores' = FoldLeft(PutBack, CloseBlock(r.w, b), back)
  BY <1>1, <1>3 DEF Mined
<1>14. \A t \in ToSet(back) : t \in Complete \/ t \in ToSet(w.pool)
  BY <1>1, <1>3 DEF Mined, Pooled
<1>15. PICK T : T = ToSet(order)
  OBVIOUS
<1>16. r \in [w : Stores, txs : Seq(Tx), failed : SUBSET Tx] /\ Tried(r, bare, T)
  BY <1>10, <1>11, <1>12, <1>15, TryingKeys
<1>17. PICK x \in Stores : /\ x = r.w /\ x.pool = <<>> /\ Owned(x)
                           /\ x.cache = AddSet(bare.cache, ToSet(r.txs))
  BY <1>10, <1>16 DEF Tried
<1>18. PICK v : v = CloseBlock(x, b)
  OBVIOUS
<1>19. v \in Stores /\ v.pool = <<>> /\ v.cache = x.cache /\ v.files = x.files /\ Owned(v)
  <2>1. v \in Stores
    BY <1>18, CloseBlockFields
  <2>2. v.files = x.files /\ v.pool = x.pool /\ v.cache = x.cache
    BY <1>18, CloseBlockFields, ZenonT(30)
  <2>3. Owned(x) => Owned(v)
    BY <1>18, CloseBlockFields
  <2> QED BY <1>17, <2>1, <2>2, <2>3
<1>20. v \in Stores /\ \E z \in Book : Keeps(v, z) /\ BlockStep(s, z, b)
  <2>1. PICK k \in Block : k = b
    OBVIOUS
  <2>2. x = r.w /\ v = CloseBlock(x, k)
    BY <1>17, <1>18, <2>1
  <2>3. bare \in Stores /\ Keeps(bare, s)
    BY <1>10
  <2>4. k.miner = Own /\ k.txs = r.txs
    BY <1>12, <2>1
  <2>5. Mining(r, s)
    BY <1>11, <2>3, TryingBook
  <2>6. PICK m \in Book : Keeps(x, m) /\ Reaches("block", Own, s, m, r.txs)
    BY <2>2, <2>5 DEF Mining
  <2>7. v \in Stores /\ \E z \in Book : Keeps(v, z) /\ Closes(m, z, k)
    BY <2>2, <2>6, CloseForward
  <2>8. v \in Stores /\ \E z \in Book : Keeps(v, z) /\ BlockStep(s, z, k)
    BY <1>6, <2>4, <2>6, <2>7 DEF BlockStep
  <2> QED BY <2>1, <2>8
<1>21. PICK z \in Book : Keeps(v, z) /\ BlockStep(s, z, b)
  BY <1>20
<1>22. PICK g : ChainPath(g, Append(c, b)) /\ g[n + 1] = z
  <2>1. BlockStep(h[Len(c)], z, b) /\ Len(c) # 0
    BY <1>1, <1>5, <1>21
  <2>2. \E g : ChainPath(g, Append(c, b)) /\ g[Len(c)] = h[Len(c)] /\ g[Len(c) + 1] = z
    BY <1>5, <2>1, ChainPathGrows
  <2> QED BY <1>1, <2>2
<1>23. PICK d \in Seq(Block) : d = Append(c, b) /\ d = chain' /\ Len(d) = n + 1
  <2>1. Append(c, b) \in Seq(Block) /\ Len(Append(c, b)) = Len(c) + 1
    BY AppendProperties
  <2> QED BY <1>1, <1>13, <2>1
<1>24. OnPool(v, z)
  BY <1>19, <1>21, OnPoolStarts
<1>25. Tells(v)
  <2>1. PICK e \in Cache, B \in SUBSET Tx : e = w.cache /\ B = ToSet(r.txs)
    <3>1. r.txs \in Seq(Tx)
      BY <1>16
    <3>2. ToSet(r.txs) \in SUBSET Tx
      BY <3>1, SetInside
    <3> QED BY <3>2, StoresFields
  <2>2. PICK K : K = ToSet(w.pool)
    OBVIOUS
  <2>3. PICK f \in Cache : f = EraseKeys(e, K)
    BY ErasedTwice
  <2>4. Told(e)
    BY <1>7, <2>1 DEF Tells
  <2>5. Told(f)
    BY <2>3, <2>4 DEF Told, EraseKeys
  <2>6. v.cache = AddSet(f, B)
    BY <1>10, <1>17, <1>19, <2>1, <2>2, <2>3
  <2>7. Told(AddSet(f, B))
    BY <2>5 DEF Told, AddSet
  <2> QED BY <1>19, <2>6, <2>7 DEF Tells, Flags, Distinct
<1>26. Telling(v, ToSet(back))
  <2>1. ToSet(r.txs) \subseteq Complete
    <3>1. ChainShape'
      BY MineBlockFlows
    <3>2. chain'[n + 1] = b /\ n + 1 \in DOMAIN chain'
      BY <1>1, <1>13
    <3>3. b.txs \in Seq(Complete)
      BY <3>1, <3>2 DEF ChainShape, BlockShape
    <3> QED BY <1>12, <3>3, SetInside
  <2>2. PICK S : S = ToSet(back)
    OBVIOUS
  <2>3. Telling(r.w, S)
    BY <1>9, <1>11, <1>12, <1>14, <2>1, <2>2, MinedTells
  <2> QED BY <1>17, <1>19, <2>2, <2>3 DEF Telling
<1>27. PICK y : y = FoldLeft(PutBack, v, back) /\ y = stores'
  BY <1>13, <1>17, <1>18
<1>28. OnPool(y, z) /\ Tells(y) /\ y.own = v.own
  <2>1. v \in Stores /\ v.pool = <<>>
    BY <1>19
  <2>2. y = FoldLeft(PutBack, v, back) /\ Distinct(back)
    BY <1>12, <1>27
  <2>3. y \in Stores /\ OnPool(y, z) /\ Tells(y) /\ y.own = v.own
    BY <1>24, <1>25, <1>26, <2>1, <2>2, PuttingBackBook
  <2> QED BY <2>3
<1>29. Books(g, d, y)
  <2>1. ChainPath(g, d) /\ g[Len(d)] = z
    BY <1>22, <1>23
  <2>2. y.own = z.balance[Own]
    BY <1>19, <1>21, <1>28 DEF Owned, Keeps
  <2> QED BY <1>28, <2>1, <2>2 DEF Books
<1> QED BY <1>23, <1>27, <1>28, <1>29 DEF BooksInv

\* The stores when the blocks of a peer are on: their books, and an empty pool.
LEMMA SyncedBooks ==
  ASSUME chain \in Seq(Block), Len(chain) # 0, UsedOnce, NEW w \in Stores, Tells(w),
         NEW h, Books(h, chain, w), NEW lcb \in 0..(Len(chain) - 1),
         NEW bare, bare = RevertBlocks(RevertPool(w), lcb), NEW blocks \in Seq(Block),
         NEW r, r = FoldLeft(VerifyBlock, [w |-> bare, ok |-> TRUE, miner |-> Own], blocks), r.ok,
         NEW x, x = r.w, NEW d, d = SubSeq(chain, 1, lcb + 1) \o blocks
  PROVE  x \in Stores /\ Tells(x) /\ \E g : Books(g, d, x) /\ g[Len(d)] \in Book
<1>1. PICK kept \in Seq(Block) :
        /\ kept = SubSeq(chain, 1, lcb + 1) /\ Len(kept) = lcb + 1
        /\ ChainPath(h, kept)
        /\ bare \in Stores /\ Owned(bare) /\ Keeps(bare, h[lcb + 1])
  <2>1. Flags(w)
    BY DEF Tells
  <2> QED BY <2>1, RewindBooks
<1>2. PICK off : off = RevertPool(w)
  OBVIOUS
<1>3. off \in Stores /\ off.pool = <<>> /\ off.cache = EraseKeys(w.cache, ToSet(w.pool))
  BY <1>2, PoolOffKeys
<1>4. bare.pool = <<>> /\ bare.cache = Rewound(off.cache, lcb + 2)
  <2>1. bare = RevertBlocks(off, lcb)
    BY <1>2
  <2> QED BY <1>3, <2>1, BlocksOffKeys
<1>5. Told(bare.cache)
  <2>1. Told(w.cache)
    BY DEF Tells
  <2>2. Told(off.cache)
    BY <1>3, <2>1 DEF Told, EraseKeys
  <2> QED BY <1>4, <2>2 DEF Rewound, Told, EraseKeys, AddSet
<1>6. PICK a \in Verdict : a = [w |-> bare, ok |-> TRUE, miner |-> Own] /\ a.w = bare /\ a.ok = TRUE
  <2>1. PICK a : a = [w |-> bare, ok |-> TRUE, miner |-> Own]
    OBVIOUS
  <2>2. Own \in Address
    BY LedgerAssumption
  <2>3. a \in Verdict
    BY <1>1, <2>1, <2>2 DEF Verdict
  <2> QED BY <2>1, <2>3
<1>7. OnChain(a, kept)
  BY <1>1, <1>6 DEF OnChain
<1>8. r = FoldLeft(VerifyBlock, a, blocks)
  BY <1>6
<1>9. r \in Verdict /\ OnChain(r, kept \o blocks)
  <2>1. Len(kept) # 0
    BY <1>1
  <2> QED BY <1>7, <1>8, <2>1, VerifyingBlocksBook
<1>10. VerifiedBlocks(r, a, blocks, Len(blocks))
  BY <1>8, VerifyingBlocksKeys
<1>11. PICK T : T = TxsOf(blocks, Len(blocks))
  OBVIOUS
<1>12. /\ x \in Stores /\ x.cache = AddSet(bare.cache, T)
       /\ x.pool = <<>> /\ Owned(x)
  <2>1. r.w \in Stores
    BY <1>9 DEF Verdict
  <2> QED BY <1>1, <1>4, <1>6, <1>10, <1>11, <2>1 DEF VerifiedBlocks
<1>13. Told(x.cache)
  BY <1>5, <1>12 DEF Told, AddSet
<1>14. Tells(x)
  <2>1. DOMAIN x.pool = {}
    BY <1>12
  <2>2. Flags(x)
    BY <2>1 DEF Flags, Distinct
  <2> QED BY <1>13, <2>2 DEF Tells
<1>15. d = kept \o blocks
  BY <1>1
<1>16. PICK g : ChainPath(g, d) /\ Keeps(x, g[Len(d)])
  BY <1>9, <1>15 DEF OnChain
<1>17. g[Len(d)] \in Book
  <2>1. Len(d) = lcb + 1 + Len(blocks) /\ Len(blocks) \in Nat
    BY <1>1, <1>15, ConcatProperties
  <2>2. Len(d) \in 1..Len(d)
    BY <2>1
  <2> QED BY <1>16, <2>2 DEF ChainPath
<1>18. OnPool(x, g[Len(d)])
  BY <1>12, <1>16, <1>17, OnPoolStarts
<1>19. x.own = g[Len(d)].balance[Own]
  BY <1>12, <1>16 DEF Owned, Keeps
<1>20. Books(g, d, x)
  BY <1>16, <1>18, <1>19 DEF Books
<1> QED BY <1>12, <1>14, <1>17, <1>20

\* The blocks of a peer.
LEMMA SyncBlocksBooks ==
  ASSUME FlowInv, BooksInv, NEW lcb \in 0..HeadNumber, SyncBlocks(lcb)
  PROVE  BooksInv'
<1>1. PICK blocks \in Received(lcb), more \in BOOLEAN : \E r : Synced(lcb, blocks, more, r)
  BY SyncBlocksAre
<1>2. PICK r : Synced(lcb, blocks, more, r)
  BY <1>1
<1>3. lcb \in 0..(Len(chain) - 1) /\ chain \in Seq(Block) /\ UsedOnce /\ Len(chain) # 0
  BY FlowFacts
<1>4. PICK q0 \in Seq(Block) : q0 = blocks
  BY ReceivedHold
<1>5. PICK w \in Stores : w = stores
  BY FlowFacts
<1>6. PICK h : Books(h, chain, w)
  BY <1>5 DEF BooksInv
<1>7. Tells(w)
  BY <1>5 DEF BooksInv
<1>8. PICK bare : bare = RevertBlocks(RevertPool(w), lcb)
  OBVIOUS
<1>9. r = FoldLeft(VerifyBlock, [w |-> bare, ok |-> TRUE, miner |-> Own], q0) /\ r.ok
  BY <1>2, <1>4, <1>5, <1>8 DEF Synced
<1>10. PICK d : d = SubSeq(chain, 1, lcb + 1) \o q0
  OBVIOUS
<1>11. PICK x : x = r.w
  OBVIOUS
<1>12. x \in Stores /\ Tells(x) /\ \E g : Books(g, d, x) /\ g[Len(d)] \in Book
  BY <1>3, <1>6, <1>7, <1>8, <1>9, <1>10, <1>11, SyncedBooks
<1>13. PICK g : Books(g, d, x) /\ g[Len(d)] \in Book
  BY <1>12
<1>14. PICK s \in Book : s = g[Len(d)]
  BY <1>13
<1>15. chain' = d
  BY <1>2, <1>4, <1>10 DEF Synced
<1>16. PICK q \in Seq(Tx) : stores' = FoldLeft(Return, x, q) \/ stores' = x
  <2>1. PICK S : S = Removed(lcb + 2) \union (IF more THEN {} ELSE TF!Alive(now))
    OBVIOUS
  <2>2. PICK q \in Seq(S) : stores' = FoldLeft(Return, x, q) \/ stores' = x
    BY <1>2, <1>11, <2>1 DEF Synced
  <2>3. S \subseteq Tx
    <3>1. Removed(lcb + 2) \in SUBSET Tx
      BY <1>3, RemovedTxs
    <3>2. TF!Alive(now) \subseteq Tx
      BY FlowFacts DEF TF!Alive
    <3> QED BY <2>1, <3>1, <3>2
  <2>4. q \in Seq(Tx)
    BY <2>3, SeqInLarger
  <2> QED BY <2>2, <2>4
<1>17. PICK y : y = stores'
  OBVIOUS
<1>18. CASE y = x
  BY <1>12, <1>13, <1>15, <1>17, <1>18 DEF BooksInv
<1>19. CASE y = FoldLeft(Return, x, q)
  <2>1. OnPool(x, s) /\ x.own = s.balance[Own] /\ ChainPath(g, d)
    BY <1>13, <1>14 DEF Books
  <2>2. y \in Stores /\ OnPool(y, s) /\ Tells(y) /\ y.own = x.own
    BY <1>12, <1>19, <2>1, ReturningBook
  <2>3. Books(g, d, y)
    BY <1>14, <2>1, <2>2 DEF Books
  <2> QED BY <1>15, <1>17, <2>2, <2>3 DEF BooksInv
<1> QED BY <1>16, <1>17, <1>18, <1>19

\* Every step keeps the books, when the keys of the pool stay in the cache.
LEMMA BooksHold ==
  ASSUME FlowInv, BooksInv, PoolKeysStay', [Next]_vars
  PROVE  BooksInv'
<1>1. CASE \E t \in Tx : Receive(t)
  BY <1>1, ReceiveBooks
<1>2. CASE MineBlock
  BY <1>2, MineBlockBooks
<1>3. CASE \E lcb \in 0..HeadNumber : SyncBlocks(lcb)
  BY <1>3, SyncBlocksBooks
<1>4. CASE CleanCache
  <2>1. Pooled' \subseteq Cached'
    BY DEF PoolKeysStay, Pooled, Cached
  <2> QED BY <1>4, <2>1, CleanCacheBooks
<1>5. CASE Restart
  BY <1>5, RestartBooks
<1>6. CASE \E count \in 1..HeadNumber : RevertLastBlocks(count)
  BY <1>6, RevertLastBlocksBooks
<1>7. CASE Tick \/ UNCHANGED vars
  BY <1>7, TickBooks
<1> QED BY <1>1, <1>2, <1>3, <1>4, <1>5, <1>6, <1>7 DEF Next

-----------------------------------------------------------------------------
(* What the books show *)

\* The key of a pool transaction stays in the cache, unless it uses the whole lifetime and
\* the head is more than the tolerance past its expiry: what TransactionFlow says of the
\* set of keys holds of transaction_cache.
THEOREM KeysStay == Flow!RewindsCovered => (Spec => []Flow!PoolInCache)
<1> SUFFICES ASSUME Flow!RewindsCovered
             PROVE  Spec => []Flow!PoolInCache
  OBVIOUS
<1>1. Init => FlowInv /\ TF!PoolsCached
  <2> SUFFICES ASSUME Init PROVE FlowInv /\ TF!PoolsCached
    OBVIOUS
  <2>1. FlowInv /\ TF!Init
    BY FlowStarts
  <2>2. TF!PoolsCached
    BY <2>1, TF!PoolsCachedStarts, LedgerAssumption, FormsAssumption
  <2> QED BY <2>1, <2>2
<1>2. FlowInv /\ TF!PoolsCached /\ [Next]_vars => FlowInv' /\ TF!PoolsCached'
  <2> SUFFICES ASSUME FlowInv, TF!PoolsCached, [Next]_vars
               PROVE  FlowInv' /\ TF!PoolsCached'
    OBVIOUS
  <2>1. FlowInv' /\ [TF!Next]_TF!vars
    BY FlowInvHolds, SameFlow
  <2>2. TF!TypeOK /\ TF!PoolLifetimes
    BY DEF FlowInv, TF!UsedOnceInv
  <2>3. TF!PoolsCached'
    BY <2>1, <2>2, TF!PoolsCachedSteps, LedgerAssumption, FormsAssumption
  <2> QED BY <2>1, <2>3
<1>3. TF!PoolsCached => Flow!PoolInCache
  BY DEF TF!PoolsCached, TF!PoolInCache, Flow!PoolInCache, Pooled, Cached, Sets, SetsOf,
         TF!ShortLived, Flow!ShortLived, TF!Lifetime, Flow!Lifetime,
         TF!HeadTime, Flow!HeadTime, TF!HeadNumber, Flow!HeadNumber, TF!TimeOf, Flow!TimeOf
<1> QED BY <1>1, <1>2, <1>3, PTL DEF Spec

-----------------------------------------------------------------------------
(* The books, as long as the keys of the pool stay *)

\* The stores, their sets and their books.
FullInv == FlowInv /\ PoolKeysStay /\ BooksInv

LEMMA FullStarts ==
  ASSUME Init, PoolKeysStay
  PROVE  FullInv
<1>1. FlowInv
  BY FlowStarts
<1> QED BY <1>1, BooksStart DEF FullInv

LEMMA FullSteps ==
  ASSUME TF!RewindsCovered, FullInv, PoolKeysStay', [Next]_vars
  PROVE  FullInv'
<1>1. FlowInv'
  BY FlowInvHolds DEF FullInv
<1>2. BooksInv'
  BY BooksHold DEF FullInv
<1> QED BY <1>1, <1>2 DEF FullInv

LEMMA FullHolds == Flow!RewindsCovered => (Spec /\ []PoolKeysStay => []FullInv)
<1> SUFFICES ASSUME Flow!RewindsCovered
             PROVE  Spec /\ []PoolKeysStay => []FullInv
  OBVIOUS
<1>1. Init /\ PoolKeysStay => FullInv
  BY FullStarts
<1>2. FullInv /\ PoolKeysStay' /\ [Next]_vars => FullInv'
  BY FullSteps, SameFlow
<1> QED BY <1>1, <1>2, PTL DEF Spec

\* The books of the chain and of the pool, as the proofs below use them.
LEMMA FullFacts ==
  ASSUME FullInv
  PROVE  \E h, s, u : /\ ChainPath(h, chain) /\ s = h[Len(chain)] /\ s \in Book /\ u \in Book
                      /\ Keeps(stores, u) /\ Reaches("pool", <<>>, s, u, stores.pool)
                      /\ stores.own = s.balance[Own]
<1>1. PICK h : Books(h, chain, stores)
  BY DEF FullInv, BooksInv
<1>2. PICK s : s = h[Len(chain)]
  OBVIOUS
<1>3. Len(chain) \in 1..Len(chain)
  BY FlowFacts DEF FullInv
<1>4. s \in Book
  BY <1>1, <1>2, <1>3 DEF Books, ChainPath
<1>5. PICK u \in Book : Keeps(stores, u) /\ Reaches("pool", <<>>, s, u, stores.pool)
  BY <1>1, <1>2 DEF Books, OnPool
<1>6. ChainPath(h, chain) /\ stores.own = s.balance[Own]
  BY <1>1, <1>2 DEF Books
<1> QED BY <1>2, <1>4, <1>5, <1>6

LEMMA FullTypes ==
  ASSUME FullInv
  PROVE  TypeOK
<1>1. FlowInv /\ TF!TypeOK
  BY DEF FullInv, FlowInv, TF!UsedOnceInv
<1>2. stores \in Stores /\ chain \in Seq(Block)
  BY <1>1, FlowFacts
<1>3. PICK h, s, u : /\ s \in Book /\ u \in Book /\ Keeps(stores, u) /\ stores.own = s.balance[Own]
  BY FullFacts
<1>4. DOMAIN stores = {"balance", "own", "files", "pool", "cache", "log"}
  BY <1>2 DEF Stores
<1>5. stores.balance \in [Address -> Nat] /\ stores.files \subseteq Uri
  BY <1>3 DEF Keeps, Book
<1>6. stores.own \in Nat
  <2>1. s.balance \in [Address -> Nat] /\ Own \in Address
    BY <1>3, BookFields, LedgerAssumption
  <2> QED BY <1>3, <2>1
<1>7. stores.pool \in Seq(Tx) /\ stores.cache \in Cache
  BY <1>2, StoresFields
<1>8. DOMAIN stores.cache \subseteq Tx /\ stores.cache \in [DOMAIN stores.cache -> BOOLEAN]
  BY <1>7 DEF Cache
<1>9. chain \in Seq([miner : Address, txs : Seq(Complete)])
  <2>1. ASSUME NEW i \in DOMAIN chain
        PROVE  chain[i] \in [miner : Address, txs : Seq(Complete)]
    <3>1. PICK b \in Block : b = chain[i]
      BY <1>2
    <3>2. b.txs \in Seq(Complete)
      BY <1>1, <3>1 DEF FlowInv, ChainShape, BlockShape
    <3> QED BY <3>1, <3>2 DEF Block
  <2>2. Len(chain) \in Nat /\ DOMAIN chain = 1..Len(chain) /\ chain = [i \in 1..Len(chain) |-> chain[i]]
    BY <1>2
  <2>3. PICK S : S = [miner : Address, txs : Seq(Complete)]
    OBVIOUS
  <2>4. chain \in [1..Len(chain) -> S]
    BY <2>1, <2>2, <2>3
  <2>5. chain \in Seq(S)
    BY <2>2, <2>4, SeqDef
  <2> QED BY <2>3, <2>5
<1>10. now \in 0..MaxTime /\ cleaned \in 0..MaxBlocks
  BY <1>1 DEF TF!TypeOK
<1> QED BY <1>4, <1>5, <1>6, <1>7, <1>8, <1>9, <1>10 DEF TypeOK

\* No handler takes coins that are not there: what decrease_balance of state and
\* node_accounts would throw for never happens when a transaction is applied, and
\* the same holds when transactions, rewards and the pool are taken off.
THEOREM TypeCorrect == Flow!RewindsCovered => (Spec /\ []PoolKeysStay => []TypeOK)
<1>1. FullInv => TypeOK
  BY FullTypes
<1> QED BY <1>1, FullHolds, PTL

-----------------------------------------------------------------------------
(* The chain applied again from the genesis block                           *)

\* A node that applies blocks again has accepted what it has seen so far, holds
\* the book s, and remembers the keys D.
Replaying(v, miner, s, D) ==
  v.ok /\ v.miner = miner /\ Keeps(v.w, s) /\ DOMAIN v.w.cache = D

\* A transaction that led from one book to the next is accepted.
LEMMA ReplayTx ==
  ASSUME NEW v \in Verdict, NEW miner \in Address, NEW s \in Book, NEW D, Replaying(v, miner, s, D),
         NEW u \in Book, NEW t \in Tx, TxStep(s, u, t, miner), Keys(t) \intersect D = {},
         NEW y, y = VerifyTransaction(v, t)
  PROVE  y \in Verdict /\ Replaying(y, miner, u, D \union Keys(t))
<1>1. PICK w \in Stores, e \in Cache : w = v.w /\ e = w.cache /\ DOMAIN e = D
  <2>1. v.w \in Stores
    BY DEF Verdict
  <2> QED BY <2>1, StoresFields DEF Replaying
<1>2. v.ok /\ v.miner = miner /\ Keeps(w, s)
  BY <1>1 DEF Replaying
<1>3. Applies(w, t)
  <2>1. Can(s, t)
    BY DEF TxStep
  <2> QED BY <1>2, <2>1, CanKept, AppliesIsCan
<1>4. CanAddChain(e, t)
  BY <1>1 DEF CanAddChain
<1>5. PICK x : x = [ChainApply(w, t, miner) EXCEPT !.cache = AddChain(@, t)]
  OBVIOUS
<1>6. x \in Stores /\ Joins(x, w, t, miner)
  BY <1>5, JoinsFields
<1>7. y = [v EXCEPT !.w = x]
  BY <1>1, <1>2, <1>3, <1>4, <1>5 DEF VerifyTransaction
<1>8. y \in Verdict /\ y.w = x /\ y.ok = v.ok /\ y.miner = v.miner
  BY <1>6, <1>7 DEF Verdict
<1>9. Keeps(x, u)
  BY <1>2, <1>6 DEF Keeps, Joins, TxStep
<1>10. DOMAIN x.cache = D \union Keys(t)
  <2>1. x.cache = AddChain(e, t)
    BY <1>1, <1>6 DEF Joins
  <2>2. DOMAIN AddChain(e, t) = DOMAIN e \union Keys(t)
    BY <1>4 DEF AddChain
  <2> QED BY <1>1, <2>1, <2>2
<1> QED BY <1>2, <1>8, <1>9, <1>10 DEF Replaying

\* The transactions of a block are accepted.
LEMMA ReplayTxs ==
  ASSUME NEW r \in Verdict, NEW miner \in Address, NEW s \in Book, NEW D, Replaying(r, miner, s, D),
         NEW z \in Book, NEW q \in Seq(Tx), Reaches("block", miner, s, z, q),
         Distinct(q), KeysDisjoint(ToSet(q)), KeysOf(ToSet(q)) \intersect D = {},
         NEW v, v = FoldLeft(VerifyTransaction, r, q)
  PROVE  v \in Verdict /\ Replaying(v, miner, z, D \union KeysOf(ToSet(q)))
<1>1. PICK f : LeftRun(f, "verify", <<>>, r, q) /\ v = f[Len(q)]
  BY VerifyRun
<1>2. PICK N \in Nat : N = Len(q) /\ DOMAIN q = 1..N
  OBVIOUS
<1>3. PICK p : Path(p, "block", miner, s, z, q)
  BY DEF Reaches
<1>4. /\ p[0] = s /\ p[N] = z /\ \A n \in 0..N : p[n] \in Book
      /\ \A n \in 1..N : TxStep(p[n - 1], p[n], q[n], miner)
  BY <1>2, <1>3 DEF Path, Leads
<1>5. PICK K : K = [n \in 0..N |-> {q[i] : i \in 1..n}]
  OBVIOUS
<1>6. /\ K[0] = {} /\ K[N] = ToSet(q)
      /\ \A n \in 1..N : K[n] = K[n - 1] \union {q[n]} /\ q[n] \in Tx /\ q[n] \notin K[n - 1]
      /\ \A n \in 0..N : K[n] \subseteq ToSet(q)
  BY <1>2, <1>5 DEF ToSet, Distinct
<1>7. PICK W : W = [n \in 0..N |-> {x \in Verdict : Replaying(x, miner, p[n], D \union KeysOf(K[n]))}]
  OBVIOUS
<1>8. \A n \in 0..N : W[n] = {x \in Verdict : Replaying(x, miner, p[n], D \union KeysOf(K[n]))}
  BY <1>7
<1>9. f[0] \in W[0]
  <2>1. f[0] = r /\ KeysOf(K[0]) = {}
    BY <1>1, <1>6 DEF LeftRun, KeysOf
  <2>2. D \union KeysOf(K[0]) = D
    BY <2>1
  <2>3. 0 \in 0..N
    OBVIOUS
  <2>4. W[0] = {x \in Verdict : Replaying(x, miner, p[0], D \union KeysOf(K[0]))}
    BY <1>8, <2>3
  <2>5. W[0] = {x \in Verdict : Replaying(x, miner, s, D)}
    BY <1>4, <2>2, <2>4
  <2> QED BY <2>1, <2>5
<1>10. ASSUME NEW n \in 1..N, f[n - 1] \in W[n - 1]
       PROVE  f[n] \in W[n]
  <2>1. n - 1 \in 0..N /\ n \in 0..N
    OBVIOUS
  <2>2. PICK t \in Tx : t = q[n]
    BY <1>6
  <2>3. PICK a \in Book, b \in Book : a = p[n - 1] /\ b = p[n] /\ TxStep(a, b, t, miner)
    BY <1>4, <2>1, <2>2
  <2>4. PICK E : E = D \union KeysOf(K[n - 1])
    OBVIOUS
  <2>5. PICK x \in Verdict : x = f[n - 1] /\ Replaying(x, miner, a, E)
    BY <1>8, <1>10, <2>1, <2>3, <2>4
  <2>6. f[n] = VerifyTransaction(x, t)
    BY <1>1, <1>2, <2>2, <2>5 DEF LeftRun, Do
  <2>7. Keys(t) \intersect E = {}
    <3>1. t \in ToSet(q) /\ t \notin K[n - 1] /\ K[n - 1] \subseteq ToSet(q)
      BY <1>2, <1>6, <2>1, <2>2 DEF ToSet
    <3>2. Keys(t) \intersect KeysOf(K[n - 1]) = {}
      BY <3>1 DEF KeysDisjoint, KeysOf
    <3>3. Keys(t) \intersect D = {}
      BY <3>1 DEF KeysOf
    <3> QED BY <2>4, <3>2, <3>3
  <2>8. f[n] \in Verdict /\ Replaying(f[n], miner, b, E \union Keys(t))
    BY <2>3, <2>5, <2>6, <2>7, ReplayTx
  <2>9. E \union Keys(t) = D \union KeysOf(K[n])
    <3>1. K[n] = K[n - 1] \union {t}
      BY <1>6, <2>2
    <3> QED BY <2>4, <3>1 DEF KeysOf
  <2> QED BY <1>8, <2>1, <2>3, <2>8, <2>9
<1>11. \A n \in 0..N : f[n] \in W[n]
  BY <1>9, <1>10, LeftReaches
<1>12. f[N] \in W[N] /\ W[N] = {x \in Verdict : Replaying(x, miner, p[N], D \union KeysOf(K[N]))}
  <2>1. N \in 0..N
    OBVIOUS
  <2>2. f[N] \in W[N]
    BY <1>11, <2>1
  <2>3. W[N] = {x \in Verdict : Replaying(x, miner, p[N], D \union KeysOf(K[N]))}
    BY <1>8, <2>1
  <2> QED BY <2>2, <2>3
<1> QED BY <1>1, <1>2, <1>4, <1>6, <1>12

\* The same between two blocks, whoever mined the last one.
Accepting(v, s, D) == v.ok /\ Keeps(v.w, s) /\ DOMAIN v.w.cache = D

\* A block that led from one book to the next is accepted.
LEMMA ReplayBlock ==
  ASSUME NEW r \in Verdict, NEW s \in Book, NEW D, Accepting(r, s, D),
         NEW u \in Book, NEW block \in Block, BlockStep(s, u, block),
         NEW S, S = ToSet(block.txs),
         Distinct(block.txs), KeysDisjoint(S), KeysOf(S) \intersect D = {},
         NEW y, y = VerifyBlock(r, block)
  PROVE  y \in Verdict /\ Accepting(y, u, D \union KeysOf(S))
<1>1. PICK m \in Address, q \in Seq(Tx) : m = block.miner /\ q = block.txs
  BY DEF Block
<1>2. PICK e \in Book : Reaches("block", m, s, e, q) /\ Closes(e, u, block)
  BY <1>1 DEF BlockStep
<1>3. PICK z : z = [r EXCEPT !.miner = m]
  OBVIOUS
<1>4. z \in Verdict /\ z.w = r.w /\ z.ok = r.ok /\ z.miner = m
  BY <1>3 DEF Verdict
<1>5. Replaying(z, m, s, D)
  BY <1>4 DEF Replaying, Accepting
<1>6. PICK v : v = FoldLeft(VerifyTransaction, z, q)
  OBVIOUS
<1>7. v \in Verdict /\ Replaying(v, m, e, D \union KeysOf(ToSet(q)))
  <2>1. KeysDisjoint(ToSet(q)) /\ KeysOf(ToSet(q)) \intersect D = {} /\ Distinct(q)
    BY <1>1
  <2> QED BY <1>2, <1>4, <1>5, <1>6, <2>1, ReplayTxs
<1>8. ~ (~ r.ok \/ r.w.balance[block.miner] < Threshold)
  <2>1. r.w.balance[m] = s.balance[m] /\ s.balance[m] \in Nat /\ Threshold \in Nat /\ r.ok
    BY BookFields, LedgerAssumption DEF Keeps, Accepting
  <2>2. s.balance[m] >= Threshold
    BY <1>1 DEF BlockStep
  <2> QED BY <1>1, <2>1, <2>2
<1>9. y = [v EXCEPT !.w = CloseBlock(@, block)]
  BY <1>1, <1>3, <1>6, <1>8 DEF VerifyBlock
<1>10. PICK x \in Stores : x = v.w /\ Keeps(x, e) /\ DOMAIN x.cache = D \union KeysOf(S) /\ v.ok
  <2>1. v.w \in Stores
    BY <1>7 DEF Verdict
  <2> QED BY <1>1, <1>7, <2>1 DEF Replaying
<1>11. PICK k : k = CloseBlock(x, block)
  OBVIOUS
<1>12. k \in Stores
  BY <1>11, CloseBlockFields
<1>13. y \in Verdict /\ y.w = k /\ y.ok = v.ok
  BY <1>7, <1>9, <1>10, <1>11, <1>12 DEF Verdict
<1>14. /\ k.balance = [c \in Address |-> x.balance[c] + (IF c = block.miner THEN Emission ELSE 0)]
       /\ k.log = Append(x.log, <<"block", block>>)
  BY <1>11, CloseBlockFields
<1>15. k.files = x.files /\ k.cache = x.cache
  BY <1>11, CloseBlockFields, ZenonT(30)
<1>16. Keeps(k, u)
  BY <1>2, <1>10, <1>14, <1>15 DEF Keeps, Closes
<1> QED BY <1>10, <1>13, <1>15, <1>16 DEF Accepting

\* The blocks of the chain are accepted, one after the other.
LEMMA ReplayChain ==
  ASSUME FlowInv, NEW h, ChainPath(h, chain)
  PROVE  Replayed \in Verdict /\ Replayed.ok /\ Keeps(Replayed.w, h[Len(chain)])
<1>1. PICK c \in Seq(Block), N \in Nat : c = chain /\ Len(c) = N + 1 /\ DOMAIN c = 1..(N + 1) /\ c # <<>>
  <2>1. chain \in Seq(Block) /\ HeadNumber \in Nat /\ Len(chain) = HeadNumber + 1
    BY FlowFacts
  <2> QED BY <2>1
<1>2. PICK q \in Seq(Block) : q = Tail(c) /\ Len(q) = N /\ \A n \in 1..N : q[n] = c[n + 1]
  <2>1. PICK q : q = Tail(c)
    OBVIOUS
  <2>2. q \in Seq(Block) /\ Len(q) = Len(c) - 1 /\ \A i \in 1..Len(q) : q[i] = c[i + 1]
    BY <1>1, <2>1, HeadTailProperties
  <2>3. Len(q) = N
    BY <1>1, <2>2
  <2> QED BY <2>1, <2>2, <2>3
<1>3. PICK w : w = Fresh
  OBVIOUS
<1>4. w \in Stores /\ Keeps(w, GenesisBook) /\ DOMAIN w.cache = {}
  <2>1. Genesis \in [Address -> Nat] /\ Own \in Address
    BY LedgerAssumption
  <2>2. Genesis \in [Address -> Int] /\ Genesis[Own] \in Int
    BY <2>1
  <2>3. <<>> \in Seq(Tx) /\ {} \in SUBSET Uri
    OBVIOUS
  <2>4. <<>> \in Cache
    <3>1. <<>> \in [{} -> BOOLEAN] /\ {} \in SUBSET Tx
      OBVIOUS
    <3> QED BY <3>1 DEF Cache
  <2>5. <<<<"block", GenesisBlock>>>> \in Seq(Entry)
    BY GenesisBookType DEF GenesisBook, Book
  <2> HIDE DEF GenesisBlock, Entry, Cache
  <2>6. w \in Stores
    BY <1>3, <2>2, <2>3, <2>4, <2>5 DEF Fresh, Stores
  <2>7. Keeps(w, GenesisBook) /\ DOMAIN w.cache = {}
    BY <1>3 DEF Fresh, Keeps, GenesisBook
  <2> QED BY <2>6, <2>7
<1>5. PICK a \in Verdict : a = [w |-> w, ok |-> TRUE, miner |-> Own] /\ a.w = w /\ a.ok = TRUE
  <2>1. PICK a : a = [w |-> w, ok |-> TRUE, miner |-> Own]
    OBVIOUS
  <2>2. Own \in Address
    BY LedgerAssumption
  <2>3. a \in Verdict
    BY <1>4, <2>1, <2>2 DEF Verdict
  <2> QED BY <2>1, <2>3
<1>6. PICK r : r = FoldLeft(VerifyBlock, a, q) /\ r = Replayed
  BY <1>1, <1>2, <1>3, <1>5 DEF Replayed
<1>7. PICK f : LeftRun(f, "block", <<>>, a, q) /\ r = f[N]
  BY <1>2, <1>6, BlockRun
<1>8. /\ h[1] = GenesisBook
      /\ \A i \in 1..(N + 1) : h[i] \in Book
      /\ \A i \in 2..(N + 1) : BlockStep(h[i - 1], h[i], c[i])
  BY <1>1 DEF ChainPath
<1>9. PICK T : T = [n \in 0..N |-> UNION {Txs(i) : i \in 1..(n + 1)}]
  OBVIOUS
<1>10. /\ \A n \in 1..N : T[n] = T[n - 1] \union Txs(n + 1)
       /\ T[0] = Txs(1)
  <2>1. ASSUME NEW n \in 1..N
        PROVE  T[n] = T[n - 1] \union Txs(n + 1)
    <3>1. n - 1 \in 0..N /\ n \in 0..N /\ (n - 1) + 1 = n
      OBVIOUS
    <3>2. T[n] = UNION {Txs(i) : i \in 1..(n + 1)} /\ T[n - 1] = UNION {Txs(i) : i \in 1..n}
      BY <1>9, <3>1
    <3>3. 1..(n + 1) = (1..n) \union {n + 1}
      OBVIOUS
    <3> QED BY <3>2, <3>3
  <2>2. 0 \in 0..N /\ 1..(0 + 1) = {1}
    OBVIOUS
  <2>3. T[0] = UNION {Txs(i) : i \in 1..(0 + 1)}
    BY <1>9, <2>2
  <2>4. T[0] = Txs(1)
    BY <2>2, <2>3
  <2> QED BY <2>1, <2>4
<1>11. PICK W : W = [n \in 0..N |-> {x \in Verdict : Accepting(x, h[n + 1], KeysOf(T[n]))}]
  OBVIOUS
<1>12. \A n \in 0..N : W[n] = {x \in Verdict : Accepting(x, h[n + 1], KeysOf(T[n]))}
  BY <1>11
<1>13. f[0] \in W[0]
  <2>1. f[0] = a
    BY <1>7 DEF LeftRun
  <2>2. KeysOf(T[0]) = {}
    <3>1. chain[1] = GenesisBlock
      BY DEF FlowInv, ChainShape
    <3>2. Txs(1) = {}
      BY <3>1 DEF Txs, GenesisBlock, ToSet
    <3> QED BY <1>10, <3>2 DEF KeysOf
  <2>3. Accepting(a, GenesisBook, {})
    BY <1>4, <1>5 DEF Accepting
  <2>4. 0 \in 0..N /\ 0 + 1 = 1
    OBVIOUS
  <2>5. W[0] = {x \in Verdict : Accepting(x, h[0 + 1], KeysOf(T[0]))}
    BY <1>12, <2>4
  <2>6. W[0] = {x \in Verdict : Accepting(x, GenesisBook, {})}
    BY <1>8, <2>2, <2>4, <2>5
  <2> QED BY <2>1, <2>3, <2>6
<1>14. ASSUME NEW n \in 1..N, f[n - 1] \in W[n - 1]
       PROVE  f[n] \in W[n]
  <2>1. n - 1 \in 0..N /\ n \in 0..N /\ (n - 1) + 1 = n /\ n \in 1..(N + 1) /\ n + 1 \in 2..(N + 1) /\ (n + 1) - 1 = n
        /\ n + 1 \in 1..(N + 1)
    OBVIOUS
  <2>2. PICK b \in Block : b = c[n + 1]
    BY <1>1, <2>1
  <2>3. PICK s \in Book, u \in Book : s = h[n] /\ u = h[n + 1] /\ BlockStep(s, u, b)
    BY <1>8, <2>1, <2>2
  <2>4. PICK D : D = KeysOf(T[n - 1])
    OBVIOUS
  <2>5. PICK x \in Verdict : x = f[n - 1] /\ Accepting(x, s, D)
    <3>1. W[n - 1] = {x \in Verdict : Accepting(x, h[(n - 1) + 1], KeysOf(T[n - 1]))}
      BY <1>12, <2>1
    <3> QED BY <1>14, <2>1, <2>3, <2>4, <3>1
  <2>6. f[n] = VerifyBlock(x, b)
    BY <1>2, <1>7, <2>2, <2>5 DEF LeftRun, Do
  <2>7. PICK S : S = ToSet(b.txs) /\ S = Txs(n + 1)
    BY <1>1, <2>2 DEF Txs
  <2>8. Distinct(b.txs)
    BY <1>1, <2>1, <2>2 DEF FlowInv, ChainShape, BlockShape
  <2>9. KeysDisjoint(S)
    <3>1. UsedOnce
      BY FlowFacts
    <3> QED BY <1>1, <2>1, <2>7, <3>1 DEF UsedOnce, KeysDisjoint
  <2>10. KeysOf(S) \intersect D = {}
    <3>1. UsedOnce
      BY FlowFacts
    <3>2. T[n - 1] = UNION {Txs(i) : i \in 1..n}
      BY <1>9, <2>1
    <3>3. ASSUME NEW t \in S, NEW v \in T[n - 1]
          PROVE  Keys(t) \intersect Keys(v) = {}
      <4>1. PICK i \in 1..n : v \in Txs(i)
        BY <3>2
      <4>2. i \in DOMAIN chain /\ n + 1 \in DOMAIN chain /\ i # n + 1
        BY <1>1, <2>1
      <4> QED BY <2>7, <3>1, <4>1, <4>2 DEF UsedOnce
    <3> QED BY <2>4, <3>3 DEF KeysOf
  <2>11. PICK y : y = f[n]
    OBVIOUS
  <2>12. y \in Verdict /\ Accepting(y, u, D \union KeysOf(S))
    BY <2>3, <2>5, <2>6, <2>7, <2>8, <2>9, <2>10, <2>11, ReplayBlock
  <2>13. D \union KeysOf(S) = KeysOf(T[n])
    BY <1>10, <2>4, <2>7 DEF KeysOf
  <2> QED BY <1>12, <2>1, <2>3, <2>11, <2>12, <2>13
<1>15. \A n \in 0..N : f[n] \in W[n]
  BY <1>13, <1>14, LeftReaches
<1>16. r \in Verdict /\ Accepting(r, h[N + 1], KeysOf(T[N]))
  <2>1. N \in 0..N
    OBVIOUS
  <2>2. W[N] = {x \in Verdict : Accepting(x, h[N + 1], KeysOf(T[N]))}
    BY <1>12, <2>1
  <2> QED BY <1>7, <1>15, <2>1, <2>2
<1> QED BY <1>1, <1>6, <1>16 DEF Accepting

-----------------------------------------------------------------------------
(* The pool applied on top of it                                            *)

\* The incomplete transactions of the pool change no book.
LEMMA AppliedReaches ==
  ASSUME NEW s \in Book, NEW u \in Book, NEW q \in Seq(Tx), Reaches("pool", <<>>, s, u, q)
  PROVE  Those(q, Complete) \in Seq(Complete) /\ Reaches("pool", <<>>, s, u, Those(q, Complete))
<1>1. PICK f : LeftRun(f, "keep", Complete, <<>>, q) /\ Those(q, Complete) = f[Len(q)]
  BY KeepRun
<1>2. PICK p : Path(p, "pool", <<>>, s, u, q)
  BY DEF Reaches
<1>3. PICK N \in Nat : N = Len(q) /\ DOMAIN q = 1..N
  OBVIOUS
<1>4. /\ p[0] = s /\ p[N] = u /\ \A n \in 0..N : p[n] \in Book
      /\ \A n \in 1..N : PoolStep(p[n - 1], p[n], q[n]) /\ q[n] \in Tx
  BY <1>2, <1>3 DEF Path, Leads
<1>5. PICK W : W = [n \in 0..N |-> {x \in Seq(Complete) : Reaches("pool", <<>>, s, p[n], x)}]
  OBVIOUS
<1>6. \A n \in 0..N : W[n] = {x \in Seq(Complete) : Reaches("pool", <<>>, s, p[n], x)}
  BY <1>5
<1>7. f[0] \in W[0]
  <2>1. 0 \in 0..N /\ <<>> \in Seq(Complete)
    OBVIOUS
  <2>2. W[0] = {x \in Seq(Complete) : Reaches("pool", <<>>, s, p[0], x)}
    BY <1>6, <2>1
  <2>3. f[0] = <<>>
    BY <1>1 DEF LeftRun
  <2>4. Reaches("pool", <<>>, s, s, <<>>)
    BY ReachesItself
  <2> QED BY <1>4, <2>1, <2>2, <2>3, <2>4
<1>8. ASSUME NEW n \in 1..N, f[n - 1] \in W[n - 1]
      PROVE  f[n] \in W[n]
  <2>1. n - 1 \in 0..N /\ n \in 0..N
    OBVIOUS
  <2>2. PICK x \in Seq(Complete) : x = f[n - 1] /\ Reaches("pool", <<>>, s, p[n - 1], x)
    BY <1>6, <1>8, <2>1
  <2>3. f[n] = IF q[n] \in Complete THEN Append(x, q[n]) ELSE x
    BY <1>1, <1>3, <2>2 DEF LeftRun, Do
  <2>4. PICK a \in Book, b \in Book : a = p[n - 1] /\ b = p[n] /\ PoolStep(a, b, q[n])
    BY <1>4, <2>1
  <2>5. CASE q[n] \in Complete
    <3>1. PICK t \in Complete : t = q[n]
      BY <2>5
    <3>2. Leads("pool", <<>>, a, b, t)
      BY <2>4, <3>1 DEF Leads
    <3>3. PICK y \in Seq(Complete) : y = Append(x, t)
      BY AppendProperties
    <3>4. Reaches("pool", <<>>, s, b, Append(x, t))
      BY <2>2, <2>4, <3>2, ReachesFurther
    <3> QED BY <1>6, <2>1, <2>3, <2>4, <2>5, <3>1, <3>3, <3>4
  <2>6. CASE q[n] \notin Complete
    <3>1. b = a
      BY <2>4, <2>6 DEF PoolStep
    <3> QED BY <1>6, <2>1, <2>2, <2>3, <2>4, <2>6, <3>1
  <2> QED BY <2>5, <2>6
<1>9. \A n \in 0..N : f[n] \in W[n]
  BY <1>7, <1>8, LeftReaches
<1>10. f[N] \in Seq(Complete) /\ Reaches("pool", <<>>, s, p[N], f[N])
  <2>1. N \in 0..N
    OBVIOUS
  <2>2. W[N] = {x \in Seq(Complete) : Reaches("pool", <<>>, s, p[N], x)}
    BY <1>6, <2>1
  <2> QED BY <1>9, <2>1, <2>2
<1> QED BY <1>1, <1>3, <1>4, <1>10

\* Applied to stores with the accounts and files of the first book, they lead to
\* those of the last one.
LEMMA AppliedState ==
  ASSUME NEW s \in Book, NEW u \in Book, NEW q \in Seq(Complete), Reaches("pool", <<>>, s, u, q),
         NEW w \in Stores, w.balance = s.balance, w.files = s.files
  PROVE  LET Applied(v, t) == ActionApply(v, t, "pool")
         IN  /\ FoldLeft(Applied, w, q).balance = u.balance
             /\ FoldLeft(Applied, w, q).files = u.files
<1> DEFINE Applied(v, t) == ActionApply(v, t, "pool")
<1>1. PICK f : LeftRun(f, "apply", <<>>, w, q) /\ FoldLeft(Applied, w, q) = f[Len(q)]
  BY ApplyRun
<1>2. PICK z : z = FoldLeft(Applied, w, q) /\ z = f[Len(q)]
  BY <1>1
<1> HIDE DEF Applied
<1>3. PICK p : Path(p, "pool", <<>>, s, u, q)
  BY DEF Reaches
<1>4. PICK N \in Nat : N = Len(q) /\ DOMAIN q = 1..N
  OBVIOUS
<1>5. /\ p[0] = s /\ p[N] = u /\ \A n \in 0..N : p[n] \in Book
      /\ \A n \in 1..N : PoolStep(p[n - 1], p[n], q[n]) /\ q[n] \in Complete
  BY <1>3, <1>4 DEF Path, Leads
<1>6. PICK W : W = [n \in 0..N |-> {v \in Stores : v.balance = p[n].balance /\ v.files = p[n].files}]
  OBVIOUS
<1>7. \A n \in 0..N : W[n] = {v \in Stores : v.balance = p[n].balance /\ v.files = p[n].files}
  BY <1>6
<1>8. f[0] \in W[0]
  <2>1. 0 \in 0..N
    OBVIOUS
  <2>2. W[0] = {v \in Stores : v.balance = p[0].balance /\ v.files = p[0].files}
    BY <1>7, <2>1
  <2>3. f[0] = w
    BY <1>1 DEF LeftRun
  <2> QED BY <1>5, <2>2, <2>3
<1>9. ASSUME NEW n \in 1..N, f[n - 1] \in W[n - 1]
      PROVE  f[n] \in W[n]
  <2>1. n - 1 \in 0..N /\ n \in 0..N
    OBVIOUS
  <2>2. PICK v \in Stores : v = f[n - 1] /\ v.balance = p[n - 1].balance /\ v.files = p[n - 1].files
    BY <1>7, <1>9, <2>1
  <2>3. PICK t \in Tx : t = q[n] /\ t \in Complete
    BY <1>5, LedgerAssumption
  <2>4. PICK x : x = ActionApply(v, t, "pool") /\ x = f[n]
    BY <1>1, <1>4, <2>2, <2>3 DEF LeftRun, Do
  <2>5. x \in Stores
    BY <2>4, ActionApplyFields
  <2>6. x.balance = ActionMoves(v.balance, t) /\ x.files = v.files \union NewFiles(t)
    BY <2>4, ActionApplyFields
  <2>7. p[n].balance = ActionMoves(p[n - 1].balance, t) /\ p[n].files = p[n - 1].files \union NewFiles(t)
    BY <1>5, <2>3 DEF PoolStep
  <2>8. x.balance = p[n].balance /\ x.files = p[n].files
    BY <2>2, <2>6, <2>7
  <2>9. W[n] = {y \in Stores : y.balance = p[n].balance /\ y.files = p[n].files}
    BY <1>7, <2>1
  <2> QED BY <2>4, <2>5, <2>8, <2>9
<1>10. \A n \in 0..N : f[n] \in W[n]
  BY <1>8, <1>9, LeftReaches
<1>11. f[N].balance = u.balance /\ f[N].files = u.files
  <2>1. N \in 0..N
    OBVIOUS
  <2>2. W[N] = {v \in Stores : v.balance = p[N].balance /\ v.files = p[N].files}
    BY <1>7, <2>1
  <2> QED BY <1>5, <1>10, <2>1, <2>2
<1>12. z.balance = u.balance /\ z.files = u.files
  BY <1>2, <1>4, <1>11
<1>13. z = FoldLeft(Applied, w, q)
  BY <1>2
<1> QED BY <1>12, <1>13 DEF Applied

\* Each of them has left one entry in the log.
LEMMA AppliedLog ==
  ASSUME NEW s \in Book, NEW u \in Book, NEW q \in Seq(Complete), Reaches("pool", <<>>, s, u, q)
  PROVE  u.log = s.log \o [n \in DOMAIN q |-> <<"tx", q[n]>>]
<1>1. PICK p : Path(p, "pool", <<>>, s, u, q)
  BY DEF Reaches
<1>2. PICK N \in Nat : N = Len(q) /\ DOMAIN q = 1..N
  OBVIOUS
<1>3. /\ p[0] = s /\ p[N] = u
      /\ \A n \in 1..N : PoolStep(p[n - 1], p[n], q[n]) /\ q[n] \in Complete
  BY <1>1, <1>2 DEF Path, Leads
<1>4. PICK e : e = [n \in 1..N |-> <<"tx", q[n]>>]
  OBVIOUS
<1>5. ASSUME NEW n \in 1..N
      PROVE  e[n] \in Entry /\ e[n] = <<"tx", q[n]>>
  <2>1. q[n] \in Tx
    BY <1>3, LedgerAssumption
  <2> QED BY <1>4, <2>1 DEF Entry
<1>6. e \in Seq(Entry) /\ Len(e) = N
  <2>1. e \in [1..N -> Entry]
    BY <1>4, <1>5
  <2> QED BY <2>1, SeqDef
<1>7. PICK g \in Seq(Entry) : g = s.log
  BY BookFields
<1>9. PICK V : V = [n \in 0..N |-> {x \in {p[n]} : x.log = g \o SubSeq(e, 1, n)}]
  OBVIOUS
<1>10. \A n \in 0..N : V[n] = {x \in {p[n]} : x.log = g \o SubSeq(e, 1, n)}
  BY <1>9
<1>11. p[0] \in V[0]
  <2>1. 0 \in 0..N
    OBVIOUS
  <2>2. V[0] = {x \in {p[0]} : x.log = g \o SubSeq(e, 1, 0)}
    BY <1>10, <2>1
  <2>3. SubSeq(e, 1, 0) = <<>>
    BY <1>6, PrefixGrows
  <2>4. g \o <<>> = g
    BY ConcatEmptySeq
  <2> QED BY <1>3, <1>7, <2>2, <2>3, <2>4
<1>12. ASSUME NEW n \in 1..N, p[n - 1] \in V[n - 1]
       PROVE  p[n] \in V[n]
  <2>1. n - 1 \in 0..N /\ n \in 0..N
    OBVIOUS
  <2>2. p[n - 1].log = g \o SubSeq(e, 1, n - 1)
    BY <1>10, <1>12, <2>1
  <2>3. PICK x \in Entry : x = e[n] /\ x = <<"tx", q[n]>>
    BY <1>5
  <2>4. p[n].log = Append(p[n - 1].log, x)
    BY <1>3, <2>3 DEF PoolStep
  <2>5. PICK d \in Seq(Entry) : d = SubSeq(e, 1, n - 1)
    BY <1>6, <2>1, PrefixGrows
  <2>6. SubSeq(e, 1, n) = Append(d, x)
    <3>1. n \in 1..Len(e)
      BY <1>6
    <3>2. SubSeq(e, 1, n) = Append(SubSeq(e, 1, n - 1), e[n])
      BY <1>6, <3>1, PrefixGrows
    <3> QED BY <2>3, <2>5, <3>2
  <2>7. g \o Append(d, x) = Append(g \o d, x)
    BY ConcatGrows
  <2>8. p[n].log = g \o SubSeq(e, 1, n)
    BY <2>2, <2>4, <2>5, <2>6, <2>7
  <2> QED BY <1>10, <2>1, <2>8
<1>13. \A n \in 0..N : p[n] \in V[n]
  BY <1>11, <1>12, LeftReaches
<1>14. u.log = g \o SubSeq(e, 1, N)
  <2>1. N \in 0..N
    OBVIOUS
  <2> QED BY <1>3, <1>10, <1>13, <2>1
<1>15. SubSeq(e, 1, N) = e
  BY <1>6, PrefixGrows
<1>16. e = [n \in DOMAIN q |-> <<"tx", q[n]>>]
  BY <1>2, <1>4
<1> QED BY <1>7, <1>14, <1>15, <1>16

-----------------------------------------------------------------------------
(* The stores are those of the chain replayed, followed by the pool         *)

\* The book of the chain is what comes of applying it again, and the applied pool
\* leads from it to the stores.
LEMMA ReplayFacts ==
  ASSUME FullInv
  PROVE  \E s, u : /\ s \in Book /\ u \in Book
                   /\ Replayed \in Verdict /\ Replayed.ok /\ Keeps(Replayed.w, s)
                   /\ Keeps(stores, u) /\ stores.own = s.balance[Own]
                   /\ AppliedPool \in Seq(Complete)
                   /\ Reaches("pool", <<>>, s, u, AppliedPool)
<1>1. PICK h, s, u : /\ ChainPath(h, chain) /\ s = h[Len(chain)] /\ s \in Book /\ u \in Book
                     /\ Keeps(stores, u) /\ Reaches("pool", <<>>, s, u, stores.pool)
                     /\ stores.own = s.balance[Own]
  BY FullFacts
<1>2. FlowInv
  BY DEF FullInv
<1>3. Replayed \in Verdict /\ Replayed.ok /\ Keeps(Replayed.w, s)
  BY <1>1, <1>2, ReplayChain
<1>4. PICK q \in Seq(Tx) : q = stores.pool
  BY <1>2, FlowFacts
<1>5. Those(q, Complete) \in Seq(Complete) /\ Reaches("pool", <<>>, s, u, Those(q, Complete))
  BY <1>1, <1>4, AppliedReaches
<1>6. AppliedPool = Those(q, Complete)
  BY <1>4 DEF AppliedPool
<1> QED BY <1>1, <1>3, <1>5, <1>6

LEMMA FullReplay ==
  ASSUME FullInv
  PROVE  StateIsReplay
<1> DEFINE Applied(w, t) == ActionApply(w, t, "pool")
<1>1. PICK s, u : /\ s \in Book /\ u \in Book
                  /\ Replayed \in Verdict /\ Replayed.ok /\ Keeps(Replayed.w, s)
                  /\ Keeps(stores, u) /\ stores.own = s.balance[Own]
                  /\ AppliedPool \in Seq(Complete)
                  /\ Reaches("pool", <<>>, s, u, AppliedPool)
  BY ReplayFacts
<1>2. PICK w \in Stores : w = Replayed.w /\ w.balance = s.balance /\ w.files = s.files
  BY <1>1 DEF Verdict, Keeps
<1>3. PICK q \in Seq(Complete) : q = AppliedPool /\ Reaches("pool", <<>>, s, u, q)
  BY <1>1
<1>4. s \in Book /\ u \in Book
  BY <1>1
<1>5. FoldLeft(Applied, w, q).balance = u.balance /\ FoldLeft(Applied, w, q).files = u.files
  BY <1>2, <1>3, <1>4, AppliedState, ZenonT(30)
<1>6. PICK z : z = FoldLeft(Applied, w, q)
  OBVIOUS
<1>7. stores.balance = z.balance /\ stores.files = z.files /\ stores.own = w.balance[Own]
  BY <1>1, <1>2, <1>5, <1>6 DEF Keeps
<1> QED BY <1>2, <1>3, <1>6, <1>7 DEF StateIsReplay

LEMMA FullLog ==
  ASSUME FullInv
  PROVE  LogIsChainThenPool
<1>1. PICK s, u : /\ s \in Book /\ u \in Book
                  /\ Replayed \in Verdict /\ Replayed.ok /\ Keeps(Replayed.w, s)
                  /\ Keeps(stores, u) /\ stores.own = s.balance[Own]
                  /\ AppliedPool \in Seq(Complete)
                  /\ Reaches("pool", <<>>, s, u, AppliedPool)
  BY ReplayFacts
<1>2. stores.log = Replayed.w.log \o [n \in DOMAIN AppliedPool |-> <<"tx", AppliedPool[n]>>]
  BY <1>1, AppliedLog DEF Keeps
<1>3. PICK q \in Seq(Tx) : q = stores.pool
  BY FlowFacts DEF FullInv
<1>4. Distinct(q) /\ \A n \in DOMAIN q : FlagTold(stores.cache, q[n])
  BY <1>3 DEF FullInv, BooksInv, Tells, Flags
<1>5. ASSUME NEW n \in DOMAIN q
      PROVE  /\ q[n] \in DOMAIN stores.cache
             /\ stores.cache[q[n]] = (q[n] \in Complete)
             /\ \A m \in 1..(n - 1) : q[m] # q[n]
  <2>1. FlagTold(stores.cache, q[n])
    BY <1>4
  <2>2. \A m \in 1..(n - 1) : m \in DOMAIN q /\ m # n
    OBVIOUS
  <2>3. \A m \in 1..(n - 1) : q[m] # q[n]
    BY <1>4, <2>2 DEF Distinct
  <2> QED BY <2>1, <2>3, Zenon DEF FlagTold
<1> QED BY <1>2, <1>3, <1>5, Zenon DEF LogIsChainThenPool

LEMMA FullAcceptable ==
  ASSUME FullInv
  PROVE  ChainIsAcceptable
<1>1. Replayed.ok
  BY ReplayFacts
<1>2. FlowInv /\ TF!BlocksHoldLiveTransactions
  BY DEF FullInv, FlowInv, TF!UsedOnceInv
<1>3. ASSUME NEW i \in 2..Len(chain)
      PROVE  WellFormed(chain[i], TimeOf(i - 1))
  <2>1. i \in DOMAIN chain
    BY <1>2, FlowFacts
  <2>2. PICK b \in Block : b = chain[i]
    BY <1>2, <2>1, FlowFacts
  <2>3. BlockShape(b)
    BY <1>2, <2>1, <2>2 DEF FlowInv, ChainShape
  <2>4. Len(b.txs) <= BlockMax
    BY <2>3 DEF BlockShape
  <2>5. ASSUME NEW n \in DOMAIN b.txs
        PROVE  b.txs[n] \in Complete /\ ValidAt(b.txs[n], TimeOf(i - 1), 0)
    <3>1. b.txs[n] \in Complete
      BY <2>3 DEF BlockShape
    <3>2. b.txs[n] \in Sets[i] /\ i \in DOMAIN Sets
      <4>1. Sets[i] = Txs(i) /\ DOMAIN Sets = DOMAIN chain
        BY <1>2, <2>1, FlowFacts
      <4> QED BY <2>1, <2>2, <4>1 DEF Txs, ToSet
    <3>3. TF!ValidAt(b.txs[n], TF!TimeOf(i - 1), 0)
      BY <1>2, <3>2 DEF TF!BlocksHoldLiveTransactions
    <3> QED BY <3>1, <3>3, SameWords
  <2>6. \A m, n \in DOMAIN b.txs : m < n => Creation[b.txs[m]] <= Creation[b.txs[n]]
    BY <2>3 DEF BlockShape, Sorted
  <2> QED BY <2>2, <2>4, <2>5, <2>6 DEF WellFormed
<1> QED BY <1>1, <1>3 DEF ChainIsAcceptable

\* The accounts and files of state and documents are those of the chain applied
\* again from the genesis block, followed by the complete transactions of the pool,
\* and node_accounts are those of the chain alone: what revert_pool, revert_blocks
\* and the put-backs take off and put on is always the same.
THEOREM StoresAreReplay ==
  Flow!RewindsCovered => (Spec /\ []PoolKeysStay => []StateIsReplay)
<1>1. FullInv => StateIsReplay
  BY FullReplay
<1> QED BY <1>1, FullHolds, PTL

\* What the node holds as its chain, mined or received, another node accepts from
\* the genesis block on: mine_block makes no block that session_action_block
\* refuses.
THEOREM ChainStaysAcceptable ==
  Flow!RewindsCovered => (Spec /\ []PoolKeysStay => []ChainIsAcceptable)
<1>1. FullInv => ChainIsAcceptable
  BY FullAcceptable
<1> QED BY <1>1, FullHolds, PTL

\* The action log tells of the blocks of the chain and then of the pool
\* transactions that are applied, and the flag of every pool transaction in the
\* cache says whether it is.
THEOREM LogTellsChainThenPool ==
  Flow!RewindsCovered => (Spec /\ []PoolKeysStay => []LogIsChainThenPool)
<1>1. FullInv => LogIsChainThenPool
  BY FullLog
<1> QED BY <1>1, FullHolds, PTL
=============================================================================
