---------------------------- MODULE LedgerProofs ----------------------------
(***************************************************************************)
(* Proofs about Ledger, for every finite set of accounts and transactions  *)
(* and every value of the other constants:                                 *)
(*                                                                         *)
(*   CoinsAreConserved  the coins in the accounts are those of the genesis *)
(*                      block and of the rewards of the blocks             *)
(*   LedgerImplementsFlow  every handler is one of TransactionFlow, if the *)
(*                      rewinds are covered by the age of a cleaned key    *)
(*                                                                         *)
(* A handler is a chain of folds over the pool, the blocks and their       *)
(* transactions.  For the coins there is one lemma for each fold: from     *)
(* stores that hold some number of coins it leads to stores that hold as   *)
(* many, or an emission more or less for every block put on or taken off.  *)
(*                                                                         *)
(* For the implementation, Table and the ...Run lemmas give each fold one  *)
(* value per element.  The ...Fields lemmas say what one step does to the  *)
(* stores, the ...Keys lemmas what a fold does to the pool and to the keys *)
(* of the cache, and the ...Flows lemmas that this is what TransactionFlow *)
(* says of the sets.                                                       *)
(***************************************************************************)
EXTENDS Ledger, Induction, SequenceTheorems

-----------------------------------------------------------------------------
(* What the stores are made of *)

Block == [miner : Address, txs : Seq(Tx)]
Entry == ({"tx"} \X Tx) \union ({"block"} \X Block)
Cache == UNION {[D -> BOOLEAN] : D \in SUBSET Tx}
Stores ==
  [balance : [Address -> Int], own : Int, files : SUBSET Uri,
   pool : Seq(Tx), cache : Cache, log : Seq(Entry)]

Coins(w) == SumOver(w.balance, Address)

\* Stores with k coins in the accounts.
Holding(k) == {w \in Stores : Coins(w) = k}

\* What an action names are accounts and uris.
LEMMA ActionNames ==
  ASSUME NEW t \in Tx
  PROVE  /\ Owner(t) \in Address
         /\ Fee[t] \in Int
         /\ Action[t].type = "Transfer" => /\ Action[t].from \in Address
                                           /\ Action[t].to \in Address
                                           /\ Action[t].amount \in Int
         /\ Action[t].type # "Transfer" => Action[t].uri \in Uri
<1>1. Fee[t] \in Int
  BY LedgerAssumption
<1>2. CASE Action[t].type = "Transfer"
  BY <1>1, <1>2, LedgerAssumption DEF Owner
<1>3. CASE Action[t].type # "Transfer"
  <2>1. /\ Action[t].authors \in Seq(Address) \ {<<>>}
        /\ Action[t].uri \in Uri
    BY <1>3, LedgerAssumption
  <2>2. Action[t].authors[1] \in Address
    BY <2>1
  <2> QED BY <1>1, <1>3, <2>1, <2>2 DEF Owner
<1> QED BY <1>2, <1>3

\* Coins are put into an account, or taken out of it.
LEMMA PayHolds ==
  ASSUME NEW k \in Int, NEW w \in Holding(k), NEW a \in Address, NEW x \in Int, NEW layer
  PROVE  Pay(w, a, x, layer) \in Holding(k + x)
<1>1. w \in Stores /\ Coins(w) = k
  BY DEF Holding
<1>2. CASE x = 0
  BY <1>1, <1>2 DEF Pay, Holding
<1>3. CASE x # 0
  <2>1. PICK b \in [Address -> Int] : b = w.balance
    BY <1>1 DEF Stores
  <2>2. PICK y \in Int : y = b[a] + x
    OBVIOUS
  <2>3. PICK e \in [Address -> Int] : e = [b EXCEPT ![a] = y]
    OBVIOUS
  <2>4. PICK o \in Int : o = IF layer = "chain" /\ a = Own THEN y ELSE w.own
    BY <1>1 DEF Stores
  <2>5. Pay(w, a, x, layer) = [w EXCEPT !.balance = e, !.own = o]
    BY <1>3, <2>1, <2>2, <2>3, <2>4 DEF Pay
  <2>6. [w EXCEPT !.balance = e, !.own = o] \in Stores
    BY <1>1 DEF Stores
  <2>7. [w EXCEPT !.balance = e, !.own = o].balance = e
    BY <1>1 DEF Stores
  <2>8. SumOver(e, Address) = SumOver(b, Address) + x
    <3>1. /\ e[a] = b[a] + x /\ \A c \in Address : c # a => e[c] = b[c]
          /\ IsFiniteSet(Address)
      BY <2>2, <2>3, LedgerAssumption
    <3> QED BY <3>1, SumChanges
  <2> QED BY <1>1, <2>1, <2>5, <2>6, <2>7, <2>8 DEF Holding, Coins
<1> QED BY <1>2, <1>3

LEMMA TransferredHolds ==
  ASSUME NEW k \in Int, NEW w \in Holding(k), NEW from \in Address, NEW to \in Address,
         NEW x \in Int, NEW layer
  PROVE  Transferred(w, from, to, x, layer) \in Holding(k)
<1>1. Pay(w, to, x, layer) \in Holding(k + x)
  BY PayHolds
<1>2. -x \in Int /\ k + x \in Int /\ (k + x) + (-x) = k
  OBVIOUS
<1>3. Pay(Pay(w, to, x, layer), from, -x, layer) \in Holding((k + x) + (-x))
  BY <1>1, <1>2, PayHolds
<1> QED BY <1>2, <1>3 DEF Transferred

\* Stores that differ in other things than the accounts hold the same coins.
LEMMA SameAccounts ==
  ASSUME NEW k, NEW w \in Holding(k), NEW v \in Stores, v.balance = w.balance
  PROVE  v \in Holding(k)
BY DEF Holding, Coins

LEMMA ActionApplyHolds ==
  ASSUME NEW k \in Int, NEW w \in Holding(k), NEW t \in Tx, NEW layer
  PROVE  ActionApply(w, t, layer) \in Holding(k)
<1>1. CASE Action[t].type = "Transfer"
  BY <1>1, ActionNames, TransferredHolds DEF ActionApply
<1>2. CASE Action[t].type # "Transfer"
  <2>1. PICK S \in SUBSET Uri : S = w.files \union {Action[t].uri}
    BY <1>2, ActionNames DEF Holding, Stores
  <2>2. ActionApply(w, t, layer) = [w EXCEPT !.files = S]
    BY <1>2, <2>1 DEF ActionApply
  <2>3. [w EXCEPT !.files = S] \in Stores /\ [w EXCEPT !.files = S].balance = w.balance
    BY DEF Holding, Stores
  <2> QED BY <2>2, <2>3, SameAccounts
<1> QED BY <1>1, <1>2

LEMMA ActionRevertHolds ==
  ASSUME NEW k \in Int, NEW w \in Holding(k), NEW t \in Tx, NEW layer
  PROVE  ActionRevert(w, t, layer) \in Holding(k)
<1>1. CASE Action[t].type = "Transfer"
  BY <1>1, ActionNames, TransferredHolds DEF ActionRevert
<1>2. CASE Action[t].type # "Transfer"
  <2>1. PICK S \in SUBSET Uri : S = w.files \ {Action[t].uri}
    BY DEF Holding, Stores
  <2>2. ActionRevert(w, t, layer) = [w EXCEPT !.files = S]
    BY <1>2, <2>1 DEF ActionRevert
  <2>3. [w EXCEPT !.files = S] \in Stores /\ [w EXCEPT !.files = S].balance = w.balance
    BY DEF Holding, Stores
  <2> QED BY <2>2, <2>3, SameAccounts
<1> QED BY <1>1, <1>2

LEMMA ChainApplyHolds ==
  ASSUME NEW k \in Int, NEW w \in Holding(k), NEW t \in Tx, NEW miner \in Address
  PROVE  ChainApply(w, t, miner) \in Holding(k) /\ ChainRevert(w, t, miner) \in Holding(k)
BY ActionNames, ActionApplyHolds, ActionRevertHolds, TransferredHolds DEF ChainApply, ChainRevert

-----------------------------------------------------------------------------
(* The cache *)

LEMMA CacheTypes ==
  ASSUME NEW c \in Cache, NEW t \in Tx, NEW complete \in BOOLEAN, NEW keys
  PROVE  /\ AddChain(c, t) \in Cache
         /\ EraseKeys(c, keys) \in Cache
         /\ AddPool(c, t, complete) \in Cache
         /\ t \in DOMAIN c => c[t] \in BOOLEAN
<1>1. PICK D \in SUBSET Tx : c \in [D -> BOOLEAN]
  BY DEF Cache
<1>2. PICK K \in SUBSET Tx : K = Keys(t)
  BY LedgerAssumption DEF Keys
<1>3. AddChain(c, t) = c \/ AddChain(c, t) \in [D \union K -> BOOLEAN]
  BY <1>1, <1>2 DEF AddChain
<1>4. EraseKeys(c, keys) \in [D \ keys -> BOOLEAN]
  BY <1>1 DEF EraseKeys
<1>5. AddPool(c, t, complete) \in [D \union {t} -> BOOLEAN]
  BY <1>1 DEF AddPool
<1> QED BY <1>1, <1>3, <1>4, <1>5 DEF Cache

-----------------------------------------------------------------------------
(* Transactions go into the pool and out of it *)

LEMMA LogTypes ==
  ASSUME NEW w \in Stores, NEW e \in Entry
  PROVE  /\ [w EXCEPT !.log = Append(@, e)] \in Stores
         /\ [w EXCEPT !.log = Front(@)] \in Stores
<1>1. PICK log \in Seq(Entry) : log = w.log
  BY DEF Stores
<1>2. Append(log, e) \in Seq(Entry)
  OBVIOUS
<1>3. PICK n \in Nat : n = Len(log)
  OBVIOUS
<1>4. n - 1 \in Int /\ n - 1 <= n
  OBVIOUS
<1>5. SubSeq(log, 1, n - 1) \in Seq(Entry)
  BY <1>3, <1>4, SubSeqProperties
<1>6. Front(log) \in Seq(Entry)
  BY <1>3, <1>5 DEF Front
<1> QED BY <1>1, <1>2, <1>6 DEF Stores

LEMMA PutBackHolds ==
  ASSUME NEW k \in Int, NEW w \in Holding(k), NEW t \in Tx
  PROVE  PutBack(w, t) \in Holding(k)
<1> DEFINE complete == t \in Complete
           apply == complete \/ ~ CanApply(w, t)
           applied == IF apply
                      THEN [ActionApply(w, t, "pool") EXCEPT !.log = Append(@, <<"tx", t>>)]
                      ELSE w
<1>1. applied \in Holding(k)
  <2>1. CASE apply
    <3>1. PICK v \in Holding(k) : v = ActionApply(w, t, "pool")
      BY ActionApplyHolds
    <3>2. PICK e \in Entry : e = <<"tx", t>>
      BY DEF Entry
    <3>3. v \in Stores
      BY DEF Holding
    <3>4. PICK u \in Stores : u = [v EXCEPT !.log = Append(@, e)]
      BY <3>3, LogTypes
    <3>5. u.balance = v.balance
      BY <3>3, <3>4 DEF Stores
    <3>6. u \in Holding(k)
      BY <3>5, SameAccounts
    <3> QED BY <2>1, <3>1, <3>2, <3>4, <3>6
  <2> QED BY <2>1
<1>2. PICK v \in Holding(k) : v = applied
  BY <1>1
<1>3. complete \in BOOLEAN /\ v \in Stores
  BY <1>2 DEF Holding
<1>4. PICK c \in Cache : c = AddPool(v.cache, t, complete)
  BY <1>3, CacheTypes DEF Stores
<1>5. PICK p \in Seq(Tx) : p = Append(v.pool, t)
  <2>1. PICK o \in Seq(Tx) : o = v.pool
    BY <1>3 DEF Stores
  <2>2. Append(o, t) \in Seq(Tx)
    OBVIOUS
  <2> QED BY <2>1, <2>2
<1>6. PutBack(w, t) = w \/ PutBack(w, t) = [v EXCEPT !.pool = p, !.cache = c]
  BY <1>2, <1>4, <1>5 DEF PutBack
<1>7. PICK u : u = [v EXCEPT !.pool = p, !.cache = c]
  OBVIOUS
<1>8. u \in Stores /\ u.balance = v.balance
  BY <1>3, <1>7 DEF Stores
<1>9. u \in Holding(k)
  BY <1>8, SameAccounts
<1> QED BY <1>6, <1>7, <1>9

\* Transactions are put back one after the other.
LEMMA PuttingBack ==
  ASSUME NEW k \in Int, NEW w \in Holding(k), NEW q \in Seq(Tx)
  PROVE  FoldLeft(PutBack, w, q) \in Holding(k)
<1> DEFINE W == Holding(k)
           D == DOMAIN q
           c == Lasts(D)
           step(g) == [s \in SUBSET DOMAIN q |->
                         IF s = {} THEN w
                         ELSE LET i == Max(s) IN PutBack(g[s \ {i}], q[i])]
           iter == CHOOSE g : g = step(g)
<1>1. PICK G : G = [p \in D \X W |-> PutBack(p[2], q[p[1]])]
  OBVIOUS
<1>2. /\ IsFiniteSet(D) /\ Chooses(c, D)
      /\ \A s \in SUBSET D : s # {} => c[s] = Max(s) /\ Max(s) \in D
  BY FoldPlaces DEF Lasts
<1>3. \A i \in D : q[i] \in Tx
  OBVIOUS
<1>4. w \in W
  OBVIOUS
<1> HIDE DEF D, c, W
<1>5. ASSUME NEW i \in D, NEW v \in W
      PROVE  PutBack(v, q[i]) \in W
  BY <1>3, PutBackHolds DEF W
<1>6. G \in [D \X W -> W]
  BY <1>1, <1>5
<1>7. PICK f : Folds(f, W, D, c, w, G)
  BY <1>2, <1>4, <1>6, FoldExists
<1>8. f = step(f)
  <2>1. \A s \in SUBSET D : s # {} => f[s] = PutBack(f[s \ {Max(s)}], q[Max(s)])
    BY <1>1, <1>2, <1>7 DEF Folds
  <2>2. f = [s \in SUBSET D |-> f[s]] /\ f[{}] = w
    BY <1>7 DEF Folds
  <2> QED BY <2>1, <2>2 DEF D
<1>9. iter = step(iter)
  <2> HIDE DEF step
  <2> QED BY <1>8
<1>10. FoldLeft(PutBack, w, q) = iter[D]
  BY DEF FoldLeft, MapThenFoldSet, D
<1> HIDE DEF iter
<1>11. /\ iter[{}] = w
       /\ \A s \in SUBSET D : s # {} => iter[s] = PutBack(iter[s \ {c[s]}], q[c[s]])
  BY <1>2, <1>9 DEF D
<1>12. ASSUME NEW s \in SUBSET D, s # {}, iter[s \ {c[s]}] \in W
       PROVE  iter[s] \in W
  <2>1. c[s] \in D
    BY <1>2, <1>12
  <2> QED BY <1>5, <1>11, <1>12, <2>1
<1>13. iter[D] \in W
  BY <1>2, <1>4, <1>11, <1>12, FoldStays
<1> QED BY <1>10, <1>13 DEF W

\* What was taken off and the pool are put back.
LEMMA Returning ==
  ASSUME NEW k \in Int, NEW w \in Holding(k), NEW q \in Seq(Tx)
  PROVE  FoldLeft(Return, w, q) \in Holding(k)
<1> DEFINE W == Holding(k)
           D == DOMAIN q
           c == Lasts(D)
           step(g) == [s \in SUBSET DOMAIN q |->
                         IF s = {} THEN w
                         ELSE LET i == Max(s) IN Return(g[s \ {i}], q[i])]
           iter == CHOOSE g : g = step(g)
<1>1. PICK G : G = [p \in D \X W |-> Return(p[2], q[p[1]])]
  OBVIOUS
<1>2. /\ IsFiniteSet(D) /\ Chooses(c, D)
      /\ \A s \in SUBSET D : s # {} => c[s] = Max(s) /\ Max(s) \in D
  BY FoldPlaces DEF Lasts
<1>3. \A i \in D : q[i] \in Tx
  OBVIOUS
<1>4. w \in W
  OBVIOUS
<1> HIDE DEF D, c, W
<1>5. ASSUME NEW i \in D, NEW v \in W
      PROVE  Return(v, q[i]) \in W
  BY <1>3, PutBackHolds DEF W, Return
<1>6. G \in [D \X W -> W]
  BY <1>1, <1>5
<1>7. PICK f : Folds(f, W, D, c, w, G)
  BY <1>2, <1>4, <1>6, FoldExists
<1>8. f = step(f)
  <2>1. \A s \in SUBSET D : s # {} => f[s] = Return(f[s \ {Max(s)}], q[Max(s)])
    BY <1>1, <1>2, <1>7 DEF Folds
  <2>2. f = [s \in SUBSET D |-> f[s]] /\ f[{}] = w
    BY <1>7 DEF Folds
  <2> QED BY <2>1, <2>2 DEF D
<1>9. iter = step(iter)
  <2> HIDE DEF step
  <2> QED BY <1>8
<1>10. FoldLeft(Return, w, q) = iter[D]
  BY DEF FoldLeft, MapThenFoldSet, D
<1> HIDE DEF iter
<1>11. /\ iter[{}] = w
       /\ \A s \in SUBSET D : s # {} => iter[s] = Return(iter[s \ {c[s]}], q[c[s]])
  BY <1>2, <1>9 DEF D
<1>12. ASSUME NEW s \in SUBSET D, s # {}, iter[s \ {c[s]}] \in W
       PROVE  iter[s] \in W
  <2>1. c[s] \in D
    BY <1>2, <1>12
  <2> QED BY <1>5, <1>11, <1>12, <2>1
<1>13. iter[D] \in W
  BY <1>2, <1>4, <1>11, <1>12, FoldStays
<1> QED BY <1>10, <1>13 DEF W

\* A pool transaction is taken off.
LEMMA RevertPooledHolds ==
  ASSUME NEW k \in Int, NEW w \in Holding(k), NEW t \in Tx
  PROVE  RevertPooled(t, w) \in Holding(k)
<1> DEFINE complete == t \in DOMAIN w.cache /\ w.cache[t]
           reverted == IF complete
                       THEN [ActionRevert(w, t, "pool") EXCEPT !.log = Front(@)]
                       ELSE w
<1>1. reverted \in Holding(k)
  <2>1. CASE complete
    <3>1. PICK v \in Holding(k) : v = ActionRevert(w, t, "pool")
      BY ActionRevertHolds
    <3>2. v \in Stores /\ <<"tx", t>> \in Entry
      BY DEF Holding, Entry
    <3>3. PICK u \in Stores : u = [v EXCEPT !.log = Front(@)]
      BY <3>2, LogTypes
    <3>4. u.balance = v.balance
      BY <3>2, <3>3 DEF Stores
    <3>5. u \in Holding(k)
      BY <3>4, SameAccounts
    <3> QED BY <2>1, <3>1, <3>3, <3>5
  <2> QED BY <2>1
<1>2. PICK v \in Holding(k) : v = reverted
  BY <1>1
<1>3. v \in Stores
  BY DEF Holding
<1>4. PICK c \in Cache : c = EraseKeys(v.cache, {t})
  BY <1>3, CacheTypes DEF Stores
<1>5. RevertPooled(t, w) = [v EXCEPT !.cache = c]
  BY <1>2, <1>4 DEF RevertPooled
<1>6. PICK u : u = [v EXCEPT !.cache = c]
  OBVIOUS
<1>7. u \in Stores /\ u.balance = v.balance
  BY <1>3, <1>6 DEF Stores
<1> QED BY <1>5, <1>6, <1>7, SameAccounts

\* The pool is taken off, in reverse.
LEMMA TakingPoolOff ==
  ASSUME NEW k \in Int, NEW w \in Holding(k), NEW q \in Seq(Tx)
  PROVE  FoldRight(RevertPooled, q, w) \in Holding(k)
<1> DEFINE W == Holding(k)
           D == DOMAIN q
           c == Firsts(D)
           step(g) == [s \in SUBSET DOMAIN q |->
                         IF s = {} THEN w
                         ELSE LET i == Min(s) IN RevertPooled(q[i], g[s \ {i}])]
           iter == CHOOSE g : g = step(g)
<1>1. PICK G : G = [p \in D \X W |-> RevertPooled(q[p[1]], p[2])]
  OBVIOUS
<1>2. /\ IsFiniteSet(D) /\ Chooses(c, D)
      /\ \A s \in SUBSET D : s # {} => c[s] = Min(s) /\ Min(s) \in D
  BY FoldPlaces DEF Firsts
<1>3. \A i \in D : q[i] \in Tx
  OBVIOUS
<1>4. w \in W
  OBVIOUS
<1> HIDE DEF D, c, W
<1>5. ASSUME NEW i \in D, NEW v \in W
      PROVE  RevertPooled(q[i], v) \in W
  BY <1>3, RevertPooledHolds DEF W
<1>6. G \in [D \X W -> W]
  BY <1>1, <1>5
<1>7. PICK f : Folds(f, W, D, c, w, G)
  BY <1>2, <1>4, <1>6, FoldExists
<1>8. f = step(f)
  <2>1. \A s \in SUBSET D : s # {} => f[s] = RevertPooled(q[Min(s)], f[s \ {Min(s)}])
    BY <1>1, <1>2, <1>7 DEF Folds
  <2>2. f = [s \in SUBSET D |-> f[s]] /\ f[{}] = w
    BY <1>7 DEF Folds
  <2> QED BY <2>1, <2>2 DEF D
<1>9. iter = step(iter)
  <2> HIDE DEF step
  <2> QED BY <1>8
<1>10. FoldRight(RevertPooled, q, w) = iter[D]
  BY DEF FoldRight, MapThenFoldSet, D
<1> HIDE DEF iter
<1>11. /\ iter[{}] = w
       /\ \A s \in SUBSET D : s # {} => iter[s] = RevertPooled(q[c[s]], iter[s \ {c[s]}])
  BY <1>2, <1>9 DEF D
<1>12. ASSUME NEW s \in SUBSET D, s # {}, iter[s \ {c[s]}] \in W
       PROVE  iter[s] \in W
  <2>1. c[s] \in D
    BY <1>2, <1>12
  <2> QED BY <1>5, <1>11, <1>12, <2>1
<1>13. iter[D] \in W
  BY <1>2, <1>4, <1>11, <1>12, FoldStays
<1> QED BY <1>10, <1>13 DEF W

LEMMA RevertPoolHolds ==
  ASSUME NEW k \in Int, NEW w \in Holding(k)
  PROVE  RevertPool(w) \in Holding(k)
<1>1. PICK q \in Seq(Tx) : q = w.pool
  BY DEF Holding, Stores
<1>2. PICK v \in Holding(k) : v = FoldRight(RevertPooled, q, w)
  BY TakingPoolOff
<1>3. v \in Stores
  BY DEF Holding
<1>4. PICK o \in Int : o = v.balance[Own]
  BY <1>3, LedgerAssumption DEF Stores
<1>5. <<>> \in Seq(Tx)
  OBVIOUS
<1>6. PICK u : u = [v EXCEPT !.pool = <<>>, !.own = o]
  OBVIOUS
<1>7. u \in Stores /\ u.balance = v.balance
  BY <1>3, <1>5, <1>6 DEF Stores
<1>8. RevertPool(w) = u
  BY <1>1, <1>2, <1>4, <1>6 DEF RevertPool
<1> QED BY <1>7, <1>8, SameAccounts

-----------------------------------------------------------------------------
(* Blocks are taken off *)

\* A transaction of a block is taken off, and its keys with it.
LEMMA UnapplyHolds ==
  ASSUME NEW k \in Int, NEW v \in Holding(k), NEW t \in Tx, NEW miner \in Address
  PROVE  [ChainRevert(v, t, miner) EXCEPT !.cache = EraseKeys(@, Keys(t))] \in Holding(k)
<1>1. PICK r \in Holding(k) : r = ChainRevert(v, t, miner)
  BY ChainApplyHolds
<1>2. r \in Stores
  BY DEF Holding
<1>3. PICK c \in Cache : c = EraseKeys(r.cache, Keys(t))
  BY <1>2, CacheTypes DEF Stores
<1>4. PICK u : u = [r EXCEPT !.cache = c]
  OBVIOUS
<1>5. u \in Stores /\ u.balance = r.balance
  BY <1>2, <1>4 DEF Stores
<1> QED BY <1>1, <1>3, <1>4, <1>5, SameAccounts

\* The transactions of a block are taken off, in reverse.
LEMMA TakingBlockOff ==
  ASSUME NEW k \in Int, NEW w \in Holding(k), NEW q \in Seq(Tx), NEW miner \in Address
  PROVE  LET Unapply(t, v) ==
               [ChainRevert(v, t, miner) EXCEPT !.cache = EraseKeys(@, Keys(t))]
         IN  FoldRight(Unapply, q, w) \in Holding(k)
<1> DEFINE Unapply(t, v) ==
             [ChainRevert(v, t, miner) EXCEPT !.cache = EraseKeys(@, Keys(t))]
<1> DEFINE W == Holding(k)
           D == DOMAIN q
           c == Firsts(D)
           step(g) == [s \in SUBSET DOMAIN q |->
                         IF s = {} THEN w
                         ELSE LET i == Min(s) IN Unapply(q[i], g[s \ {i}])]
           iter == CHOOSE g : g = step(g)
<1>1. PICK G : G = [p \in D \X W |-> Unapply(q[p[1]], p[2])]
  OBVIOUS
<1>2. /\ IsFiniteSet(D) /\ Chooses(c, D)
      /\ \A s \in SUBSET D : s # {} => c[s] = Min(s) /\ Min(s) \in D
  BY FoldPlaces DEF Firsts
<1>3. \A i \in D : q[i] \in Tx
  OBVIOUS
<1>4. w \in W
  OBVIOUS
<1> HIDE DEF D, c, W
<1>5. ASSUME NEW i \in D, NEW v \in W
      PROVE  Unapply(q[i], v) \in W
  BY <1>3, UnapplyHolds DEF W
<1>6. G \in [D \X W -> W]
  BY <1>1, <1>5
<1>7. PICK f : Folds(f, W, D, c, w, G)
  BY <1>2, <1>4, <1>6, FoldExists
<1>8. f = step(f)
  <2>1. \A s \in SUBSET D : s # {} => f[s] = Unapply(q[Min(s)], f[s \ {Min(s)}])
    BY <1>1, <1>2, <1>7 DEF Folds
  <2>2. f = [s \in SUBSET D |-> f[s]] /\ f[{}] = w
    BY <1>7 DEF Folds
  <2> QED BY <2>1, <2>2 DEF D
<1>9. iter = step(iter)
  <2> HIDE DEF step
  <2> QED BY <1>8
<1>10. FoldRight(Unapply, q, w) = iter[D]
  BY DEF FoldRight, MapThenFoldSet, D
<1> HIDE DEF iter, Unapply
<1>11. /\ iter[{}] = w
       /\ \A s \in SUBSET D : s # {} => iter[s] = Unapply(q[c[s]], iter[s \ {c[s]}])
  BY <1>2, <1>9 DEF D
<1>12. ASSUME NEW s \in SUBSET D, s # {}, iter[s \ {c[s]}] \in W
       PROVE  iter[s] \in W
  <2>1. c[s] \in D
    BY <1>2, <1>12
  <2> QED BY <1>5, <1>11, <1>12, <2>1
<1>13. iter[D] \in W
  BY <1>2, <1>4, <1>11, <1>12, FoldStays
<1> QED BY <1>10, <1>13 DEF W, Unapply

LEMMA StoresHold ==
  ASSUME NEW w \in Stores
  PROVE  Coins(w) \in Int /\ w \in Holding(Coins(w))
<1>1. PICK b \in [Address -> Int] : b = w.balance
  BY DEF Stores
<1>2. IsFiniteSet(Address) /\ \A a \in Address : b[a] \in Int
  BY <1>1, LedgerAssumption
<1>3. SumOver(b, Address) \in Int
  BY <1>2, SumOfIntegers
<1> QED BY <1>1, <1>3 DEF Coins, Holding

\* A block is taken off, and the reward of its miner.
LEMMA RevertBlockHolds ==
  ASSUME NEW k \in Int, NEW w \in Holding(k), NEW block \in Block
  PROVE  RevertBlock(w, block) \in Holding(k - Emission)
<1>1. w \in Stores /\ <<"block", block>> \in Entry
  BY DEF Holding, Entry
<1>2. PICK v \in Stores : v = [w EXCEPT !.log = Front(@)]
  BY <1>1, LogTypes
<1>3. v \in Holding(k)
  <2>1. v.balance = w.balance
    BY <1>1, <1>2 DEF Stores
  <2> QED BY <2>1, SameAccounts
<1>4. PICK miner \in Address, q \in Seq(Tx) : miner = block.miner /\ q = block.txs
  BY DEF Block
<1>5. -Emission \in Int /\ k + (-Emission) = k - Emission /\ k - Emission \in Int
  BY LedgerAssumption
<1>6. PICK u \in Holding(k - Emission) : u = Pay(v, miner, -Emission, "chain")
  <2>1. Pay(v, miner, -Emission, "chain") \in Holding(k + (-Emission))
    BY <1>3, <1>5, PayHolds
  <2> QED BY <1>5, <2>1
<1> DEFINE Unapply(t, r) ==
             [ChainRevert(r, t, miner) EXCEPT !.cache = EraseKeys(@, Keys(t))]
<1>7. FoldRight(Unapply, q, u) \in Holding(k - Emission)
  BY <1>5, TakingBlockOff
<1>8. RevertBlock(w, block) = FoldRight(Unapply, q, u)
  BY <1>2, <1>4, <1>6 DEF RevertBlock
<1> QED BY <1>7, <1>8

\* The keys of an old block are put into the cache again.
LEMMA AddingToCache ==
  ASSUME NEW e \in Cache, NEW q \in Seq(Tx)
  PROVE  FoldLeft(AddChain, e, q) \in Cache
<1> DEFINE W == Cache
           D == DOMAIN q
           c == Lasts(D)
           step(g) == [s \in SUBSET DOMAIN q |->
                         IF s = {} THEN e
                         ELSE LET i == Max(s) IN AddChain(g[s \ {i}], q[i])]
           iter == CHOOSE g : g = step(g)
<1>1. PICK G : G = [p \in D \X W |-> AddChain(p[2], q[p[1]])]
  OBVIOUS
<1>2. /\ IsFiniteSet(D) /\ Chooses(c, D)
      /\ \A s \in SUBSET D : s # {} => c[s] = Max(s) /\ Max(s) \in D
  BY FoldPlaces DEF Lasts
<1>3. \A i \in D : q[i] \in Tx
  OBVIOUS
<1>4. e \in W
  OBVIOUS
<1> HIDE DEF D, c, W
<1>5. ASSUME NEW i \in D, NEW v \in W
      PROVE  AddChain(v, q[i]) \in W
  BY <1>3, CacheTypes DEF W
<1>6. G \in [D \X W -> W]
  BY <1>1, <1>5
<1>7. PICK f : Folds(f, W, D, c, e, G)
  BY <1>2, <1>4, <1>6, FoldExists
<1>8. f = step(f)
  <2>1. \A s \in SUBSET D : s # {} => f[s] = AddChain(f[s \ {Max(s)}], q[Max(s)])
    BY <1>1, <1>2, <1>7 DEF Folds
  <2>2. f = [s \in SUBSET D |-> f[s]] /\ f[{}] = e
    BY <1>7 DEF Folds
  <2> QED BY <2>1, <2>2 DEF D
<1>9. iter = step(iter)
  <2> HIDE DEF step
  <2> QED BY <1>8
<1>10. FoldLeft(AddChain, e, q) = iter[D]
  BY DEF FoldLeft, MapThenFoldSet, D
<1> HIDE DEF iter
<1>11. /\ iter[{}] = e
       /\ \A s \in SUBSET D : s # {} => iter[s] = AddChain(iter[s \ {c[s]}], q[c[s]])
  BY <1>2, <1>9 DEF D
<1>12. ASSUME NEW s \in SUBSET D, s # {}, iter[s \ {c[s]}] \in W
       PROVE  iter[s] \in W
  <2>1. c[s] \in D
    BY <1>2, <1>12
  <2> QED BY <1>5, <1>11, <1>12, <2>1
<1>13. iter[D] \in W
  BY <1>2, <1>4, <1>11, <1>12, FoldStays
<1> QED BY <1>10, <1>13 DEF W

\* A block of the chain is taken off, and an old one is put into the cache again.
Unblocked(i, v) ==
  LET off == RevertBlock(v, chain[i])
      old == IF i > LifetimeBlocks THEN chain[i - LifetimeBlocks].txs ELSE <<>>
  IN  [off EXCEPT !.cache = FoldLeft(AddChain, @, old)]

LEMMA UnblockedHolds ==
  ASSUME chain \in Seq(Block), NEW k \in Int, NEW v \in Holding(k), NEW i \in DOMAIN chain
  PROVE  Unblocked(i, v) \in Holding(k - Emission)
<1>1. PICK b \in Block : b = chain[i]
  OBVIOUS
<1>2. PICK off \in Holding(k - Emission) : off = RevertBlock(v, b)
  BY RevertBlockHolds
<1>3. off \in Stores /\ k - Emission \in Int
  BY LedgerAssumption DEF Holding
<1>4. PICK old \in Seq(Tx) :
        old = IF i > LifetimeBlocks THEN chain[i - LifetimeBlocks].txs ELSE <<>>
  <2>1. CASE i > LifetimeBlocks
    <3>1. i \in 1..Len(chain) /\ Len(chain) \in Nat /\ LifetimeBlocks \in Nat \ {0}
      BY LedgerAssumption
    <3>2. i - LifetimeBlocks \in 1..Len(chain)
      BY <2>1, <3>1
    <3>3. chain[i - LifetimeBlocks] \in Block
      BY <3>2
    <3>4. chain[i - LifetimeBlocks].txs \in Seq(Tx)
      BY <3>3 DEF Block
    <3> QED BY <2>1, <3>4
  <2>2. CASE ~ (i > LifetimeBlocks)
    <3>1. <<>> \in Seq(Tx)
      OBVIOUS
    <3> QED BY <2>2, <3>1
  <2> QED BY <2>1, <2>2
<1>5. PICK e \in Cache : e = FoldLeft(AddChain, off.cache, old)
  BY <1>3, AddingToCache DEF Stores
<1>6. PICK u : u = [off EXCEPT !.cache = e]
  OBVIOUS
<1>7. u \in Stores /\ u.balance = off.balance
  BY <1>3, <1>6 DEF Stores
<1>8. Unblocked(i, v) = u
  BY <1>1, <1>2, <1>4, <1>5, <1>6 DEF Unblocked
<1> QED BY <1>3, <1>7, <1>8, SameAccounts

\* n emissions
LEMMA Emissions ==
  ASSUME NEW n \in Nat, NEW k \in Int
  PROVE  /\ Emission * n \in Int /\ Emission * 0 = 0
         /\ (k - Emission * n) - Emission = k - Emission * (n + 1)
         /\ (k + Emission * n) + Emission = k + Emission * (n + 1)
<1>1. Emission \in Int
  BY LedgerAssumption
<1>2. PICK m \in Int : m = Emission * n
  BY <1>1
<1>3. Emission * (n + 1) = m + Emission
  BY <1>1, <1>2
<1> QED BY <1>1, <1>2, <1>3

\* The blocks above one are taken off, the last one first.
LEMMA TakingBlocksOff ==
  ASSUME chain \in Seq(Block), NEW k \in Int, NEW w \in Holding(k),
         NEW lcb \in 0..(Len(chain) - 1)
  PROVE  RevertBlocks(w, lcb) \in Holding(k - Emission * (HeadNumber - lcb))
<1>0. PICK m \in Nat, q \in Seq(DOMAIN chain) :
        m = HeadNumber - lcb /\ q = [n \in 1..(HeadNumber - lcb) |-> n + lcb + 1] /\ Len(q) = m
  <2>1. PICK l \in Nat : l = Len(chain) /\ DOMAIN chain = 1..l /\ lcb \in 0..(l - 1)
    OBVIOUS
  <2>2. PICK m \in Nat : m = HeadNumber - lcb /\ m = l - 1 - lcb
    <3>1. HeadNumber = l - 1
      BY <2>1 DEF HeadNumber
    <3>2. l - 1 - lcb \in Nat
      BY <2>1
    <3> QED BY <3>1, <3>2
  <2>3. \A n \in 1..m : n + lcb + 1 \in 1..l
    BY <2>1, <2>2
  <2>4. PICK q : q = [n \in 1..m |-> n + lcb + 1]
    OBVIOUS
  <2>5. q \in [1..m -> DOMAIN chain]
    BY <2>1, <2>3, <2>4
  <2>6. q \in Seq(DOMAIN chain) /\ Len(q) = m
    BY <2>5
  <2> QED BY <2>2, <2>4, <2>6
<1> DEFINE W == Stores
           D == DOMAIN q
           c == Firsts(D)
           step(g) == [s \in SUBSET DOMAIN q |->
                         IF s = {} THEN w
                         ELSE LET i == Min(s) IN Unblocked(q[i], g[s \ {i}])]
           iter == CHOOSE g : g = step(g)
<1>1. PICK G : G = [p \in D \X W |-> Unblocked(q[p[1]], p[2])]
  OBVIOUS
<1>2. /\ IsFiniteSet(D) /\ Chooses(c, D)
      /\ \A s \in SUBSET D : s # {} => c[s] = Min(s) /\ Min(s) \in D
  BY FoldPlaces DEF Firsts
<1>3. \A i \in D : q[i] \in DOMAIN chain
  OBVIOUS
<1>4. w \in W
  BY DEF Holding
<1> HIDE DEF D, c, W
<1>5. ASSUME NEW i \in D, NEW v \in W
      PROVE  Unblocked(q[i], v) \in W
  BY <1>3, StoresHold, UnblockedHolds DEF W, Holding
<1>6. G \in [D \X W -> W]
  BY <1>1, <1>5
<1>7. PICK f : Folds(f, W, D, c, w, G)
  BY <1>2, <1>4, <1>6, FoldExists
<1>8. f = step(f)
  <2>1. \A s \in SUBSET D : s # {} => f[s] = Unblocked(q[Min(s)], f[s \ {Min(s)}])
    BY <1>1, <1>2, <1>7 DEF Folds
  <2>2. f = [s \in SUBSET D |-> f[s]] /\ f[{}] = w
    BY <1>7 DEF Folds
  <2> QED BY <2>1, <2>2 DEF D
<1>9. iter = step(iter)
  <2> HIDE DEF step
  <2> QED BY <1>8
<1>10. FoldRight(Unblocked, q, w) = iter[D]
  BY DEF FoldRight, MapThenFoldSet, D
<1> HIDE DEF iter
<1>11. /\ iter[{}] = w
       /\ \A s \in SUBSET D : s # {} => iter[s] = Unblocked(q[c[s]], iter[s \ {c[s]}])
  BY <1>2, <1>9 DEF D
<1> DEFINE P == [n \in Nat |-> Holding(k - Emission * n)]
<1>12. ASSUME NEW s \in SUBSET D, s # {}, iter[s \ {c[s]}] \in P[Cardinality(s) - 1]
       PROVE  iter[s] \in P[Cardinality(s)]
  <2>1. PICK n \in Nat : Cardinality(s) = n + 1
    <3>1. IsFiniteSet(s)
      BY <1>2, FS_Subset
    <3>2. Cardinality(s) \in Nat /\ Cardinality(s) # 0
      BY <1>12, <3>1, FS_CardinalityType, FS_EmptySet
    <3>3. Cardinality(s) - 1 \in Nat
      BY <3>2
    <3> QED BY <3>2, <3>3, SMTT(30)
  <2>2. PICK j \in Int : j = k - Emission * n
    <3>1. PICK x \in Int : x = Emission * n
      BY Emissions
    <3> QED BY <3>1
  <2>3. PICK v \in Holding(j) : v = iter[s \ {c[s]}]
    BY <1>12, <2>1, <2>2
  <2>4. c[s] \in D
    BY <1>2, <1>12
  <2>5. iter[s] \in Holding(j - Emission)
    BY <1>3, <1>11, <1>12, <2>3, <2>4, UnblockedHolds, SMTT(30)
  <2>6. n + 1 \in Nat /\ j - Emission = k - Emission * (n + 1)
    BY <2>2, Emissions
  <2> QED BY <2>1, <2>5, <2>6
<1>13. iter[D] \in P[Cardinality(D)]
  <2>1. iter[{}] \in P[0]
    <3>1. k - Emission * 0 = k
      BY Emissions
    <3> QED BY <1>11, <3>1
  <2> HIDE DEF P
  <2> QED BY <1>2, <1>12, <2>1, FoldReaches
<1>14. Cardinality(D) = m
  BY <1>0, FoldPlaces DEF D
<1>15. RevertBlocks(w, lcb) = FoldRight(Unblocked, q, w)
  BY <1>0 DEF RevertBlocks, Unblocked
<1> QED BY <1>0, <1>10, <1>13, <1>14, <1>15

-----------------------------------------------------------------------------
(* Blocks are put on *)

\* A transaction is applied on the chain, and its keys enter the cache.
LEMMA AppliedHolds ==
  ASSUME NEW k \in Int, NEW v \in Holding(k), NEW t \in Tx, NEW miner \in Address
  PROVE  [ChainApply(v, t, miner) EXCEPT !.cache = AddChain(@, t)] \in Holding(k)
<1>1. PICK r \in Holding(k) : r = ChainApply(v, t, miner)
  BY ChainApplyHolds
<1>2. r \in Stores
  BY DEF Holding
<1>3. PICK c \in Cache : c = AddChain(r.cache, t)
  BY <1>2, CacheTypes DEF Stores
<1>4. PICK u : u = [r EXCEPT !.cache = c]
  OBVIOUS
<1>5. u \in Stores /\ u.balance = r.balance
  BY <1>2, <1>4 DEF Stores
<1> QED BY <1>1, <1>3, <1>4, <1>5, SameAccounts

LEMMA CloseBlockHolds ==
  ASSUME NEW k \in Int, NEW w \in Holding(k), NEW block \in Block
  PROVE  CloseBlock(w, block) \in Holding(k + Emission)
<1>1. block.miner \in Address /\ Emission \in Int /\ <<"block", block>> \in Entry
  BY LedgerAssumption DEF Block, Entry
<1>2. PICK v \in Holding(k + Emission) : v = Pay(w, block.miner, Emission, "chain")
  BY <1>1, PayHolds
<1>3. v \in Stores
  BY DEF Holding
<1>4. PICK u \in Stores : u = [v EXCEPT !.log = Append(@, <<"block", block>>)]
  BY <1>1, <1>3, LogTypes
<1>5. u.balance = v.balance
  BY <1>3, <1>4 DEF Stores
<1>6. CloseBlock(w, block) = u
  BY <1>2, <1>4 DEF CloseBlock
<1> QED BY <1>5, <1>6, SameAccounts

\* A block that is being mined, from stores with k coins.
Trial(k) == [w : Holding(k), txs : Seq(Tx), failed : SUBSET Tx]

LEMMA TryTransactionHolds ==
  ASSUME NEW k \in Int, NEW r \in Trial(k), NEW t \in Tx
  PROVE  TryTransaction(r, t) \in Trial(k)
<1>1. PICK v \in Holding(k), q \in Seq(Tx), S \in SUBSET Tx : v = r.w /\ q = r.txs /\ S = r.failed
  BY DEF Trial
<1>2. PICK u \in Holding(k) : u = [ChainApply(v, t, Own) EXCEPT !.cache = AddChain(@, t)]
  BY AppliedHolds, LedgerAssumption
<1>3. Append(q, t) \in Seq(Tx) /\ S \union {t} \in SUBSET Tx
  OBVIOUS
<1>4. \/ TryTransaction(r, t) = [r EXCEPT !.w = u, !.txs = Append(q, t)]
      \/ TryTransaction(r, t) = [r EXCEPT !.failed = S \union {t}]
  BY <1>1, <1>2 DEF TryTransaction
<1>5. PICK p \in Seq(Tx), R \in SUBSET Tx : p = Append(q, t) /\ R = S \union {t}
  BY <1>3
<1>6. [r EXCEPT !.w = u, !.txs = p] \in Trial(k) /\ [r EXCEPT !.failed = R] \in Trial(k)
  BY DEF Trial
<1> QED BY <1>4, <1>5, <1>6

\* The transactions of a block are tried.
LEMMA Trying ==
  ASSUME NEW k \in Int, NEW r \in Trial(k), NEW q \in Seq(Tx)
  PROVE  FoldLeft(TryTransaction, r, q) \in Trial(k)
<1> DEFINE W == Trial(k)
           D == DOMAIN q
           c == Lasts(D)
           step(g) == [s \in SUBSET DOMAIN q |->
                         IF s = {} THEN r
                         ELSE LET i == Max(s) IN TryTransaction(g[s \ {i}], q[i])]
           iter == CHOOSE g : g = step(g)
<1>1. PICK G : G = [p \in D \X W |-> TryTransaction(p[2], q[p[1]])]
  OBVIOUS
<1>2. /\ IsFiniteSet(D) /\ Chooses(c, D)
      /\ \A s \in SUBSET D : s # {} => c[s] = Max(s) /\ Max(s) \in D
  BY FoldPlaces DEF Lasts
<1>3. \A i \in D : q[i] \in Tx
  OBVIOUS
<1>4. r \in W
  OBVIOUS
<1> HIDE DEF D, c, W
<1>5. ASSUME NEW i \in D, NEW v \in W
      PROVE  TryTransaction(v, q[i]) \in W
  BY <1>3, TryTransactionHolds DEF W
<1>6. G \in [D \X W -> W]
  BY <1>1, <1>5
<1>7. PICK f : Folds(f, W, D, c, r, G)
  BY <1>2, <1>4, <1>6, FoldExists
<1>8. f = step(f)
  <2>1. \A s \in SUBSET D : s # {} => f[s] = TryTransaction(f[s \ {Max(s)}], q[Max(s)])
    BY <1>1, <1>2, <1>7 DEF Folds
  <2>2. f = [s \in SUBSET D |-> f[s]] /\ f[{}] = r
    BY <1>7 DEF Folds
  <2> QED BY <2>1, <2>2 DEF D
<1>9. iter = step(iter)
  <2> HIDE DEF step
  <2> QED BY <1>8
<1>10. FoldLeft(TryTransaction, r, q) = iter[D]
  BY DEF FoldLeft, MapThenFoldSet, D
<1> HIDE DEF iter
<1>11. /\ iter[{}] = r
       /\ \A s \in SUBSET D : s # {} => iter[s] = TryTransaction(iter[s \ {c[s]}], q[c[s]])
  BY <1>2, <1>9 DEF D
<1>12. ASSUME NEW s \in SUBSET D, s # {}, iter[s \ {c[s]}] \in W
       PROVE  iter[s] \in W
  <2>1. c[s] \in D
    BY <1>2, <1>12
  <2> QED BY <1>5, <1>11, <1>12, <2>1
<1>13. iter[D] \in W
  BY <1>2, <1>4, <1>11, <1>12, FoldStays
<1> QED BY <1>10, <1>13 DEF W

\* What a node makes of the blocks of a peer, as long as nothing is wrong from
\* stores with k coins.
Verdict == [w : Stores, ok : BOOLEAN, miner : Address]
VerdictOn(k) == {r \in Verdict : r.ok => r.w \in Holding(k)}

LEMMA VerifyTransactionHolds ==
  ASSUME NEW k \in Int, NEW r \in VerdictOn(k), NEW t \in Tx
  PROVE  VerifyTransaction(r, t) \in VerdictOn(k)
<1>1. r \in Verdict /\ r.miner \in Address
  BY DEF VerdictOn, Verdict
<1>2. [r EXCEPT !.ok = FALSE] \in VerdictOn(k)
  BY <1>1 DEF VerdictOn, Verdict
<1>3. CASE r.ok
  <2>1. r.w \in Holding(k)
    BY <1>3 DEF VerdictOn
  <2>2. PICK u \in Holding(k) : u = [ChainApply(r.w, t, r.miner) EXCEPT !.cache = AddChain(@, t)]
    BY <1>1, <2>1, AppliedHolds
  <2>3. u \in Stores
    BY DEF Holding
  <2>4. PICK v : v = [r EXCEPT !.w = u]
    OBVIOUS
  <2>5. v \in Verdict /\ v.w = u
    BY <1>1, <2>3, <2>4 DEF Verdict
  <2>6. v \in VerdictOn(k)
    BY <2>5 DEF VerdictOn
  <2>7. VerifyTransaction(r, t) = v \/ VerifyTransaction(r, t) = [r EXCEPT !.ok = FALSE]
    BY <2>2, <2>4 DEF VerifyTransaction
  <2> QED BY <1>2, <2>6, <2>7
<1>4. CASE ~ r.ok
  BY <1>2, <1>4 DEF VerifyTransaction
<1> QED BY <1>3, <1>4

\* The transactions of a block of a peer are applied.
LEMMA VerifyingTransactions ==
  ASSUME NEW k \in Int, NEW r \in VerdictOn(k), NEW q \in Seq(Tx)
  PROVE  FoldLeft(VerifyTransaction, r, q) \in VerdictOn(k)
<1> DEFINE W == VerdictOn(k)
           D == DOMAIN q
           c == Lasts(D)
           step(g) == [s \in SUBSET DOMAIN q |->
                         IF s = {} THEN r
                         ELSE LET i == Max(s) IN VerifyTransaction(g[s \ {i}], q[i])]
           iter == CHOOSE g : g = step(g)
<1>1. PICK G : G = [p \in D \X W |-> VerifyTransaction(p[2], q[p[1]])]
  OBVIOUS
<1>2. /\ IsFiniteSet(D) /\ Chooses(c, D)
      /\ \A s \in SUBSET D : s # {} => c[s] = Max(s) /\ Max(s) \in D
  BY FoldPlaces DEF Lasts
<1>3. \A i \in D : q[i] \in Tx
  OBVIOUS
<1>4. r \in W
  OBVIOUS
<1> HIDE DEF D, c, W
<1>5. ASSUME NEW i \in D, NEW v \in W
      PROVE  VerifyTransaction(v, q[i]) \in W
  BY <1>3, VerifyTransactionHolds DEF W
<1>6. G \in [D \X W -> W]
  BY <1>1, <1>5
<1>7. PICK f : Folds(f, W, D, c, r, G)
  BY <1>2, <1>4, <1>6, FoldExists
<1>8. f = step(f)
  <2>1. \A s \in SUBSET D : s # {} => f[s] = VerifyTransaction(f[s \ {Max(s)}], q[Max(s)])
    BY <1>1, <1>2, <1>7 DEF Folds
  <2>2. f = [s \in SUBSET D |-> f[s]] /\ f[{}] = r
    BY <1>7 DEF Folds
  <2> QED BY <2>1, <2>2 DEF D
<1>9. iter = step(iter)
  <2> HIDE DEF step
  <2> QED BY <1>8
<1>10. FoldLeft(VerifyTransaction, r, q) = iter[D]
  BY DEF FoldLeft, MapThenFoldSet, D
<1> HIDE DEF iter
<1>11. /\ iter[{}] = r
       /\ \A s \in SUBSET D : s # {} => iter[s] = VerifyTransaction(iter[s \ {c[s]}], q[c[s]])
  BY <1>2, <1>9 DEF D
<1>12. ASSUME NEW s \in SUBSET D, s # {}, iter[s \ {c[s]}] \in W
       PROVE  iter[s] \in W
  <2>1. c[s] \in D
    BY <1>2, <1>12
  <2> QED BY <1>5, <1>11, <1>12, <2>1
<1>13. iter[D] \in W
  BY <1>2, <1>4, <1>11, <1>12, FoldStays
<1> QED BY <1>10, <1>13 DEF W

LEMMA VerifyBlockHolds ==
  ASSUME NEW k \in Int, NEW r \in VerdictOn(k), NEW block \in Block
  PROVE  VerifyBlock(r, block) \in VerdictOn(k + Emission)
<1>1. r \in Verdict /\ k + Emission \in Int
  BY LedgerAssumption DEF VerdictOn
<1>2. [r EXCEPT !.ok = FALSE] \in VerdictOn(k + Emission)
  BY <1>1 DEF VerdictOn, Verdict
<1>3. PICK miner \in Address, q \in Seq(Tx) : miner = block.miner /\ q = block.txs
  BY DEF Block
<1>4. PICK s : s = [r EXCEPT !.miner = miner]
  OBVIOUS
<1>5. s \in Verdict /\ s.ok = r.ok /\ s.w = r.w
  BY <1>1, <1>4 DEF Verdict
<1>6. s \in VerdictOn(k)
  BY <1>5 DEF VerdictOn
<1>7. PICK v \in VerdictOn(k) : v = FoldLeft(VerifyTransaction, s, q)
  BY <1>6, VerifyingTransactions
<1>8. v \in Verdict /\ v.w \in Stores
  BY DEF VerdictOn, Verdict
<1>9. PICK u \in Stores : /\ u = CloseBlock(v.w, block)
                          /\ v.ok => u \in Holding(k + Emission)
  <2>1. CASE v.ok
    <3>1. v.w \in Holding(k)
      BY <2>1 DEF VerdictOn
    <3>2. CloseBlock(v.w, block) \in Holding(k + Emission)
      BY <3>1, CloseBlockHolds
    <3> QED BY <3>2 DEF Holding
  <2>2. CASE ~ v.ok
    <3>1. Coins(v.w) \in Int /\ v.w \in Holding(Coins(v.w))
      BY <1>8, StoresHold
    <3>2. CloseBlock(v.w, block) \in Holding(Coins(v.w) + Emission)
      BY <3>1, CloseBlockHolds
    <3> QED BY <2>2, <3>2 DEF Holding
  <2> QED BY <2>1, <2>2
<1>10. PICK z : z = [v EXCEPT !.w = u]
  OBVIOUS
<1>11. z \in Verdict /\ z.ok = v.ok /\ z.w = u
  BY <1>8, <1>10 DEF Verdict
<1>12. z \in VerdictOn(k + Emission)
  BY <1>9, <1>11 DEF VerdictOn
<1>13. VerifyBlock(r, block) = z \/ VerifyBlock(r, block) = [r EXCEPT !.ok = FALSE]
  BY <1>3, <1>4, <1>7, <1>9, <1>10 DEF VerifyBlock
<1> QED BY <1>2, <1>12, <1>13

LEMMA VerdictHolds ==
  ASSUME NEW r \in Verdict
  PROVE  Coins(r.w) \in Int /\ r \in VerdictOn(Coins(r.w))
BY StoresHold DEF Verdict, VerdictOn

\* The blocks of a peer are put on.
LEMMA VerifyingBlocks ==
  ASSUME NEW k \in Int, NEW r \in VerdictOn(k), NEW q \in Seq(Block)
  PROVE  FoldLeft(VerifyBlock, r, q) \in VerdictOn(k + Emission * Len(q))
<1> DEFINE W == Verdict
           D == DOMAIN q
           c == Lasts(D)
           step(g) == [s \in SUBSET DOMAIN q |->
                         IF s = {} THEN r
                         ELSE LET i == Max(s) IN VerifyBlock(g[s \ {i}], q[i])]
           iter == CHOOSE g : g = step(g)
<1>1. PICK G : G = [p \in D \X W |-> VerifyBlock(p[2], q[p[1]])]
  OBVIOUS
<1>2. /\ IsFiniteSet(D) /\ Chooses(c, D)
      /\ \A s \in SUBSET D : s # {} => c[s] = Max(s) /\ Max(s) \in D
  BY FoldPlaces DEF Lasts
<1>3. \A i \in D : q[i] \in Block
  OBVIOUS
<1>4. r \in W
  BY DEF VerdictOn
<1> HIDE DEF D, c, W
<1>5. ASSUME NEW i \in D, NEW v \in W
      PROVE  VerifyBlock(v, q[i]) \in W
  <2>1. PICK u \in Verdict, b \in Block : u = v /\ b = q[i]
    BY <1>3 DEF W
  <2>2. Coins(u.w) \in Int /\ u \in VerdictOn(Coins(u.w))
    BY VerdictHolds
  <2>3. VerifyBlock(u, b) \in VerdictOn(Coins(u.w) + Emission)
    BY <2>2, VerifyBlockHolds
  <2> QED BY <2>1, <2>3 DEF W, VerdictOn
<1>6. G \in [D \X W -> W]
  BY <1>1, <1>5
<1>7. PICK f : Folds(f, W, D, c, r, G)
  BY <1>2, <1>4, <1>6, FoldExists
<1>8. f = step(f)
  <2>1. \A s \in SUBSET D : s # {} => f[s] = VerifyBlock(f[s \ {Max(s)}], q[Max(s)])
    BY <1>1, <1>2, <1>7 DEF Folds
  <2>2. f = [s \in SUBSET D |-> f[s]] /\ f[{}] = r
    BY <1>7 DEF Folds
  <2> QED BY <2>1, <2>2 DEF D
<1>9. iter = step(iter)
  <2> HIDE DEF step
  <2> QED BY <1>8
<1>10. FoldLeft(VerifyBlock, r, q) = iter[D]
  BY DEF FoldLeft, MapThenFoldSet, D
<1> HIDE DEF iter
<1>11. /\ iter[{}] = r
       /\ \A s \in SUBSET D : s # {} => iter[s] = VerifyBlock(iter[s \ {c[s]}], q[c[s]])
  BY <1>2, <1>9 DEF D
<1> DEFINE P == [n \in Nat |-> VerdictOn(k + Emission * n)]
<1>12. ASSUME NEW s \in SUBSET D, s # {}, iter[s \ {c[s]}] \in P[Cardinality(s) - 1]
       PROVE  iter[s] \in P[Cardinality(s)]
  <2>1. PICK n \in Nat : Cardinality(s) = n + 1
    <3>1. IsFiniteSet(s)
      BY <1>2, FS_Subset
    <3>2. Cardinality(s) \in Nat /\ Cardinality(s) # 0
      BY <1>12, <3>1, FS_CardinalityType, FS_EmptySet
    <3>3. Cardinality(s) - 1 \in Nat
      BY <3>2
    <3> QED BY <3>2, <3>3
  <2>2. PICK j \in Int : j = k + Emission * n
    <3>1. PICK x \in Int : x = Emission * n
      BY Emissions
    <3> QED BY <3>1
  <2>3. PICK v \in VerdictOn(j) : v = iter[s \ {c[s]}]
    BY <1>12, <2>1, <2>2
  <2>4. PICK b \in Block : b = q[c[s]]
    BY <1>2, <1>3, <1>12
  <2>5. iter[s] \in VerdictOn(j + Emission)
    BY <1>11, <1>12, <2>3, <2>4, VerifyBlockHolds
  <2>6. n + 1 \in Nat /\ j + Emission = k + Emission * (n + 1)
    BY <2>2, Emissions
  <2> QED BY <2>1, <2>5, <2>6
<1>13. iter[D] \in P[Cardinality(D)]
  <2>1. iter[{}] \in P[0]
    <3>1. k + Emission * 0 = k
      BY Emissions
    <3> QED BY <1>11, <3>1
  <2> HIDE DEF P
  <2> QED BY <1>2, <1>12, <2>1, FoldReaches
<1>14. Cardinality(D) = Len(q) /\ Len(q) \in Nat
  BY FoldPlaces DEF D
<1> QED BY <1>10, <1>13, <1>14

-----------------------------------------------------------------------------
(* Sequences of transactions *)

\* A part of a sequence of transactions is one.
LEMMA ThoseHold ==
  ASSUME NEW q \in Seq(Tx), NEW S
  PROVE  Those(q, S) \in Seq(Tx)
<1> DEFINE Keep(r, t) == IF t \in S THEN Append(r, t) ELSE r
<1> DEFINE W == Seq(Tx)
           D == DOMAIN q
           c == Lasts(D)
           step(g) == [s \in SUBSET DOMAIN q |->
                         IF s = {} THEN <<>>
                         ELSE LET i == Max(s) IN Keep(g[s \ {i}], q[i])]
           iter == CHOOSE g : g = step(g)
<1>1. PICK G : G = [p \in D \X W |-> Keep(p[2], q[p[1]])]
  OBVIOUS
<1>2. /\ IsFiniteSet(D) /\ Chooses(c, D)
      /\ \A s \in SUBSET D : s # {} => c[s] = Max(s) /\ Max(s) \in D
  BY FoldPlaces DEF Lasts
<1>3. \A i \in D : q[i] \in Tx
  OBVIOUS
<1>4. <<>> \in W
  OBVIOUS
<1> HIDE DEF D, c, W
<1>5. ASSUME NEW i \in D, NEW v \in W
      PROVE  Keep(v, q[i]) \in W
  BY <1>3 DEF W, Keep
<1>6. G \in [D \X W -> W]
  BY <1>1, <1>5
<1>7. PICK f : Folds(f, W, D, c, <<>>, G)
  BY <1>2, <1>4, <1>6, FoldExists
<1>8. f = step(f)
  <2>1. \A s \in SUBSET D : s # {} => f[s] = Keep(f[s \ {Max(s)}], q[Max(s)])
    BY <1>1, <1>2, <1>7, ZenonT(30) DEF Folds
  <2>2. f = [s \in SUBSET D |-> f[s]] /\ f[{}] = <<>>
    BY <1>7 DEF Folds
  <2> QED BY <2>1, <2>2 DEF D
<1>9. iter = step(iter)
  <2> HIDE DEF step
  <2> QED BY <1>8
<1>10. Those(q, S) = iter[D]
  BY DEF FoldLeft, MapThenFoldSet, D, Those
<1> HIDE DEF iter, Keep
<1>11. /\ iter[{}] = <<>>
       /\ \A s \in SUBSET D : s # {} => iter[s] = Keep(iter[s \ {c[s]}], q[c[s]])
  BY <1>2, <1>9 DEF D
<1>12. ASSUME NEW s \in SUBSET D, s # {}, iter[s \ {c[s]}] \in W
       PROVE  iter[s] \in W
  <2>1. c[s] \in D
    BY <1>2, <1>12
  <2> QED BY <1>5, <1>11, <1>12, <2>1
<1>13. iter[D] \in W
  <2>1. iter[{}] \in W
    BY <1>4, <1>11
  <2> QED BY <1>2, <1>12, <2>1, FoldStays
<1> QED BY <1>10, <1>13 DEF W

\* A set of transactions in an order of their creation.
LEMMA SortedHold ==
  ASSUME NEW S \in SUBSET Tx, NEW q \in SortedByCreation(S)
  PROVE  q \in Seq(Tx)
<1>1. PICK n \in Nat : n = Cardinality(S)
  BY LedgerAssumption, FS_Subset, FS_CardinalityType
<1>2. q \in [1..n -> S]
  BY <1>1 DEF SortedByCreation, SetToSeqs
<1>3. q \in [1..n -> Tx]
  BY <1>2
<1> QED BY <1>3

\* Blocks that are received.
LEMMA ReceivedHold ==
  ASSUME NEW lcb, NEW blocks \in Received(lcb)
  PROVE  blocks \in Seq(Block)
<1>1. ReceivedTxs \in SUBSET Seq(Tx)
  <2>1. ASSUME NEW q \in ReceivedTxs
        PROVE  q \in Seq(Tx)
    <3>1. PICK S \in SUBSET Tx : q \in SortedByCreation(S)
      BY LedgerAssumption DEF ReceivedTxs
    <3> QED BY <3>1, SortedHold
  <2> QED BY <2>1
<1>2. PICK n \in Nat : blocks \in [1..n -> [miner : Address, txs : ReceivedTxs]]
  BY DEF Received
<1>3. [miner : Address, txs : ReceivedTxs] \subseteq Block
  BY <1>1 DEF Block
<1>4. blocks \in [1..n -> Block]
  BY <1>2, <1>3
<1> QED BY <1>4

-----------------------------------------------------------------------------
(* The handlers *)

\* Stores read from their files: only the cache is computed anew.
LEMMA LoadedHold ==
  ASSUME NEW k \in Int, NEW w \in Holding(k), NEW c \in Seq(Block), NEW q \in Seq(Tx), NEW keys
  PROVE  /\ [w EXCEPT !.cache = LoadedCache(c, q)] \in Holding(k)
         /\ [w EXCEPT !.cache = [t \in ToSet(q) |-> t \in Complete]] \in Holding(k)
         /\ [w EXCEPT !.cache = EraseKeys(@, keys)] \in Holding(k)
<1>1. w \in Stores
  BY DEF Holding
<1>2. ASSUME NEW e \in Cache
      PROVE  [w EXCEPT !.cache = e] \in Holding(k)
  <2>1. PICK u : u = [w EXCEPT !.cache = e]
    OBVIOUS
  <2>2. u \in Stores /\ u.balance = w.balance
    BY <1>1, <2>1 DEF Stores
  <2> QED BY <2>1, <2>2, SameAccounts
<1>3. ToSet(q) \in SUBSET Tx
  BY DEF ToSet
<1>4. LoadedCache(c, q) \in Cache
  <2>1. PICK K : K = UNION {Keys(t) : t \in UNION {ToSet(c[i].txs) : i \in RecentBlocksOf(c)}}
    OBVIOUS
  <2>2. ASSUME NEW i \in RecentBlocksOf(c), NEW t \in ToSet(c[i].txs)
        PROVE  Keys(t) \in SUBSET Tx
    <3>1. c[i] \in Block
      BY DEF RecentBlocksOf
    <3>2. PICK p \in Seq(Tx) : p = c[i].txs
      BY <3>1 DEF Block
    <3>3. t \in Tx
      BY <3>2 DEF ToSet
    <3> QED BY <3>3, LedgerAssumption DEF Keys
  <2>3. K \in SUBSET Tx
    BY <2>1, <2>2
  <2>4. PICK D : D = K \union ToSet(q)
    OBVIOUS
  <2>5. LoadedCache(c, q) = [t \in D |-> t \in K \/ t \in Complete]
    BY <2>1, <2>4 DEF LoadedCache
  <2>6. D \in SUBSET Tx /\ [t \in D |-> t \in K \/ t \in Complete] \in [D -> BOOLEAN]
    BY <1>3, <2>3, <2>4
  <2> QED BY <2>5, <2>6 DEF Cache
<1>5. [t \in ToSet(q) |-> t \in Complete] \in Cache
  <2>1. [t \in ToSet(q) |-> t \in Complete] \in [ToSet(q) -> BOOLEAN]
    OBVIOUS
  <2> QED BY <1>3, <2>1 DEF Cache
<1>6. EraseKeys(w.cache, keys) \in Cache
  <2>1. PICK D \in SUBSET Tx : w.cache \in [D -> BOOLEAN]
    BY <1>1 DEF Stores, Cache
  <2>2. EraseKeys(w.cache, keys) \in [D \ keys -> BOOLEAN] /\ D \ keys \in SUBSET Tx
    BY <2>1 DEF EraseKeys
  <2> QED BY <2>2 DEF Cache
<1> QED BY <1>2, <1>4, <1>5, <1>6

\* The coins there are at the height n.
Supply(n) == SumOver(Genesis, Address) + Emission * n

LEMMA Supplies ==
  ASSUME NEW m \in Nat, NEW n \in Nat
  PROVE  /\ Supply(n) \in Int
         /\ Supply(m) + Emission * n = Supply(m + n)
         /\ Supply(m + n) - Emission * n = Supply(m)
<1>1. PICK s \in Int : s = SumOver(Genesis, Address)
  <2>1. IsFiniteSet(Address) /\ \A a \in Address : Genesis[a] \in Int
    BY LedgerAssumption
  <2> QED BY <2>1, SumOfIntegers
<1>2. PICK e \in Nat : e = Emission
  BY LedgerAssumption
<1>3. PICK x \in Int, y \in Int : x = e * m /\ y = e * n
  OBVIOUS
<1>4. e * (m + n) = x + y
  BY <1>3
<1> QED BY <1>1, <1>2, <1>3, <1>4 DEF Supply

CoinsInv ==
  /\ chain \in Seq(Block)
  /\ Len(chain) \in Nat \ {0}
  /\ stores \in Holding(Supply(HeadNumber))

LEMMA CoinsAtTheStart ==
  ASSUME Init
  PROVE  CoinsInv
<1> USE LedgerAssumption
<1>1. GenesisBlock \in Block
  <2>1. <<>> \in Seq(Tx)
    OBVIOUS
  <2> QED BY <2>1 DEF GenesisBlock, Block
<1>2. chain = <<GenesisBlock>> /\ chain \in Seq(Block) /\ Len(chain) = 1
  BY <1>1 DEF Init
<1>3. HeadNumber = 0
  BY <1>2 DEF HeadNumber
<1>4. stores \in Stores
  <2>1. <<"block", GenesisBlock>> \in Entry
    BY <1>1 DEF Entry
  <2>2. PICK log \in Seq(Entry) : log = <<<<"block", GenesisBlock>>>>
    <3>1. PICK e \in Entry : e = <<"block", GenesisBlock>>
      BY <2>1
    <3>2. <<e>> \in Seq(Entry)
      OBVIOUS
    <3> QED BY <3>1, <3>2
  <2>3. <<>> \in Cache
    <3>1. <<>> \in [{} -> BOOLEAN]
      OBVIOUS
    <3> QED BY <3>1 DEF Cache
  <2>4. <<>> \in Seq(Tx)
    OBVIOUS
  <2>5. Genesis \in [Address -> Int] /\ Genesis[Own] \in Int
    OBVIOUS
  <2> QED BY <2>2, <2>3, <2>4, <2>5 DEF Init, Stores
<1>5. stores.balance = Genesis
  BY DEF Init
<1>6. Coins(stores) = SumOver(Genesis, Address)
  BY <1>5 DEF Coins
<1>7. Supply(0) = SumOver(Genesis, Address)
  <2>1. PICK s \in Int : s = SumOver(Genesis, Address)
    <3>1. IsFiniteSet(Address) /\ \A a \in Address : Genesis[a] \in Int
      OBVIOUS
    <3> QED BY <3>1, SumOfIntegers
  <2> QED BY <2>1 DEF Supply
<1> QED BY <1>2, <1>3, <1>4, <1>6, <1>7 DEF CoinsInv, Holding

LEMMA ReceiveHolds ==
  ASSUME CoinsInv, NEW t \in Tx, Receive(t)
  PROVE  CoinsInv'
<1>1. PICK n \in Nat : n = HeadNumber
  BY DEF CoinsInv, HeadNumber
<1>2. PutBack(stores, t) \in Holding(Supply(n))
  <2>1. Supply(n) \in Int
    BY Supplies
  <2>2. stores \in Holding(Supply(n))
    BY <1>1 DEF CoinsInv
  <2> QED BY <2>1, <2>2, PutBackHolds
<1>3. stores' = PutBack(stores, t) /\ chain' = chain
  BY DEF Receive
<1> QED BY <1>1, <1>2, <1>3 DEF CoinsInv, HeadNumber

LEMMA MineBlockHolds ==
  ASSUME CoinsInv, MineBlock
  PROVE  CoinsInv'
<1> DEFINE time       == TimeOf(HeadNumber + 1)
           reverted   == {t \in ToSet(stores.pool) : time <= Expiry[t]}
           young      == {t \in reverted : Creation[t] < time}
           merged     == Merged(young)
           joined     == UNION {Parts[t] : t \in merged}
           candidates == (young \intersect Complete) \union merged
           bare       == RevertPool(stores)
           tried(order) == FoldLeft(TryTransaction, [w |-> bare, txs |-> <<>>, failed |-> {}], order)
           block(order) == [miner |-> Own, txs |-> tried(order).txs]
           rest(picked, order) == (reverted \ young)
                         \union ((young \ Complete) \ joined)
                         \union (candidates \ picked) \union tried(order).failed
<1>1. PICK n \in Nat : n = HeadNumber /\ Len(chain) = n + 1
  BY DEF CoinsInv, HeadNumber
<1>2. PICK k \in Int : k = Supply(n)
  BY Supplies
<1>3. stores \in Holding(k) /\ chain \in Seq(Block)
  BY <1>1, <1>2 DEF CoinsInv
<1>4. reverted \in SUBSET Tx /\ candidates \in SUBSET Tx
  <2>1. PICK q \in Seq(Tx) : q = stores.pool
    BY <1>3 DEF Holding, Stores
  <2>2. ToSet(q) \in SUBSET Tx
    BY DEF ToSet
  <2>3. reverted \in SUBSET Tx
    BY <2>1, <2>2
  <2>4. merged \in SUBSET Tx
    BY LedgerAssumption DEF Merged
  <2> QED BY <2>3, <2>4
<1>5. PICK picked \in SUBSET candidates :
        \E order \in SortedByCreation(picked) :
          /\ chain' = Append(chain, block(order))
          /\ \E back \in SortedByCreation(rest(picked, order)) :
               stores' = FoldLeft(PutBack, CloseBlock(tried(order).w, block(order)), back)
  BY DEF MineBlock
<1>6. PICK order \in SortedByCreation(picked) :
        /\ chain' = Append(chain, block(order))
        /\ \E back \in SortedByCreation(rest(picked, order)) :
             stores' = FoldLeft(PutBack, CloseBlock(tried(order).w, block(order)), back)
  BY <1>5
<1>7. order \in Seq(Tx)
  BY <1>4, <1>6, SortedHold
<1>8. PICK r \in Trial(k) : r = tried(order)
  <2>1. bare \in Holding(k)
    BY <1>3, RevertPoolHolds
  <2>2. <<>> \in Seq(Tx)
    OBVIOUS
  <2>3. [w |-> bare, txs |-> <<>>, failed |-> {}] \in Trial(k)
    BY <2>1, <2>2 DEF Trial
  <2> HIDE DEF bare
  <2> QED BY <1>7, <2>3, Trying
<1>9. PICK b \in Block : b = block(order)
  BY <1>8, LedgerAssumption DEF Trial, Block
<1>10. PICK back \in SortedByCreation(rest(picked, order)) :
        stores' = FoldLeft(PutBack, CloseBlock(r.w, b), back)
  BY <1>6, <1>8, <1>9
<1>11. back \in Seq(Tx)
  <2>1. rest(picked, order) \in SUBSET Tx
    BY <1>4, <1>8 DEF Trial
  <2> QED BY <1>10, <2>1, SortedHold
<1>12. stores' \in Holding(k + Emission)
  <2>1. PICK v \in Holding(k) : v = r.w
    BY DEF Trial
  <2>2. PICK j \in Int : j = k + Emission
    BY LedgerAssumption
  <2>3. CloseBlock(v, b) \in Holding(j)
    BY <2>2, CloseBlockHolds
  <2>4. PICK u \in Holding(j) : u = CloseBlock(v, b)
    BY <2>3
  <2>5. FoldLeft(PutBack, u, back) \in Holding(j)
    BY <1>11, PuttingBack
  <2> QED BY <1>10, <2>1, <2>2, <2>4, <2>5
<1>13. chain' = Append(chain, b)
  BY <1>6, <1>9
<1> HIDE DEF time, reverted, young, merged, joined, candidates, bare, tried, block, rest
<1>14. chain' \in Seq(Block) /\ Len(chain') = n + 2
  BY <1>1, <1>3, <1>13
<1>15. HeadNumber' = n + 1
  BY <1>14 DEF HeadNumber
<1>16. k + Emission = Supply(n + 1)
  <2>1. Supply(n) + Emission * 1 = Supply(n + 1)
    BY Supplies
  <2>2. Emission * 1 = Emission
    BY LedgerAssumption
  <2> QED BY <1>2, <2>1, <2>2
<1> QED BY <1>12, <1>14, <1>15, <1>16 DEF CoinsInv

LEMMA SyncBlocksHolds ==
  ASSUME CoinsInv, NEW lcb \in 0..HeadNumber, SyncBlocks(lcb)
  PROVE  CoinsInv'
<1> DEFINE bare    == RevertBlocks(RevertPool(stores), lcb)
           removed == FlattenSeq([n \in 1..(HeadNumber - lcb) |-> chain[n + lcb + 1].txs])
           alive   == Those(stores.pool, {t \in Tx : now <= Expiry[t]})
           start   == [w |-> bare, ok |-> TRUE, miner |-> Own]
<1>1. PICK m \in Nat, d \in Nat : m = lcb /\ m + d = HeadNumber /\ Len(chain) = m + d + 1
  <2>1. PICK h \in Nat : h = HeadNumber /\ Len(chain) = h + 1
    BY DEF CoinsInv, HeadNumber
  <2>2. lcb \in Nat /\ h - lcb \in Nat /\ lcb + (h - lcb) = h
    BY <2>1
  <2> QED BY <2>1, <2>2
<1>2. PICK k \in Int : k = Supply(m + d)
  BY Supplies
<1>3. stores \in Holding(k) /\ chain \in Seq(Block)
  BY <1>1, <1>2 DEF CoinsInv
<1>4. PICK j \in Int : j = Supply(m) /\ k - Emission * d = j
  BY <1>2, Supplies
<1>5. PICK w \in Holding(j) : w = bare
  <2>1. PICK v \in Holding(k) : v = RevertPool(stores)
    BY <1>3, RevertPoolHolds
  <2>2. lcb \in 0..(Len(chain) - 1) /\ HeadNumber - lcb = d
    BY <1>1
  <2>3. RevertBlocks(v, lcb) \in Holding(k - Emission * (HeadNumber - lcb))
    BY <1>3, <2>2, TakingBlocksOff
  <2> QED BY <1>4, <2>1, <2>2, <2>3
<1>6. removed \in Seq(Tx)
  <2>1. PICK q : q = [n \in 1..d |-> chain[n + lcb + 1].txs]
    OBVIOUS
  <2>2. ASSUME NEW n \in 1..d
        PROVE  chain[n + lcb + 1].txs \in Seq(Tx)
    <3>1. n + lcb + 1 \in 1..Len(chain)
      BY <1>1
    <3>2. chain[n + lcb + 1] \in Block
      BY <1>3, <3>1
    <3> QED BY <3>2 DEF Block
  <2>3. q \in [1..d -> Seq(Tx)]
    BY <2>1, <2>2
  <2>4. q \in Seq(Seq(Tx))
    BY <2>3
  <2>5. HeadNumber - lcb = d
    BY <1>1
  <2>6. removed = FlattenSeq(q)
    BY <2>1, <2>5
  <2> QED BY <2>4, <2>6, FlattenedHold
<1>7. alive \in Seq(Tx)
  <2>1. PICK q \in Seq(Tx) : q = stores.pool
    BY <1>3 DEF Holding, Stores
  <2> QED BY <2>1, ThoseHold
<1>8. PICK blocks \in Received(lcb) :
        LET verified == FoldLeft(VerifyBlock, start, blocks)
        IN  /\ verified.ok
            /\ chain' = SubSeq(chain, 1, lcb + 1) \o blocks
            /\ \E more \in BOOLEAN :
                 stores' = IF Len(chain') < FreezeBefore
                           THEN FoldLeft(Return, verified.w,
                                         removed \o (IF more THEN <<>> ELSE alive))
                           ELSE verified.w
  BY DEF SyncBlocks
<1>9. blocks \in Seq(Block)
  BY ReceivedHold
<1>10. PICK l \in Nat : l = Len(blocks)
  BY <1>9
<1>11. PICK r \in VerdictOn(j + Emission * l) : r = FoldLeft(VerifyBlock, start, blocks)
  <2>1. w \in Stores
    BY DEF Holding
  <2>2. PICK s : s = [w |-> w, ok |-> TRUE, miner |-> Own]
    OBVIOUS
  <2>3. s \in VerdictOn(j)
    BY <2>1, <2>2, LedgerAssumption DEF VerdictOn, Verdict
  <2>4. s = start
    BY <1>5, <2>2
  <2> HIDE DEF start
  <2> QED BY <1>9, <1>10, <2>3, <2>4, VerifyingBlocks
<1> HIDE DEF start, removed, alive, bare
<1>12. /\ r.ok
       /\ chain' = SubSeq(chain, 1, lcb + 1) \o blocks
       /\ \E q \in Seq(Tx) : stores' = FoldLeft(Return, r.w, q) \/ stores' = r.w
  <2>1. PICK more \in BOOLEAN :
          stores' = IF Len(chain') < FreezeBefore
                    THEN FoldLeft(Return, r.w, removed \o (IF more THEN <<>> ELSE alive))
                    ELSE r.w
    BY <1>8, <1>11
  <2>2. PICK a \in Seq(Tx) : a = IF more THEN <<>> ELSE alive
    <3>1. <<>> \in Seq(Tx)
      OBVIOUS
    <3> QED BY <1>7, <3>1
  <2>3. PICK q \in Seq(Tx) : q = removed \o a
    BY <1>6, ConcatProperties
  <2>4. stores' = FoldLeft(Return, r.w, q) \/ stores' = r.w
    BY <2>1, <2>2, <2>3
  <2> QED BY <1>8, <1>11, <2>4
<1>13. PICK i \in Int : i = Supply(m + l) /\ j + Emission * l = i
  <2>1. m + l \in Nat
    OBVIOUS
  <2>2. Supply(m + l) \in Int
    BY <2>1, Supplies
  <2>3. Supply(m) + Emission * l = Supply(m + l)
    BY Supplies
  <2> QED BY <1>4, <2>2, <2>3
<1>14. stores' \in Holding(i)
  <2>1. PICK v \in Holding(i) : v = r.w
    BY <1>11, <1>12, <1>13 DEF VerdictOn
  <2>2. PICK q \in Seq(Tx) : stores' = FoldLeft(Return, v, q) \/ stores' = v
    BY <1>12, <2>1
  <2>3. FoldLeft(Return, v, q) \in Holding(i)
    BY Returning
  <2> QED BY <2>2, <2>3
<1>15. chain' \in Seq(Block) /\ Len(chain') = m + 1 + l
  <2>1. lcb + 1 \in Nat /\ lcb + 1 <= Len(chain) /\ lcb + 1 = m + 1
    BY <1>1
  <2>2. PICK p \in Seq(Block) : p = SubSeq(chain, 1, lcb + 1) /\ Len(p) = m + 1
    <3>1. /\ SubSeq(chain, 1, lcb + 1) \in Seq(Block)
          /\ Len(SubSeq(chain, 1, lcb + 1)) = m + 1
      BY <1>3, <2>1, SubSeqProperties
    <3> QED BY <3>1
  <2>3. p \o blocks \in Seq(Block) /\ Len(p \o blocks) = m + 1 + l
    BY <1>9, <1>10, <2>2, ConcatProperties
  <2> QED BY <1>12, <2>2, <2>3
<1>16. HeadNumber' = m + l /\ Len(chain') \in Nat \ {0}
  BY <1>15 DEF HeadNumber
<1> QED BY <1>13, <1>14, <1>15, <1>16 DEF CoinsInv

LEMMA RevertLastBlocksHolds ==
  ASSUME CoinsInv, NEW count \in 1..HeadNumber, RevertLastBlocks(count)
  PROVE  CoinsInv'
<1> DEFINE kept   == SubSeq(chain, 1, Len(chain) - count)
           loaded == [stores EXCEPT !.cache = [t \in ToSet(stores.pool) |-> t \in Complete]]
           bare   == RevertBlocks(RevertPool(loaded), HeadNumber - count)
<1>1. PICK m \in Nat, d \in Nat :
        d = count /\ m = HeadNumber - count /\ m + d = HeadNumber /\ Len(chain) = m + d + 1
  <2>1. PICK h \in Nat : h = HeadNumber /\ Len(chain) = h + 1
    BY DEF CoinsInv, HeadNumber
  <2>2. count \in Nat /\ h - count \in Nat /\ (h - count) + count = h
    BY <2>1
  <2> QED BY <2>1, <2>2
<1>2. PICK k \in Int : k = Supply(m + d)
  BY Supplies
<1>3. stores \in Holding(k) /\ chain \in Seq(Block)
  BY <1>1, <1>2 DEF CoinsInv
<1>4. PICK j \in Int : j = Supply(m) /\ k - Emission * d = j
  BY <1>2, Supplies
<1>5. PICK q \in Seq(Tx) : q = stores.pool
  BY <1>3 DEF Holding, Stores
<1>6. PICK v \in Holding(k) : v = loaded
  BY <1>3, <1>5, LoadedHold
<1>7. PICK w \in Holding(j) : w = bare
  <2>1. PICK u \in Holding(k) : u = RevertPool(v)
    BY RevertPoolHolds
  <2>2. m \in 0..(Len(chain) - 1) /\ HeadNumber - m = d
    BY <1>1
  <2>3. RevertBlocks(u, m) \in Holding(k - Emission * (HeadNumber - m))
    BY <1>3, <2>2, TakingBlocksOff
  <2> HIDE DEF loaded
  <2> QED BY <1>1, <1>4, <1>6, <2>1, <2>2, <2>3
<1>8. kept \in Seq(Block) /\ Len(kept) = m + 1
  <2>1. PICK n \in Nat : n = Len(chain) - count /\ n <= Len(chain) /\ n = m + 1
    BY <1>1
  <2> QED BY <1>3, <2>1, SubSeqProperties
<1>9. chain' = kept /\ stores' = [w EXCEPT !.cache = LoadedCache(kept, <<>>)]
  BY <1>7 DEF RevertLastBlocks
<1>10. stores' \in Holding(j)
  <2>1. <<>> \in Seq(Tx)
    OBVIOUS
  <2> HIDE DEF kept
  <2> QED BY <1>8, <1>9, <2>1, LoadedHold
<1>11. HeadNumber' = m /\ Len(chain') \in Nat \ {0}
  BY <1>8, <1>9, SMTT(30) DEF HeadNumber
<1> QED BY <1>4, <1>8, <1>9, <1>10, <1>11 DEF CoinsInv

LEMMA CoinsInvHolds ==
  ASSUME CoinsInv, [Next]_vars
  PROVE  CoinsInv'
<1>1. PICK k \in Int : stores \in Holding(k) /\ k = Supply(HeadNumber)
  <2>1. HeadNumber \in Nat
    BY DEF CoinsInv, HeadNumber
  <2>2. Supply(HeadNumber) \in Int
    BY <2>1, Supplies
  <2> QED BY <2>2 DEF CoinsInv
<1>2. chain \in Seq(Block) /\ Len(chain) \in Nat \ {0}
  BY DEF CoinsInv
<1>3. PICK q \in Seq(Tx) : q = stores.pool
  BY <1>1 DEF Holding, Stores
<1>4. ASSUME chain' = chain, stores' \in Holding(k)
      PROVE  CoinsInv'
  <2>1. HeadNumber' = HeadNumber
    BY <1>4 DEF HeadNumber
  <2> QED BY <1>1, <1>2, <1>4, <2>1 DEF CoinsInv
<1>5. CASE \E t \in Tx : Receive(t)
  BY <1>5, ReceiveHolds
<1>6. CASE MineBlock
  BY <1>6, MineBlockHolds
<1>7. CASE \E lcb \in 0..HeadNumber : SyncBlocks(lcb)
  BY <1>7, SyncBlocksHolds
<1>8. CASE CleanCache
  <2>1. PICK keys : stores' = [stores EXCEPT !.cache = EraseKeys(@, keys)]
    BY <1>8 DEF CleanCache
  <2>2. stores' \in Holding(k)
    BY <1>1, <1>2, <1>3, <2>1, LoadedHold
  <2> QED BY <1>4, <1>8, <2>2 DEF CleanCache
<1>9. CASE Restart
  <2>1. stores' \in Holding(k)
    BY <1>1, <1>2, <1>3, <1>9, LoadedHold DEF Restart
  <2> QED BY <1>4, <1>9, <2>1 DEF Restart
<1>10. CASE \E count \in 1..HeadNumber : RevertLastBlocks(count)
  BY <1>10, RevertLastBlocksHolds
<1>11. CASE Tick
  BY <1>1, <1>4, <1>11 DEF Tick
<1>12. CASE UNCHANGED vars
  BY <1>1, <1>4, <1>12 DEF vars
<1> QED BY <1>5, <1>6, <1>7, <1>8, <1>9, <1>10, <1>11, <1>12 DEF Next

\* The coins in the accounts are those of the genesis block and one emission for
\* every block of the chain, whatever was received, mined, replaced by the blocks
\* of a peer, reverted or loaded in between: every handler of action_log, state
\* and sessions takes off exactly the coins it, or an earlier one, put on.
THEOREM CoinsAreConserved == Spec => []CoinsConserved
<1>1. Init => CoinsInv
  BY CoinsAtTheStart
<1>2. CoinsInv /\ [Next]_vars => CoinsInv'
  BY CoinsInvHolds
<1>3. CoinsInv => CoinsConserved
  <2>1. ASSUME CoinsInv
        PROVE  SumOver(stores.balance, Address) = SumOver(Genesis, Address) + Emission * HeadNumber
    BY <2>1 DEF CoinsInv, Holding, Coins, Supply
  <2> QED BY <2>1 DEF CoinsConserved, SumOver
<1> QED BY <1>1, <1>2, <1>3, PTL DEF Spec

-----------------------------------------------------------------------------
(* Implementation of TransactionFlow                                        *)

\* A transaction of a block of a miner is taken off, and its keys with it.
Unapplied(t, v, miner) ==
  [ChainRevert(v, t, miner) EXCEPT !.cache = EraseKeys(@, Keys(t))]

-----------------------------------------------------------------------------
(* Folds: what the handlers do to the stores for one transaction or block   *)
(* after the other, under one name                                          *)

Do(kind, p, v, x) ==
  CASE kind = "pooled"  -> RevertPooled(x, v)
    [] kind = "unapply" -> Unapplied(x, v, p)
    [] kind = "add"     -> AddChain(v, x)
    [] kind = "unblock" -> Unblocked(x, v)
    [] kind = "put"     -> PutBack(v, x)
    [] kind = "return"  -> Return(v, x)
    [] kind = "try"     -> TryTransaction(v, x)
    [] kind = "verify"  -> VerifyTransaction(v, x)
    [] kind = "block"   -> VerifyBlock(v, x)
    [] kind = "keep"    -> IF x \in p THEN Append(v, x) ELSE v
    [] kind = "apply"   -> ActionApply(v, x, "pool")

\* f holds what comes of the elements of q at each set of places.
Table(f, S, c, kind, p, base, q) ==
  f = [s \in SUBSET S |-> IF s = {} THEN base ELSE Do(kind, p, f[s \ {c[s]}], q[c[s]])]

LEMMA DoExists ==
  ASSUME NEW S, IsFiniteSet(S), NEW c, Chooses(c, S), NEW kind, NEW p, NEW base, NEW q
  PROVE  \E f : Table(f, S, c, kind, p, base, q)
<1> DEFINE Small(m) == {s \in SUBSET S : Cardinality(s) <= m}
           Next1(g, s) == IF s = {} THEN base ELSE Do(kind, p, g[s \ {c[s]}], q[c[s]])
           Is(f, m) == f = [s \in Small(m) |-> Next1(f, s)]
           T == {m \in Nat : \E f : Is(f, m)}
<1>1. \A s \in SUBSET S : /\ IsFiniteSet(s) /\ Cardinality(s) \in Nat
                          /\ Cardinality(s) <= Cardinality(S)
                          /\ Cardinality(s) = 0 <=> s = {}
  BY FS_Subset, FS_CardinalityType, FS_EmptySet
<1>2. \A s \in SUBSET S : s # {} => /\ c[s] \in S /\ s \ {c[s]} \in SUBSET S
                                    /\ Cardinality(s \ {c[s]}) = Cardinality(s) - 1
  BY <1>1, FS_RemoveElement DEF Chooses
<1>3. 0 \in T
  <2> DEFINE g == [s \in Small(0) |-> base]
  <2>1. \A s \in Small(0) : s = {}
    BY <1>1
  <2>2. Is(g, 0)
    BY <2>1
  <2> QED BY <2>2
<1>4. \A m \in T : m + 1 \in T
  <2> SUFFICES ASSUME NEW m \in T
               PROVE  m + 1 \in T
    OBVIOUS
  <2>1. PICK f : Is(f, m)
    OBVIOUS
  <2> DEFINE g == [s \in Small(m + 1) |-> Next1(f, s)]
  <2>2. \A s \in Small(m + 1) : s # {} => s \ {c[s]} \in Small(m)
    BY <1>1, <1>2
  <2>3. Small(m) \subseteq Small(m + 1)
    BY <1>1
  <2>4. \A s \in Small(m) : f[s] = Next1(f, s)
    BY <2>1
  <2> HIDE DEF Small
  <2>5. \A s \in Small(m) : g[s] = f[s]
    BY <2>3, <2>4
  <2>6. \A s \in Small(m + 1) : Next1(f, s) = Next1(g, s)
    <3> HIDE DEF g
    <3> QED BY <2>2, <2>5
  <2>7. Is(g, m + 1)
    <3>1. PICK h : h = [s \in Small(m + 1) |-> Next1(f, s)]
      OBVIOUS
    <3>2. h = g /\ \A s \in Small(m + 1) : Next1(f, s) = Next1(h, s)
      BY <2>6, <3>1
    <3> HIDE DEF g, Next1
    <3>3. h = [s \in Small(m + 1) |-> Next1(h, s)]
      BY <3>1, <3>2
    <3> QED BY <3>2, <3>3
  <2>8. m + 1 \in Nat /\ \E h : Is(h, m + 1)
    <3> HIDE DEF g, Is
    <3> QED BY <2>7
  <2> QED BY <2>8
<1>5. T = Nat
  <2> HIDE DEF T
  <2>1. T \in SUBSET Nat
    BY DEF T
  <2> QED BY <1>3, <1>4, <2>1, InductionOnSet
<1>6. PICK f : Is(f, Cardinality(S))
  <2>1. Cardinality(S) \in T
    BY <1>1, <1>5
  <2> QED BY <2>1
<1>7. Small(Cardinality(S)) = SUBSET S
  BY <1>1
<1> QED BY <1>6, <1>7 DEF Table

\* f[n] is what comes of the first n elements of q, or of all but the first n.
LeftRun(f, kind, p, base, q) ==
  f[0] = base /\ \A n \in 1..Len(q) : f[n] = Do(kind, p, f[n - 1], q[n])
RightRun(f, kind, p, base, q) ==
  f[Len(q)] = base /\ \A n \in 1..Len(q) : f[n - 1] = Do(kind, p, f[n], q[n])

LEMMA LeftTable ==
  ASSUME NEW A, NEW q \in Seq(A), NEW kind, NEW p, NEW base, NEW iter,
         Table(iter, DOMAIN q, Lasts(DOMAIN q), kind, p, base, q)
  PROVE  \E f : LeftRun(f, kind, p, base, q) /\ iter[DOMAIN q] = f[Len(q)]
<1>1. PICK N \in Nat : N = Len(q) /\ DOMAIN q = 1..N
  OBVIOUS
<1>2. PICK f : f = [n \in 0..N |-> iter[1..n]]
  OBVIOUS
<1>3. iter[{}] = base
  BY DEF Table
<1>4. f[0] = base
  <2>1. 1..0 = {} /\ 0 \in 0..N
    BY <1>1
  <2> QED BY <1>2, <1>3, <2>1
<1>5. ASSUME NEW n \in 1..N
      PROVE  f[n] = Do(kind, p, f[n - 1], q[n])
  <2>1. PICK s \in SUBSET (1..N) : s = 1..n /\ n \in s
    BY <1>1
  <2>2. s # {} /\ s \in SUBSET (0..N)
    <3>1. s # {}
      BY <2>1
    <3>2. \A m \in s : m \in 0..N
      OBVIOUS
    <3> QED BY <3>1, <3>2
  <2>3. Max(s) = n
    <3>1. Max(s) \in s /\ \A m \in s : m <= Max(s)
      BY <2>2, GreatestNumber
    <3> QED BY <2>1, <3>1
  <2>4. s \ {n} = 1..(n - 1)
    BY <2>1
  <2>5. Lasts(DOMAIN q)[s] = n
    BY <1>1, <2>3 DEF Lasts
  <2>6. iter[s] = Do(kind, p, iter[s \ {n}], q[n])
    BY <1>1, <2>2, <2>5 DEF Table
  <2>7. f[n] = iter[s] /\ f[n - 1] = iter[s \ {n}]
    BY <1>2, <2>1, <2>4
  <2> QED BY <2>6, <2>7
<1>6. f[N] = iter[1..N]
  BY <1>1, <1>2
<1> QED BY <1>1, <1>4, <1>5, <1>6 DEF LeftRun

LEMMA RightTable ==
  ASSUME NEW A, NEW q \in Seq(A), NEW kind, NEW p, NEW base, NEW iter,
         Table(iter, DOMAIN q, Firsts(DOMAIN q), kind, p, base, q)
  PROVE  \E f : RightRun(f, kind, p, base, q) /\ iter[DOMAIN q] = f[0]
<1>1. PICK N \in Nat : N = Len(q) /\ DOMAIN q = 1..N
  OBVIOUS
<1>2. PICK f : f = [n \in 0..N |-> iter[(n + 1)..N]]
  OBVIOUS
<1>3. iter[{}] = base
  BY DEF Table
<1>4. f[N] = base
  <2>1. (N + 1)..N = {} /\ N \in 0..N
    BY <1>1
  <2> QED BY <1>2, <1>3, <2>1
<1>5. ASSUME NEW n \in 1..N
      PROVE  f[n - 1] = Do(kind, p, f[n], q[n])
  <2>1. PICK s \in SUBSET (1..N) : s = n..N /\ n \in s
    BY <1>1
  <2>2. s # {} /\ s \in SUBSET (0..N)
    <3>1. s # {}
      BY <2>1
    <3>2. \A m \in s : m \in 0..N
      OBVIOUS
    <3> QED BY <3>1, <3>2
  <2>3. Min(s) = n
    <3>1. Min(s) \in s /\ \A m \in s : Min(s) <= m
      BY <2>2, LeastOfRange
    <3> QED BY <2>1, <3>1
  <2>4. s \ {n} = (n + 1)..N
    BY <2>1
  <2>5. Firsts(DOMAIN q)[s] = n
    BY <1>1, <2>3 DEF Firsts
  <2>6. iter[s] = Do(kind, p, iter[s \ {n}], q[n])
    BY <1>1, <2>2, <2>5 DEF Table
  <2>7. f[n - 1] = iter[s] /\ f[n] = iter[s \ {n}]
    <3>1. n - 1 \in 0..N /\ (n - 1) + 1 = n /\ n \in 0..N
      BY <1>1
    <3> QED BY <1>2, <2>1, <2>4, <3>1
  <2> QED BY <2>6, <2>7
<1>6. f[0] = iter[1..N]
  BY <1>1, <1>2
<1> QED BY <1>1, <1>4, <1>5, <1>6 DEF RightRun

\* The pool is taken off from its last transaction.
LEMMA PooledRun ==
  ASSUME NEW A, NEW q \in Seq(A), NEW w
  PROVE  \E f : /\ RightRun(f, "pooled", <<>>, w, q)
                /\ FoldRight(RevertPooled, q, w) = f[0]
<1> DEFINE D == DOMAIN q
           c == Firsts(D)
           step(g) == [s \in SUBSET DOMAIN q |->
                         IF s = {} THEN w
                         ELSE LET i == Min(s) IN RevertPooled(q[i], g[s \ {i}])]
           iter == CHOOSE g : g = step(g)
<1>1. /\ IsFiniteSet(D) /\ Chooses(c, D)
      /\ \A s \in SUBSET D : c[s] = Min(s)
  BY FoldPlaces DEF Firsts
<1>2. FoldRight(RevertPooled, q, w) = iter[D]
  BY DEF FoldRight, MapThenFoldSet
<1> HIDE DEF D, c
<1>3. \A v, x : Do("pooled", <<>>, v, x) = RevertPooled(x, v)
  BY DEF Do
<1>4. PICK f : Table(f, D, c, "pooled", <<>>, w, q)
  BY <1>1, DoExists
<1>5. f = step(f)
  <2>1. \A s \in SUBSET D : s # {} => f[s] = RevertPooled(q[Min(s)], f[s \ {Min(s)}])
    <3> TAKE s \in SUBSET D
    <3>1. s # {} => f[s] = Do("pooled", <<>>, f[s \ {c[s]}], q[c[s]])
      BY <1>4 DEF Table
    <3>2. c[s] = Min(s)
      BY <1>1
    <3> QED BY <1>3, <3>1, <3>2
  <2>2. f = [s \in SUBSET D |-> f[s]] /\ f[{}] = w
    BY <1>4 DEF Table
  <2> QED BY <2>1, <2>2 DEF D
<1>6. iter = step(iter)
  <2> HIDE DEF step
  <2> QED BY <1>5
<1> HIDE DEF iter
<1>7. Table(iter, D, c, "pooled", <<>>, w, q)
  <2>1. \A s \in SUBSET D : s # {} => iter[s] = RevertPooled(q[c[s]], iter[s \ {c[s]}])
    BY <1>1, <1>6 DEF D
  <2>2. iter = [s \in SUBSET D |-> iter[s]] /\ iter[{}] = w
    BY <1>6 DEF D
  <2>3. \A s \in SUBSET D : s # {} => iter[s] = Do("pooled", <<>>, iter[s \ {c[s]}], q[c[s]])
    BY <1>3, <2>1
  <2> QED BY <2>2, <2>3 DEF Table
<1> QED BY <1>2, <1>7, RightTable DEF D, c

\* A block is taken off: the reward, then its transactions from the last one.
LEMMA RevertBlockRun ==
  ASSUME NEW w, NEW block \in Block
  PROVE  \E f : /\ RightRun(f, "unapply", block.miner,
                            Pay([w EXCEPT !.log = Front(@)], block.miner, -Emission, "chain"),
                            block.txs)
                /\ RevertBlock(w, block) = f[0]
<1> DEFINE Unapply(t, v) == [ChainRevert(v, t, block.miner) EXCEPT !.cache = EraseKeys(@, Keys(t))]
<1>1. PICK q \in Seq(Tx) : q = block.txs
  BY DEF Block
<1>2. PICK r : r = Pay([w EXCEPT !.log = Front(@)], block.miner, -Emission, "chain")
  OBVIOUS
<1>3. RevertBlock(w, block) = FoldRight(Unapply, q, r)
  BY <1>1, <1>2 DEF RevertBlock
<1> DEFINE D == DOMAIN q
           c == Firsts(D)
           step(g) == [s \in SUBSET DOMAIN q |->
                         IF s = {} THEN r
                         ELSE LET i == Min(s) IN Unapply(q[i], g[s \ {i}])]
           iter == CHOOSE g : g = step(g)
<1>4. /\ IsFiniteSet(D) /\ Chooses(c, D)
      /\ \A s \in SUBSET D : c[s] = Min(s)
  BY FoldPlaces DEF Firsts
<1>5. FoldRight(Unapply, q, r) = iter[D]
  BY DEF FoldRight, MapThenFoldSet
<1> HIDE DEF D, c
<1>6. \A v, x : Do("unapply", block.miner, v, x) = Unapply(x, v)
  BY DEF Do, Unapplied
<1> HIDE DEF Unapply
<1>7. PICK tab : Table(tab, D, c, "unapply", block.miner, r, q)
  BY <1>4, DoExists
<1>8. tab = step(tab)
  <2>1. \A s \in SUBSET D : s # {} => tab[s] = Unapply(q[Min(s)], tab[s \ {Min(s)}])
    <3> TAKE s \in SUBSET D
    <3>1. s # {} => tab[s] = Do("unapply", block.miner, tab[s \ {c[s]}], q[c[s]])
      BY <1>7 DEF Table
    <3>2. c[s] = Min(s)
      BY <1>4
    <3> QED BY <1>6, <3>1, <3>2
  <2>2. tab = [s \in SUBSET D |-> tab[s]] /\ tab[{}] = r
    BY <1>7 DEF Table
  <2> QED BY <2>1, <2>2 DEF D
<1>9. iter = step(iter)
  <2> HIDE DEF step
  <2> QED BY <1>8
<1> HIDE DEF iter
<1>10. Table(iter, D, c, "unapply", block.miner, r, q)
  <2>1. \A s \in SUBSET D : s # {} => iter[s] = Unapply(q[c[s]], iter[s \ {c[s]}])
    BY <1>4, <1>9 DEF D
  <2>2. iter = [s \in SUBSET D |-> iter[s]] /\ iter[{}] = r
    BY <1>9 DEF D
  <2>3. \A s \in SUBSET D : s # {} => iter[s] = Do("unapply", block.miner, iter[s \ {c[s]}], q[c[s]])
    BY <1>6, <2>1
  <2> QED BY <2>2, <2>3 DEF Table
<1>11. PICK f : RightRun(f, "unapply", block.miner, r, q) /\ iter[D] = f[0]
  BY <1>10, RightTable DEF D, c
<1>12. FoldRight(Unapply, q, r) = f[0]
  BY <1>5, <1>11
<1> QED BY <1>11, <1>12, <1>1, <1>2, <1>3

\* The keys of an old block are put into the cache again.
LEMMA AddRun ==
  ASSUME NEW A, NEW q \in Seq(A), NEW w
  PROVE  \E f : /\ LeftRun(f, "add", <<>>, w, q)
                /\ FoldLeft(AddChain, w, q) = f[Len(q)]
<1> DEFINE D == DOMAIN q
           c == Lasts(D)
           step(g) == [s \in SUBSET DOMAIN q |->
                         IF s = {} THEN w
                         ELSE LET i == Max(s) IN AddChain(g[s \ {i}], q[i])]
           iter == CHOOSE g : g = step(g)
<1>1. /\ IsFiniteSet(D) /\ Chooses(c, D)
      /\ \A s \in SUBSET D : c[s] = Max(s)
  BY FoldPlaces DEF Lasts
<1>2. FoldLeft(AddChain, w, q) = iter[D]
  BY DEF FoldLeft, MapThenFoldSet
<1> HIDE DEF D, c
<1>3. \A v, x : Do("add", <<>>, v, x) = AddChain(v, x)
  BY DEF Do
<1>4. PICK f : Table(f, D, c, "add", <<>>, w, q)
  BY <1>1, DoExists
<1>5. f = step(f)
  <2>1. \A s \in SUBSET D : s # {} => f[s] = AddChain(f[s \ {Max(s)}], q[Max(s)])
    <3> TAKE s \in SUBSET D
    <3>1. s # {} => f[s] = Do("add", <<>>, f[s \ {c[s]}], q[c[s]])
      BY <1>4 DEF Table
    <3>2. c[s] = Max(s)
      BY <1>1
    <3> QED BY <1>3, <3>1, <3>2
  <2>2. f = [s \in SUBSET D |-> f[s]] /\ f[{}] = w
    BY <1>4 DEF Table
  <2> QED BY <2>1, <2>2 DEF D
<1>6. iter = step(iter)
  <2> HIDE DEF step
  <2> QED BY <1>5
<1> HIDE DEF iter
<1>7. Table(iter, D, c, "add", <<>>, w, q)
  <2>1. \A s \in SUBSET D : s # {} => iter[s] = AddChain(iter[s \ {c[s]}], q[c[s]])
    BY <1>1, <1>6 DEF D
  <2>2. iter = [s \in SUBSET D |-> iter[s]] /\ iter[{}] = w
    BY <1>6 DEF D
  <2>3. \A s \in SUBSET D : s # {} => iter[s] = Do("add", <<>>, iter[s \ {c[s]}], q[c[s]])
    BY <1>3, <2>1
  <2> QED BY <2>2, <2>3 DEF Table
<1> QED BY <1>2, <1>7, LeftTable DEF D, c

\* Blocks are taken off from the last one.
LEMMA UnblockRun ==
  ASSUME NEW A, NEW q \in Seq(A), NEW w
  PROVE  \E f : /\ RightRun(f, "unblock", <<>>, w, q)
                /\ FoldRight(Unblocked, q, w) = f[0]
<1> DEFINE D == DOMAIN q
           c == Firsts(D)
           step(g) == [s \in SUBSET DOMAIN q |->
                         IF s = {} THEN w
                         ELSE LET i == Min(s) IN Unblocked(q[i], g[s \ {i}])]
           iter == CHOOSE g : g = step(g)
<1>1. /\ IsFiniteSet(D) /\ Chooses(c, D)
      /\ \A s \in SUBSET D : c[s] = Min(s)
  BY FoldPlaces DEF Firsts
<1>2. FoldRight(Unblocked, q, w) = iter[D]
  BY DEF FoldRight, MapThenFoldSet
<1> HIDE DEF D, c
<1>3. \A v, x : Do("unblock", <<>>, v, x) = Unblocked(x, v)
  BY DEF Do
<1>4. PICK f : Table(f, D, c, "unblock", <<>>, w, q)
  BY <1>1, DoExists
<1>5. f = step(f)
  <2>1. \A s \in SUBSET D : s # {} => f[s] = Unblocked(q[Min(s)], f[s \ {Min(s)}])
    <3> TAKE s \in SUBSET D
    <3>1. s # {} => f[s] = Do("unblock", <<>>, f[s \ {c[s]}], q[c[s]])
      BY <1>4 DEF Table
    <3>2. c[s] = Min(s)
      BY <1>1
    <3> QED BY <1>3, <3>1, <3>2
  <2>2. f = [s \in SUBSET D |-> f[s]] /\ f[{}] = w
    BY <1>4 DEF Table
  <2> QED BY <2>1, <2>2 DEF D
<1>6. iter = step(iter)
  <2> HIDE DEF step
  <2> QED BY <1>5
<1> HIDE DEF iter
<1>7. Table(iter, D, c, "unblock", <<>>, w, q)
  <2>1. \A s \in SUBSET D : s # {} => iter[s] = Unblocked(q[c[s]], iter[s \ {c[s]}])
    BY <1>1, <1>6 DEF D
  <2>2. iter = [s \in SUBSET D |-> iter[s]] /\ iter[{}] = w
    BY <1>6 DEF D
  <2>3. \A s \in SUBSET D : s # {} => iter[s] = Do("unblock", <<>>, iter[s \ {c[s]}], q[c[s]])
    BY <1>3, <2>1
  <2> QED BY <2>2, <2>3 DEF Table
<1> QED BY <1>2, <1>7, RightTable DEF D, c

\* Transactions are put back one after the other.
LEMMA PutRun ==
  ASSUME NEW A, NEW q \in Seq(A), NEW w
  PROVE  \E f : /\ LeftRun(f, "put", <<>>, w, q)
                /\ FoldLeft(PutBack, w, q) = f[Len(q)]
<1> DEFINE D == DOMAIN q
           c == Lasts(D)
           step(g) == [s \in SUBSET DOMAIN q |->
                         IF s = {} THEN w
                         ELSE LET i == Max(s) IN PutBack(g[s \ {i}], q[i])]
           iter == CHOOSE g : g = step(g)
<1>1. /\ IsFiniteSet(D) /\ Chooses(c, D)
      /\ \A s \in SUBSET D : c[s] = Max(s)
  BY FoldPlaces DEF Lasts
<1>2. FoldLeft(PutBack, w, q) = iter[D]
  BY DEF FoldLeft, MapThenFoldSet
<1> HIDE DEF D, c
<1>3. \A v, x : Do("put", <<>>, v, x) = PutBack(v, x)
  BY DEF Do
<1>4. PICK f : Table(f, D, c, "put", <<>>, w, q)
  BY <1>1, DoExists
<1>5. f = step(f)
  <2>1. \A s \in SUBSET D : s # {} => f[s] = PutBack(f[s \ {Max(s)}], q[Max(s)])
    <3> TAKE s \in SUBSET D
    <3>1. s # {} => f[s] = Do("put", <<>>, f[s \ {c[s]}], q[c[s]])
      BY <1>4 DEF Table
    <3>2. c[s] = Max(s)
      BY <1>1
    <3> QED BY <1>3, <3>1, <3>2
  <2>2. f = [s \in SUBSET D |-> f[s]] /\ f[{}] = w
    BY <1>4 DEF Table
  <2> QED BY <2>1, <2>2 DEF D
<1>6. iter = step(iter)
  <2> HIDE DEF step
  <2> QED BY <1>5
<1> HIDE DEF iter
<1>7. Table(iter, D, c, "put", <<>>, w, q)
  <2>1. \A s \in SUBSET D : s # {} => iter[s] = PutBack(iter[s \ {c[s]}], q[c[s]])
    BY <1>1, <1>6 DEF D
  <2>2. iter = [s \in SUBSET D |-> iter[s]] /\ iter[{}] = w
    BY <1>6 DEF D
  <2>3. \A s \in SUBSET D : s # {} => iter[s] = Do("put", <<>>, iter[s \ {c[s]}], q[c[s]])
    BY <1>3, <2>1
  <2> QED BY <2>2, <2>3 DEF Table
<1> QED BY <1>2, <1>7, LeftTable DEF D, c

\* What was taken off and the pool are put back one after the other.
LEMMA ReturnRun ==
  ASSUME NEW A, NEW q \in Seq(A), NEW w
  PROVE  \E f : /\ LeftRun(f, "return", <<>>, w, q)
                /\ FoldLeft(Return, w, q) = f[Len(q)]
<1> DEFINE D == DOMAIN q
           c == Lasts(D)
           step(g) == [s \in SUBSET DOMAIN q |->
                         IF s = {} THEN w
                         ELSE LET i == Max(s) IN Return(g[s \ {i}], q[i])]
           iter == CHOOSE g : g = step(g)
<1>1. /\ IsFiniteSet(D) /\ Chooses(c, D)
      /\ \A s \in SUBSET D : c[s] = Max(s)
  BY FoldPlaces DEF Lasts
<1>2. FoldLeft(Return, w, q) = iter[D]
  BY DEF FoldLeft, MapThenFoldSet
<1> HIDE DEF D, c
<1>3. \A v, x : Do("return", <<>>, v, x) = Return(v, x)
  BY DEF Do
<1>4. PICK f : Table(f, D, c, "return", <<>>, w, q)
  BY <1>1, DoExists
<1>5. f = step(f)
  <2>1. \A s \in SUBSET D : s # {} => f[s] = Return(f[s \ {Max(s)}], q[Max(s)])
    <3> TAKE s \in SUBSET D
    <3>1. s # {} => f[s] = Do("return", <<>>, f[s \ {c[s]}], q[c[s]])
      BY <1>4 DEF Table
    <3>2. c[s] = Max(s)
      BY <1>1
    <3> QED BY <1>3, <3>1, <3>2
  <2>2. f = [s \in SUBSET D |-> f[s]] /\ f[{}] = w
    BY <1>4 DEF Table
  <2> QED BY <2>1, <2>2 DEF D
<1>6. iter = step(iter)
  <2> HIDE DEF step
  <2> QED BY <1>5
<1> HIDE DEF iter
<1>7. Table(iter, D, c, "return", <<>>, w, q)
  <2>1. \A s \in SUBSET D : s # {} => iter[s] = Return(iter[s \ {c[s]}], q[c[s]])
    BY <1>1, <1>6 DEF D
  <2>2. iter = [s \in SUBSET D |-> iter[s]] /\ iter[{}] = w
    BY <1>6 DEF D
  <2>3. \A s \in SUBSET D : s # {} => iter[s] = Do("return", <<>>, iter[s \ {c[s]}], q[c[s]])
    BY <1>3, <2>1
  <2> QED BY <2>2, <2>3 DEF Table
<1> QED BY <1>2, <1>7, LeftTable DEF D, c

\* The transactions of the own block are tried.
LEMMA TryRun ==
  ASSUME NEW A, NEW q \in Seq(A), NEW w
  PROVE  \E f : /\ LeftRun(f, "try", <<>>, w, q)
                /\ FoldLeft(TryTransaction, w, q) = f[Len(q)]
<1> DEFINE D == DOMAIN q
           c == Lasts(D)
           step(g) == [s \in SUBSET DOMAIN q |->
                         IF s = {} THEN w
                         ELSE LET i == Max(s) IN TryTransaction(g[s \ {i}], q[i])]
           iter == CHOOSE g : g = step(g)
<1>1. /\ IsFiniteSet(D) /\ Chooses(c, D)
      /\ \A s \in SUBSET D : c[s] = Max(s)
  BY FoldPlaces DEF Lasts
<1>2. FoldLeft(TryTransaction, w, q) = iter[D]
  BY DEF FoldLeft, MapThenFoldSet
<1> HIDE DEF D, c
<1>3. \A v, x : Do("try", <<>>, v, x) = TryTransaction(v, x)
  BY DEF Do
<1>4. PICK f : Table(f, D, c, "try", <<>>, w, q)
  BY <1>1, DoExists
<1>5. f = step(f)
  <2>1. \A s \in SUBSET D : s # {} => f[s] = TryTransaction(f[s \ {Max(s)}], q[Max(s)])
    <3> TAKE s \in SUBSET D
    <3>1. s # {} => f[s] = Do("try", <<>>, f[s \ {c[s]}], q[c[s]])
      BY <1>4 DEF Table
    <3>2. c[s] = Max(s)
      BY <1>1
    <3> QED BY <1>3, <3>1, <3>2
  <2>2. f = [s \in SUBSET D |-> f[s]] /\ f[{}] = w
    BY <1>4 DEF Table
  <2> QED BY <2>1, <2>2 DEF D
<1>6. iter = step(iter)
  <2> HIDE DEF step
  <2> QED BY <1>5
<1> HIDE DEF iter
<1>7. Table(iter, D, c, "try", <<>>, w, q)
  <2>1. \A s \in SUBSET D : s # {} => iter[s] = TryTransaction(iter[s \ {c[s]}], q[c[s]])
    BY <1>1, <1>6 DEF D
  <2>2. iter = [s \in SUBSET D |-> iter[s]] /\ iter[{}] = w
    BY <1>6 DEF D
  <2>3. \A s \in SUBSET D : s # {} => iter[s] = Do("try", <<>>, iter[s \ {c[s]}], q[c[s]])
    BY <1>3, <2>1
  <2> QED BY <2>2, <2>3 DEF Table
<1> QED BY <1>2, <1>7, LeftTable DEF D, c

\* The transactions of a received block are verified.
LEMMA VerifyRun ==
  ASSUME NEW A, NEW q \in Seq(A), NEW w
  PROVE  \E f : /\ LeftRun(f, "verify", <<>>, w, q)
                /\ FoldLeft(VerifyTransaction, w, q) = f[Len(q)]
<1> DEFINE D == DOMAIN q
           c == Lasts(D)
           step(g) == [s \in SUBSET DOMAIN q |->
                         IF s = {} THEN w
                         ELSE LET i == Max(s) IN VerifyTransaction(g[s \ {i}], q[i])]
           iter == CHOOSE g : g = step(g)
<1>1. /\ IsFiniteSet(D) /\ Chooses(c, D)
      /\ \A s \in SUBSET D : c[s] = Max(s)
  BY FoldPlaces DEF Lasts
<1>2. FoldLeft(VerifyTransaction, w, q) = iter[D]
  BY DEF FoldLeft, MapThenFoldSet
<1> HIDE DEF D, c
<1>3. \A v, x : Do("verify", <<>>, v, x) = VerifyTransaction(v, x)
  BY DEF Do
<1>4. PICK f : Table(f, D, c, "verify", <<>>, w, q)
  BY <1>1, DoExists
<1>5. f = step(f)
  <2>1. \A s \in SUBSET D : s # {} => f[s] = VerifyTransaction(f[s \ {Max(s)}], q[Max(s)])
    <3> TAKE s \in SUBSET D
    <3>1. s # {} => f[s] = Do("verify", <<>>, f[s \ {c[s]}], q[c[s]])
      BY <1>4 DEF Table
    <3>2. c[s] = Max(s)
      BY <1>1
    <3> QED BY <1>3, <3>1, <3>2
  <2>2. f = [s \in SUBSET D |-> f[s]] /\ f[{}] = w
    BY <1>4 DEF Table
  <2> QED BY <2>1, <2>2 DEF D
<1>6. iter = step(iter)
  <2> HIDE DEF step
  <2> QED BY <1>5
<1> HIDE DEF iter
<1>7. Table(iter, D, c, "verify", <<>>, w, q)
  <2>1. \A s \in SUBSET D : s # {} => iter[s] = VerifyTransaction(iter[s \ {c[s]}], q[c[s]])
    BY <1>1, <1>6 DEF D
  <2>2. iter = [s \in SUBSET D |-> iter[s]] /\ iter[{}] = w
    BY <1>6 DEF D
  <2>3. \A s \in SUBSET D : s # {} => iter[s] = Do("verify", <<>>, iter[s \ {c[s]}], q[c[s]])
    BY <1>3, <2>1
  <2> QED BY <2>2, <2>3 DEF Table
<1> QED BY <1>2, <1>7, LeftTable DEF D, c

\* Blocks are verified one after the other.
LEMMA BlockRun ==
  ASSUME NEW A, NEW q \in Seq(A), NEW w
  PROVE  \E f : /\ LeftRun(f, "block", <<>>, w, q)
                /\ FoldLeft(VerifyBlock, w, q) = f[Len(q)]
<1> DEFINE D == DOMAIN q
           c == Lasts(D)
           step(g) == [s \in SUBSET DOMAIN q |->
                         IF s = {} THEN w
                         ELSE LET i == Max(s) IN VerifyBlock(g[s \ {i}], q[i])]
           iter == CHOOSE g : g = step(g)
<1>1. /\ IsFiniteSet(D) /\ Chooses(c, D)
      /\ \A s \in SUBSET D : c[s] = Max(s)
  BY FoldPlaces DEF Lasts
<1>2. FoldLeft(VerifyBlock, w, q) = iter[D]
  BY DEF FoldLeft, MapThenFoldSet
<1> HIDE DEF D, c
<1>3. \A v, x : Do("block", <<>>, v, x) = VerifyBlock(v, x)
  BY DEF Do
<1>4. PICK f : Table(f, D, c, "block", <<>>, w, q)
  BY <1>1, DoExists
<1>5. f = step(f)
  <2>1. \A s \in SUBSET D : s # {} => f[s] = VerifyBlock(f[s \ {Max(s)}], q[Max(s)])
    <3> TAKE s \in SUBSET D
    <3>1. s # {} => f[s] = Do("block", <<>>, f[s \ {c[s]}], q[c[s]])
      BY <1>4 DEF Table
    <3>2. c[s] = Max(s)
      BY <1>1
    <3> QED BY <1>3, <3>1, <3>2
  <2>2. f = [s \in SUBSET D |-> f[s]] /\ f[{}] = w
    BY <1>4 DEF Table
  <2> QED BY <2>1, <2>2 DEF D
<1>6. iter = step(iter)
  <2> HIDE DEF step
  <2> QED BY <1>5
<1> HIDE DEF iter
<1>7. Table(iter, D, c, "block", <<>>, w, q)
  <2>1. \A s \in SUBSET D : s # {} => iter[s] = VerifyBlock(iter[s \ {c[s]}], q[c[s]])
    BY <1>1, <1>6 DEF D
  <2>2. iter = [s \in SUBSET D |-> iter[s]] /\ iter[{}] = w
    BY <1>6 DEF D
  <2>3. \A s \in SUBSET D : s # {} => iter[s] = Do("block", <<>>, iter[s \ {c[s]}], q[c[s]])
    BY <1>3, <2>1
  <2> QED BY <2>2, <2>3 DEF Table
<1> QED BY <1>2, <1>7, LeftTable DEF D, c

\* The elements of a sequence that are in a set are kept.
LEMMA KeepRun ==
  ASSUME NEW A, NEW q \in Seq(A), NEW S
  PROVE  \E f : /\ LeftRun(f, "keep", S, <<>>, q)
                /\ Those(q, S) = f[Len(q)]
<1> DEFINE D == DOMAIN q
           c == Lasts(D)
           step(g) == [s \in SUBSET DOMAIN q |->
                         IF s = {} THEN <<>>
                         ELSE LET i == Max(s) IN (IF q[i] \in S THEN Append(g[s \ {i}], q[i]) ELSE g[s \ {i}])]
           iter == CHOOSE g : g = step(g)
<1>1. /\ IsFiniteSet(D) /\ Chooses(c, D)
      /\ \A s \in SUBSET D : c[s] = Max(s)
  BY FoldPlaces DEF Lasts
<1>2. Those(q, S) = iter[D]
  BY DEF FoldLeft, MapThenFoldSet, Those
<1> HIDE DEF D, c
<1>3. \A v, x : Do("keep", S, v, x) = (IF x \in S THEN Append(v, x) ELSE v)
  BY DEF Do
<1>4. PICK f : Table(f, D, c, "keep", S, <<>>, q)
  BY <1>1, DoExists
<1>5. f = step(f)
  <2>1. \A s \in SUBSET D : s # {} => f[s] = (IF q[Max(s)] \in S THEN Append(f[s \ {Max(s)}], q[Max(s)]) ELSE f[s \ {Max(s)}])
    <3> TAKE s \in SUBSET D
    <3>1. s # {} => f[s] = Do("keep", S, f[s \ {c[s]}], q[c[s]])
      BY <1>4 DEF Table
    <3>2. c[s] = Max(s)
      BY <1>1
    <3> QED BY <1>3, <3>1, <3>2
  <2>2. f = [s \in SUBSET D |-> f[s]] /\ f[{}] = <<>>
    BY <1>4 DEF Table
  <2> QED BY <2>1, <2>2 DEF D
<1>6. iter = step(iter)
  <2> HIDE DEF step
  <2> QED BY <1>5
<1> HIDE DEF iter
<1>7. Table(iter, D, c, "keep", S, <<>>, q)
  <2>1. \A s \in SUBSET D : s # {} => iter[s] = (IF q[c[s]] \in S THEN Append(iter[s \ {c[s]}], q[c[s]]) ELSE iter[s \ {c[s]}])
    BY <1>1, <1>6 DEF D
  <2>2. iter = [s \in SUBSET D |-> iter[s]] /\ iter[{}] = <<>>
    BY <1>6 DEF D
  <2>3. \A s \in SUBSET D : s # {} => iter[s] = Do("keep", S, iter[s \ {c[s]}], q[c[s]])
    BY <1>3, <2>1
  <2> QED BY <2>2, <2>3 DEF Table
<1> QED BY <1>2, <1>7, LeftTable DEF D, c

\* The transactions of the pool are applied one after the other.
LEMMA ApplyRun ==
  ASSUME NEW A, NEW q \in Seq(A), NEW w
  PROVE  LET Applied(v, t) == ActionApply(v, t, "pool")
         IN  \E f : /\ LeftRun(f, "apply", <<>>, w, q)
                    /\ FoldLeft(Applied, w, q) = f[Len(q)]
<1> DEFINE Applied(v, t) == ActionApply(v, t, "pool")
<1> DEFINE D == DOMAIN q
           c == Lasts(D)
           step(g) == [s \in SUBSET DOMAIN q |->
                         IF s = {} THEN w
                         ELSE LET i == Max(s) IN Applied(g[s \ {i}], q[i])]
           iter == CHOOSE g : g = step(g)
<1>1. /\ IsFiniteSet(D) /\ Chooses(c, D)
      /\ \A s \in SUBSET D : c[s] = Max(s)
  BY FoldPlaces DEF Lasts
<1>2. FoldLeft(Applied, w, q) = iter[D]
  BY DEF FoldLeft, MapThenFoldSet
<1> HIDE DEF D, c
<1>3. \A v, x : Do("apply", <<>>, v, x) = Applied(v, x)
  BY DEF Do
<1> HIDE DEF Applied
<1>4. PICK tab : Table(tab, D, c, "apply", <<>>, w, q)
  BY <1>1, DoExists
<1>5. tab = step(tab)
  <2>1. \A s \in SUBSET D : s # {} => tab[s] = Applied(tab[s \ {Max(s)}], q[Max(s)])
    <3> TAKE s \in SUBSET D
    <3>1. s # {} => tab[s] = Do("apply", <<>>, tab[s \ {c[s]}], q[c[s]])
      BY <1>4 DEF Table
    <3>2. c[s] = Max(s)
      BY <1>1
    <3> QED BY <1>3, <3>1, <3>2
  <2>2. tab = [s \in SUBSET D |-> tab[s]] /\ tab[{}] = w
    BY <1>4 DEF Table
  <2> QED BY <2>1, <2>2 DEF D
<1>6. iter = step(iter)
  <2> HIDE DEF step
  <2> QED BY <1>5
<1> HIDE DEF iter
<1>7. Table(iter, D, c, "apply", <<>>, w, q)
  <2>1. \A s \in SUBSET D : s # {} => iter[s] = Applied(iter[s \ {c[s]}], q[c[s]])
    BY <1>1, <1>6 DEF D
  <2>2. iter = [s \in SUBSET D |-> iter[s]] /\ iter[{}] = w
    BY <1>6 DEF D
  <2>3. \A s \in SUBSET D : s # {} => iter[s] = Do("apply", <<>>, iter[s \ {c[s]}], q[c[s]])
    BY <1>3, <2>1
  <2> QED BY <2>2, <2>3 DEF Table
<1>8. PICK f : LeftRun(f, "apply", <<>>, w, q) /\ iter[D] = f[Len(q)]
  BY <1>7, LeftTable DEF D, c
<1>9. FoldLeft(Applied, w, q) = f[Len(q)]
  BY <1>2, <1>8
<1> QED BY <1>8, <1>9 DEF Applied

-----------------------------------------------------------------------------
(* What the steps of the handlers do to the accounts *)

\* x coins go from one account to another.
Moved(b, from, to, x) ==
  [c \in Address |-> b[c] + (IF c = to THEN x ELSE 0) - (IF c = from THEN x ELSE 0)]

\* The accounts after the action of a transaction, and the files it adds.
ActionMoves(b, t) ==
  IF Action[t].type = "Transfer"
  THEN Moved(b, Action[t].from, Action[t].to, Action[t].amount) ELSE b
NewFiles(t) == IF Action[t].type = "Transfer" THEN {} ELSE {Action[t].uri}

\* The node's own account is that of the chain's layer.
Owned(w) == w.own = w.balance[Own]

\* v has the files, the log, the pool and the cache of w.
SamePapers(v, w) ==
  v.files = w.files /\ v.log = w.log /\ v.pool = w.pool /\ v.cache = w.cache

\* What a payment does to the node's own account depends on the layer.
OwnFollows(v, w, layer) ==
  /\ layer = "pool" => v.own = w.own
  /\ layer = "chain" /\ Owned(w) => Owned(v)

LEMMA PayFields ==
  ASSUME NEW w \in Stores, NEW a \in Address, NEW x \in Int, NEW layer,
         NEW v, v = Pay(w, a, x, layer)
  PROVE  /\ v \in Stores
         /\ v.balance = [c \in Address |-> w.balance[c] + (IF c = a THEN x ELSE 0)]
         /\ SamePapers(v, w)
         /\ OwnFollows(v, w, layer)
<1>1. PICK b \in [Address -> Int] : b = w.balance
  BY DEF Stores
<1>2. Own \in Address
  BY LedgerAssumption
<1>3. CASE x = 0
  <2>1. v = w
    BY <1>3 DEF Pay
  <2>2. b = [c \in Address |-> b[c] + (IF c = a THEN x ELSE 0)]
    BY <1>3
  <2> QED BY <1>1, <2>1, <2>2 DEF SamePapers, OwnFollows
<1>4. CASE x # 0
  <2>1. PICK y \in Int : y = b[a] + x
    OBVIOUS
  <2>2. PICK e \in [Address -> Int] : e = [b EXCEPT ![a] = y]
    OBVIOUS
  <2>3. PICK o \in Int : o = IF layer = "chain" /\ a = Own THEN y ELSE w.own
    BY <2>1 DEF Stores
  <2>4. v = [w EXCEPT !.balance = e, !.own = o]
    BY <1>1, <1>4, <2>1, <2>2, <2>3 DEF Pay
  <2>5. /\ v \in Stores /\ v.balance = e /\ v.own = o /\ SamePapers(v, w)
    BY <2>4 DEF Stores, SamePapers
  <2>6. e = [c \in Address |-> b[c] + (IF c = a THEN x ELSE 0)]
    <3>1. \A c \in Address : e[c] = b[c] + (IF c = a THEN x ELSE 0)
      BY <2>1, <2>2
    <3> QED BY <3>1
  <2>7. OwnFollows(v, w, layer)
    <3>1. layer = "pool" => o = w.own
      BY <2>3
    <3>2. ASSUME layer = "chain", w.own = b[Own]
          PROVE  o = e[Own]
      BY <1>2, <2>1, <2>2, <2>3, <3>2
    <3> QED BY <1>1, <2>5, <3>1, <3>2 DEF OwnFollows, Owned
  <2> QED BY <1>1, <2>5, <2>6, <2>7
<1> QED BY <1>3, <1>4

LEMMA TransferredFields ==
  ASSUME NEW w \in Stores, NEW from \in Address, NEW to \in Address, NEW x \in Int,
         NEW layer, NEW v, v = Transferred(w, from, to, x, layer)
  PROVE  /\ v \in Stores
         /\ v.balance = Moved(w.balance, from, to, x)
         /\ SamePapers(v, w)
         /\ OwnFollows(v, w, layer)
<1>1. PICK u : u = Pay(w, to, x, layer)
  OBVIOUS
<1>2. /\ u \in Stores
      /\ u.balance = [c \in Address |-> w.balance[c] + (IF c = to THEN x ELSE 0)]
      /\ SamePapers(u, w)
      /\ OwnFollows(u, w, layer)
  BY <1>1, PayFields
<1>3. PICK y \in Int : y = -x
  OBVIOUS
<1>4. v = Pay(u, from, y, layer)
  BY <1>1, <1>3 DEF Transferred
<1>5. /\ v \in Stores
      /\ v.balance = [c \in Address |-> u.balance[c] + (IF c = from THEN y ELSE 0)]
      /\ SamePapers(v, u)
      /\ OwnFollows(v, u, layer)
  BY <1>2, <1>4, PayFields
<1>6. v.balance = Moved(w.balance, from, to, x)
  <2>1. PICK b \in [Address -> Int] : b = w.balance
    BY DEF Stores
  <2>2. PICK e \in [Address -> Int] : e = u.balance
    BY <1>2 DEF Stores
  <2>3. \A c \in Address : e[c] = b[c] + (IF c = to THEN x ELSE 0)
    BY <1>2, <2>1, <2>2
  <2>4. \A c \in Address : e[c] + (IF c = from THEN y ELSE 0)
                             = b[c] + (IF c = to THEN x ELSE 0) - (IF c = from THEN x ELSE 0)
    BY <1>3, <2>3
  <2> QED BY <1>5, <2>1, <2>2, <2>4 DEF Moved
<1> QED BY <1>2, <1>5, <1>6 DEF SamePapers, OwnFollows

LEMMA MovedBack ==
  ASSUME NEW b \in [Address -> Int], NEW from \in Address, NEW to \in Address, NEW x \in Int
  PROVE  /\ Moved(b, from, to, x) \in [Address -> Int]
         /\ Moved(Moved(b, from, to, x), to, from, x) = b
<1>1. PICK e : e = Moved(b, from, to, x)
  OBVIOUS
<1>2. e \in [Address -> Int]
  BY <1>1 DEF Moved
<1>3. \A c \in Address :
        e[c] + (IF c = from THEN x ELSE 0) - (IF c = to THEN x ELSE 0) = b[c]
  BY <1>1 DEF Moved
<1>4. Moved(e, to, from, x) = b
  BY <1>3 DEF Moved
<1> QED BY <1>1, <1>2, <1>4

LEMMA ActionApplyFields ==
  ASSUME NEW w \in Stores, NEW t \in Tx, NEW layer, NEW v, v = ActionApply(w, t, layer)
  PROVE  /\ v \in Stores
         /\ v.balance = ActionMoves(w.balance, t)
         /\ v.files = w.files \union NewFiles(t)
         /\ v.log = w.log /\ v.pool = w.pool /\ v.cache = w.cache
         /\ OwnFollows(v, w, layer)
<1>1. CASE Action[t].type = "Transfer"
  <2>1. PICK x \in Int : x = Action[t].amount
    BY <1>1, ActionNames
  <2>2. v = Transferred(w, Action[t].from, Action[t].to, x, layer)
    BY <1>1, <2>1 DEF ActionApply
  <2>3. /\ v \in Stores /\ SamePapers(v, w) /\ OwnFollows(v, w, layer)
        /\ v.balance = Moved(w.balance, Action[t].from, Action[t].to, x)
    BY <1>1, <2>2, ActionNames, TransferredFields
  <2> QED BY <1>1, <2>1, <2>3 DEF SamePapers, ActionMoves, NewFiles
<1>2. CASE Action[t].type # "Transfer"
  <2>1. PICK S \in SUBSET Uri : S = w.files \union {Action[t].uri}
    BY <1>2, ActionNames DEF Stores
  <2>2. v = [w EXCEPT !.files = S]
    BY <1>2, <2>1 DEF ActionApply
  <2>3. /\ v \in Stores /\ v.balance = w.balance /\ v.own = w.own /\ v.files = S
        /\ v.log = w.log /\ v.pool = w.pool /\ v.cache = w.cache
    BY <2>2 DEF Stores
  <2> QED BY <1>2, <2>1, <2>3 DEF ActionMoves, NewFiles, OwnFollows, Owned
<1> QED BY <1>1, <1>2

LEMMA ActionMovesType ==
  ASSUME NEW b \in [Address -> Int], NEW t \in Tx
  PROVE  ActionMoves(b, t) \in [Address -> Int]
BY ActionNames DEF ActionMoves, Moved

\* What was applied is reverted: the accounts and files are the earlier ones.
LEMMA ActionRevertFields ==
  ASSUME NEW w \in Stores, NEW t \in Tx, NEW layer, NEW v, v = ActionRevert(w, t, layer),
         NEW b \in [Address -> Int], w.balance = ActionMoves(b, t),
         NEW F, F \intersect NewFiles(t) = {}, w.files = F \union NewFiles(t)
  PROVE  /\ v \in Stores
         /\ v.balance = b /\ v.files = F
         /\ v.log = w.log /\ v.pool = w.pool /\ v.cache = w.cache
         /\ OwnFollows(v, w, layer)
<1>1. CASE Action[t].type = "Transfer"
  <2>1. PICK x \in Int, from \in Address, to \in Address :
          x = Action[t].amount /\ from = Action[t].from /\ to = Action[t].to
    BY <1>1, ActionNames
  <2>2. v = Transferred(w, to, from, x, layer)
    BY <1>1, <2>1 DEF ActionRevert
  <2>3. /\ v \in Stores /\ SamePapers(v, w) /\ OwnFollows(v, w, layer)
        /\ v.balance = Moved(w.balance, to, from, x)
    BY <2>2, TransferredFields
  <2>4. w.balance = Moved(b, from, to, x)
    BY <1>1, <2>1 DEF ActionMoves
  <2>5. v.balance = b
    BY <2>3, <2>4, MovedBack
  <2>6. F = w.files
    BY <1>1 DEF NewFiles
  <2> QED BY <2>3, <2>5, <2>6 DEF SamePapers
<1>2. CASE Action[t].type # "Transfer"
  <2>1. w.files \in SUBSET Uri /\ F = w.files \ {Action[t].uri}
    BY <1>2 DEF Stores, NewFiles
  <2>2. v = [w EXCEPT !.files = F]
    BY <1>2, <2>1 DEF ActionRevert
  <2>3. F \in SUBSET Uri
    BY <2>1
  <2>4. /\ v \in Stores /\ v.balance = w.balance /\ v.own = w.own /\ v.files = F
        /\ v.log = w.log /\ v.pool = w.pool /\ v.cache = w.cache
    BY <2>2, <2>3 DEF Stores
  <2> QED BY <1>2, <2>4 DEF ActionMoves, OwnFollows, Owned
<1> QED BY <1>1, <1>2

\* The accounts after a transaction of a block of a miner.
BlockMoves(b, t, miner) == Moved(ActionMoves(b, t), Owner(t), miner, Fee[t])

LEMMA ChainApplyFields ==
  ASSUME NEW w \in Stores, NEW t \in Tx, NEW miner \in Address,
         NEW v, v = ChainApply(w, t, miner)
  PROVE  /\ v \in Stores
         /\ v.balance = BlockMoves(w.balance, t, miner)
         /\ v.files = w.files \union NewFiles(t)
         /\ v.log = w.log /\ v.pool = w.pool /\ v.cache = w.cache
         /\ Owned(w) => Owned(v)
<1>1. PICK u : u = ActionApply(w, t, "chain")
  OBVIOUS
<1>2. /\ u \in Stores
      /\ u.balance = ActionMoves(w.balance, t)
      /\ u.files = w.files \union NewFiles(t)
      /\ u.log = w.log /\ u.pool = w.pool /\ u.cache = w.cache
      /\ OwnFollows(u, w, "chain")
  BY <1>1, ActionApplyFields
<1>3. PICK x \in Int : x = Fee[t]
  BY ActionNames
<1>4. v = Transferred(u, Owner(t), miner, x, "chain")
  BY <1>1, <1>3 DEF ChainApply
<1>5. /\ v \in Stores /\ SamePapers(v, u) /\ OwnFollows(v, u, "chain")
      /\ v.balance = Moved(u.balance, Owner(t), miner, x)
  BY <1>2, <1>4, ActionNames, TransferredFields
<1> QED BY <1>2, <1>3, <1>5 DEF SamePapers, OwnFollows, BlockMoves

LEMMA ChainRevertFields ==
  ASSUME NEW w \in Stores, NEW t \in Tx, NEW miner \in Address,
         NEW v, v = ChainRevert(w, t, miner),
         NEW b \in [Address -> Int], w.balance = BlockMoves(b, t, miner),
         NEW F, F \intersect NewFiles(t) = {}, w.files = F \union NewFiles(t)
  PROVE  /\ v \in Stores
         /\ v.balance = b /\ v.files = F
         /\ v.log = w.log /\ v.pool = w.pool /\ v.cache = w.cache
         /\ Owned(w) => Owned(v)
<1>1. PICK x \in Int : x = Fee[t]
  BY ActionNames
<1>2. PICK u : u = Transferred(w, miner, Owner(t), x, "chain")
  OBVIOUS
<1>3. /\ u \in Stores /\ SamePapers(u, w) /\ OwnFollows(u, w, "chain")
      /\ u.balance = Moved(w.balance, miner, Owner(t), x)
  BY <1>2, ActionNames, TransferredFields
<1>4. PICK e \in [Address -> Int] : e = ActionMoves(b, t)
  BY ActionMovesType
<1>5. u.balance = e
  <2>1. PICK o \in Address : o = Owner(t)
    BY ActionNames
  <2>2. w.balance = Moved(e, o, miner, x)
    BY <1>1, <1>4, <2>1 DEF BlockMoves
  <2>3. Moved(Moved(e, o, miner, x), miner, o, x) = e
    BY MovedBack
  <2> QED BY <1>3, <2>1, <2>2, <2>3
<1>6. v = ActionRevert(u, t, "chain")
  BY <1>1, <1>2 DEF ChainRevert
<1>7. u.files = F \union NewFiles(t)
  BY <1>3 DEF SamePapers
<1>8. /\ v \in Stores /\ v.balance = b /\ v.files = F
      /\ v.log = u.log /\ v.pool = u.pool /\ v.cache = u.cache
      /\ OwnFollows(v, u, "chain")
  BY <1>3, <1>4, <1>5, <1>6, <1>7, ActionRevertFields
<1> QED BY <1>3, <1>8 DEF SamePapers, OwnFollows

\* A transaction can be applied to accounts and files, and its owner can pay the fee.
Can(s, t) ==
  /\ Action[t].type = "Transfer" => s.balance[Action[t].from] >= Action[t].amount
  /\ s.files \intersect NewFiles(t) = {}
  /\ ActionMoves(s.balance, t)[Owner(t)] >= Fee[t]

LEMMA AppliesIsCan ==
  ASSUME NEW w \in Stores, NEW t \in Tx
  PROVE  /\ Applies(w, t) <=> Can(w, t)
         /\ Applies(w, t) => CanApply(w, t)
<1>1. PICK v : v = ActionApply(w, t, "pool")
  OBVIOUS
<1>2. v.balance = ActionMoves(w.balance, t)
  BY <1>1, ActionApplyFields
<1>3. CanApply(w, t) <=> /\ Action[t].type = "Transfer" => w.balance[Action[t].from] >= Action[t].amount
                         /\ w.files \intersect NewFiles(t) = {}
  <2>1. Action[t].type = "Transfer" \/ Action[t].type = "File"
    BY LedgerAssumption
  <2> QED BY <2>1 DEF CanApply, NewFiles
<1> QED BY <1>1, <1>2, <1>3 DEF Applies, Can

-----------------------------------------------------------------------------
(* What the steps of the handlers do to the pool and the cache *)

\* What is computed from the left, from W[0] into W[1] and so on.
LEMMA LeftReaches ==
  ASSUME NEW N \in Nat, NEW f, NEW W, f[0] \in W[0],
         \A n \in 1..N : f[n - 1] \in W[n - 1] => f[n] \in W[n]
  PROVE  \A n \in 0..N : f[n] \in W[n]
<1> DEFINE T == {n \in Nat : n <= N => f[n] \in W[n]}
<1>1. 0 \in T
  OBVIOUS
<1>2. ASSUME NEW n \in T
      PROVE  n + 1 \in T
  <2> SUFFICES ASSUME n + 1 <= N
               PROVE  f[n + 1] \in W[n + 1]
    OBVIOUS
  <2>1. PICK m \in 1..N : m = n + 1 /\ m - 1 = n /\ n <= N
    OBVIOUS
  <2> QED BY <2>1
<1>3. T = Nat
  <2> HIDE DEF T
  <2>1. T \in SUBSET Nat
    BY DEF T
  <2> QED BY <1>1, <1>2, <2>1, InductionOnSet
<1> QED BY <1>3

\* What is computed from the right, from W[N] into W[N - 1] and so on.
LEMMA RightReaches ==
  ASSUME NEW N \in Nat, NEW f, NEW W, f[N] \in W[N],
         \A n \in 1..N : f[n] \in W[n] => f[n - 1] \in W[n - 1]
  PROVE  \A n \in 0..N : f[n] \in W[n]
<1> DEFINE T == {n \in Nat : n <= N => f[N - n] \in W[N - n]}
<1>1. 0 \in T
  OBVIOUS
<1>2. ASSUME NEW n \in T
      PROVE  n + 1 \in T
  <2> SUFFICES ASSUME n + 1 <= N
               PROVE  f[N - (n + 1)] \in W[N - (n + 1)]
    OBVIOUS
  <2>1. PICK m \in 1..N : m = N - n /\ m - 1 = N - (n + 1) /\ n <= N
    OBVIOUS
  <2> QED BY <2>1
<1>3. T = Nat
  <2> HIDE DEF T
  <2>1. T \in SUBSET Nat
    BY DEF T
  <2> QED BY <1>1, <1>2, <2>1, InductionOnSet
<1>4. ASSUME NEW n \in 0..N
      PROVE  f[n] \in W[n]
  <2>1. PICK m \in Nat : m = N - n /\ N - m = n /\ m <= N
    OBVIOUS
  <2> QED BY <1>3, <2>1
<1> QED BY <1>4

LEMMA CacheFields ==
  ASSUME NEW e \in Cache, NEW t \in Tx
  PROVE  /\ \A f \in BOOLEAN :
              /\ DOMAIN AddPool(e, t, f) = DOMAIN e \union {t}
              /\ \A k \in DOMAIN e : AddPool(e, t, f)[k] = e[k]
              /\ t \notin DOMAIN e => AddPool(e, t, f)[t] = f
         /\ \A K : /\ DOMAIN EraseKeys(e, K) = DOMAIN e \ K
                   /\ \A k \in DOMAIN e \ K : EraseKeys(e, K)[k] = e[k]
         /\ ~ CanAddChain(e, t) => AddChain(e, t) = e
         /\ CanAddChain(e, t) =>
              /\ DOMAIN AddChain(e, t) = DOMAIN e \union Keys(t)
              /\ \A k \in DOMAIN AddChain(e, t) :
                   AddChain(e, t)[k] = IF k \in Keys(t) THEN TRUE ELSE e[k]
<1>1. \A f \in BOOLEAN :
              /\ DOMAIN AddPool(e, t, f) = DOMAIN e \union {t}
              /\ \A k \in DOMAIN e : AddPool(e, t, f)[k] = e[k]
              /\ t \notin DOMAIN e => AddPool(e, t, f)[t] = f
  BY DEF AddPool
<1>2. \A K : /\ DOMAIN EraseKeys(e, K) = DOMAIN e \ K
             /\ \A k \in DOMAIN e \ K : EraseKeys(e, K)[k] = e[k]
  BY DEF EraseKeys
<1>3. ~ CanAddChain(e, t) => AddChain(e, t) = e
  BY DEF AddChain
<1>4. CanAddChain(e, t) =>
              /\ DOMAIN AddChain(e, t) = DOMAIN e \union Keys(t)
              /\ \A k \in DOMAIN AddChain(e, t) :
                   AddChain(e, t)[k] = IF k \in Keys(t) THEN TRUE ELSE e[k]
  <2>1. PICK D \in SUBSET Tx : e \in [D -> BOOLEAN]
    BY DEF Cache
  <2>2. SUFFICES ASSUME CanAddChain(e, t)
                 PROVE  /\ DOMAIN AddChain(e, t) = DOMAIN e \union Keys(t)
                        /\ \A k \in DOMAIN AddChain(e, t) :
                             AddChain(e, t)[k] = IF k \in Keys(t) THEN TRUE ELSE e[k]
    OBVIOUS
  <2>3. AddChain(e, t) = [k \in D \union Keys(t) |-> k \in Keys(t) \/ e[k]]
    BY <2>1, <2>2 DEF AddChain
  <2>4. \A k \in D \union Keys(t) : (k \in Keys(t) \/ e[k]) = IF k \in Keys(t) THEN TRUE ELSE e[k]
    BY <2>1
  <2> QED BY <2>1, <2>3, <2>4
<1> QED BY <1>1, <1>2, <1>3, <1>4

\* What a transaction that is put back leaves behind.
Waits(v, w, t) ==
  /\ v.pool = Append(w.pool, t)
  /\ v.cache = AddPool(w.cache, t, t \in Complete)
  /\ w.files \intersect NewFiles(t) = {}
  /\ t \in Complete =>
       /\ Can(w, t)
       /\ v.balance = ActionMoves(w.balance, t)
       /\ v.files = w.files \union NewFiles(t)
       /\ v.log = Append(w.log, <<"tx", t>>)
  /\ t \notin Complete => v.balance = w.balance /\ v.files = w.files /\ v.log = w.log

LEMMA PutBackFields ==
  ASSUME NEW w \in Stores, NEW t \in Tx, NEW v, v = PutBack(w, t)
  PROVE  /\ v \in Stores
         /\ v.own = w.own
         /\ \/ Waits(v, w, t)
            \/ v = w /\ (t \in Complete => ~ Applies(w, t)) /\ (t \notin Complete => ~ CanApply(w, t))
<1>1. v \in Stores
  BY StoresHold, PutBackHolds DEF Holding
<1>2. Applies(w, t) <=> Can(w, t)
  BY AppliesIsCan
<1>3. PICK c : c = (t \in Complete)
  OBVIOUS
<1>4. CASE t \in Complete
  <2>1. CASE ~ Applies(w, t)
    BY <1>1, <1>4, <2>1 DEF PutBack
  <2>2. CASE Applies(w, t)
    <3>1. PICK u : u = ActionApply(w, t, "pool")
      OBVIOUS
    <3>2. /\ u \in Stores /\ u.balance = ActionMoves(w.balance, t)
          /\ u.files = w.files \union NewFiles(t)
          /\ u.log = w.log /\ u.pool = w.pool /\ u.cache = w.cache
          /\ u.own = w.own
      BY <3>1, ActionApplyFields DEF OwnFollows
    <3>3. v = [[u EXCEPT !.log = Append(@, <<"tx", t>>)] EXCEPT
                 !.pool = Append(@, t), !.cache = AddPool(@, t, c)]
      BY <1>3, <1>4, <2>2, <3>1 DEF PutBack
    <3>4. /\ v.pool = Append(u.pool, t) /\ v.cache = AddPool(u.cache, t, c)
          /\ v.log = Append(u.log, <<"tx", t>>)
          /\ v.balance = u.balance /\ v.files = u.files /\ v.own = u.own
      BY <3>2, <3>3 DEF Stores
    <3> QED BY <1>1, <1>2, <1>3, <1>4, <2>2, <3>2, <3>4 DEF Waits, Can
  <2> QED BY <2>1, <2>2
<1>5. CASE t \notin Complete
  <2>1. CASE CanApply(w, t)
    <3>1. v = [w EXCEPT !.pool = Append(@, t), !.cache = AddPool(@, t, c)]
      BY <1>3, <1>5, <2>1 DEF PutBack
    <3>2. /\ v.pool = Append(w.pool, t) /\ v.cache = AddPool(w.cache, t, c)
          /\ v.log = w.log /\ v.balance = w.balance /\ v.files = w.files /\ v.own = w.own
      BY <3>1 DEF Stores
    <3>3. w.files \intersect NewFiles(t) = {}
      BY <2>1 DEF CanApply, NewFiles
    <3> QED BY <1>1, <1>3, <1>5, <3>2, <3>3 DEF Waits
  <2>2. CASE ~ CanApply(w, t)
    <3>1. ~ Applies(w, t)
      BY <2>2, AppliesIsCan
    <3>2. v = w
      BY <1>5, <2>2, <3>1 DEF PutBack
    <3> QED BY <1>1, <1>5, <2>2, <3>2
  <2> QED BY <2>1, <2>2
<1> QED BY <1>4, <1>5

-----------------------------------------------------------------------------
(* The sets of keys: what the handlers do to the pool and the cache         *)

LEMMA AppendedSet ==
  ASSUME NEW A, NEW q \in Seq(A), NEW x \in A
  PROVE  /\ Append(q, x) \in Seq(A)
         /\ ToSet(Append(q, x)) = ToSet(q) \union {x}
<1>1. Append(q, x) \in Seq(A)
  OBVIOUS
<1>2. Len(Append(q, x)) = Len(q) + 1 /\ Len(q) \in Nat
  OBVIOUS
<1>3. \A n \in 1..Len(q) : Append(q, x)[n] = q[n]
  OBVIOUS
<1>4. Append(q, x)[Len(q) + 1] = x
  OBVIOUS
<1>5. ASSUME NEW y \in ToSet(Append(q, x))
      PROVE  y \in ToSet(q) \union {x}
  <2>1. PICK n \in 1..(Len(q) + 1) : y = Append(q, x)[n]
    BY <1>1, <1>2 DEF ToSet
  <2>2. CASE n \in 1..Len(q)
    BY <2>1, <2>2, <1>3 DEF ToSet
  <2>3. CASE n = Len(q) + 1
    BY <2>1, <2>3, <1>4
  <2> QED BY <1>2, <2>1, <2>2, <2>3
<1>6. ASSUME NEW y \in ToSet(q) \union {x}
      PROVE  y \in ToSet(Append(q, x))
  <2>1. CASE y \in ToSet(q)
    <3>1. PICK n \in 1..Len(q) : y = q[n]
      BY <2>1 DEF ToSet
    <3>2. n \in DOMAIN Append(q, x)
      BY <1>1, <1>2, <3>1
    <3> QED BY <1>3, <3>1, <3>2 DEF ToSet
  <2>2. CASE y = x
    <3>1. Len(q) + 1 \in DOMAIN Append(q, x)
      BY <1>1, <1>2
    <3> QED BY <1>4, <2>2, <3>1 DEF ToSet
  <2> QED BY <2>1, <2>2
<1> QED BY <1>1, <1>5, <1>6

\* The transactions of B have come to the pool, with their keys.
Grown(v, w, B) ==
  /\ ToSet(v.pool) = ToSet(w.pool) \union B
  /\ DOMAIN v.cache = DOMAIN w.cache \union B
  /\ w.files \subseteq v.files
  /\ \A t \in B : w.files \intersect NewFiles(t) = {}

LEMMA PutBackGrows ==
  ASSUME NEW w \in Stores, NEW t \in Tx, NEW v, v = PutBack(w, t)
  PROVE  /\ v \in Stores
         /\ Grown(v, w, {}) \/ Grown(v, w, {t})
<1>1. v \in Stores /\ (v = w \/ Waits(v, w, t))
  BY PutBackFields, Zenon
<1>2. CASE v = w
  BY <1>1, <1>2 DEF Grown
<1>3. CASE Waits(v, w, t)
  <2>1. PICK c : c = (t \in Complete)
    OBVIOUS
  <2>2. DOMAIN v.cache = DOMAIN w.cache \union {t}
    BY <1>3 DEF Waits, AddPool
  <2>3. ToSet(v.pool) = ToSet(w.pool) \union {t}
    BY <1>3, AppendedSet DEF Waits, Stores
  <2>4. w.files \subseteq v.files /\ w.files \intersect NewFiles(t) = {}
    BY <1>3 DEF Waits
  <2> QED BY <1>1, <2>2, <2>3, <2>4 DEF Grown
<1> QED BY <1>1, <1>2, <1>3

LEMMA GrownTwice ==
  ASSUME NEW u, NEW v, NEW w, NEW B, NEW C, Grown(v, w, B), Grown(u, v, C)
  PROVE  Grown(u, w, B \union C)
BY DEF Grown

\* Transactions are put back: some of them enter the pool.
LEMMA PuttingBackKeys ==
  ASSUME NEW w \in Stores, NEW q \in Seq(Tx), NEW v, v = FoldLeft(PutBack, w, q)
  PROVE  /\ v \in Stores
         /\ \E B \in SUBSET ToSet(q) : Grown(v, w, B)
<1>1. PICK f : LeftRun(f, "put", <<>>, w, q) /\ v = f[Len(q)]
  BY PutRun
<1>2. PICK W : W = [n \in 0..Len(q) |-> {u \in Stores : \E B \in SUBSET ToSet(q) : Grown(u, w, B)}]
  OBVIOUS
<1>3. f[0] \in W[0]
  <2>1. f[0] = w
    BY <1>1 DEF LeftRun
  <2>2. Grown(w, w, {})
    BY DEF Grown
  <2> QED BY <1>2, <2>1, <2>2
<1>4. ASSUME NEW n \in 1..Len(q), f[n - 1] \in W[n - 1]
      PROVE  f[n] \in W[n]
  <2>1. n - 1 \in 0..Len(q)
    OBVIOUS
  <2>2. PICK u \in Stores, B \in SUBSET ToSet(q) : u = f[n - 1] /\ Grown(u, w, B)
    BY <1>2, <1>4, <2>1
  <2>3. q[n] \in Tx /\ q[n] \in ToSet(q)
    BY DEF ToSet
  <2>4. PICK t \in Tx : t = q[n]
    BY <2>3
  <2>5. f[n] = PutBack(u, t)
    BY <1>1, <2>2, <2>4 DEF LeftRun, Do
  <2>6. f[n] \in Stores /\ (Grown(f[n], u, {}) \/ Grown(f[n], u, {t}))
    BY <2>5, PutBackGrows
  <2>7. Grown(f[n], w, B \union {}) \/ Grown(f[n], w, B \union {t})
    BY <2>2, <2>6, GrownTwice
  <2> QED BY <1>2, <2>2, <2>3, <2>4, <2>6, <2>7
<1>5. f[Len(q)] \in W[Len(q)]
  <2>1. PICK N \in Nat : N = Len(q)
    OBVIOUS
  <2>2. \A n \in 1..N : f[n - 1] \in W[n - 1] => f[n] \in W[n]
    BY <1>4, <2>1
  <2>3. \A n \in 0..N : f[n] \in W[n]
    BY <1>3, <2>2, LeftReaches
  <2> QED BY <2>1, <2>3
<1> QED BY <1>1, <1>2, <1>5

\* Transactions return to the pool unless they are over or in the cache.
LEMMA ReturningKeys ==
  ASSUME NEW w \in Stores, NEW q \in Seq(Tx), NEW v, v = FoldLeft(Return, w, q)
  PROVE  /\ v \in Stores
         /\ \E B \in SUBSET {t \in ToSet(q) : now - NodesTimeShift <= Expiry[t] /\ t \notin DOMAIN w.cache} :
              Grown(v, w, B)
<1>1. PICK f : LeftRun(f, "return", <<>>, w, q) /\ v = f[Len(q)]
  BY ReturnRun
<1> DEFINE R == {t \in ToSet(q) : now - NodesTimeShift <= Expiry[t] /\ t \notin DOMAIN w.cache}
<1>2. PICK W : W = [n \in 0..Len(q) |-> {u \in Stores : \E B \in SUBSET R : Grown(u, w, B)}]
  OBVIOUS
<1>3. f[0] \in W[0]
  <2>1. f[0] = w
    BY <1>1 DEF LeftRun
  <2>2. Grown(w, w, {})
    BY DEF Grown
  <2> QED BY <1>2, <2>1, <2>2
<1>4. ASSUME NEW n \in 1..Len(q), f[n - 1] \in W[n - 1]
      PROVE  f[n] \in W[n]
  <2>1. n - 1 \in 0..Len(q)
    OBVIOUS
  <2>2. PICK u \in Stores, B \in SUBSET R : u = f[n - 1] /\ Grown(u, w, B)
    BY <1>2, <1>4, <2>1
  <2>3. q[n] \in Tx /\ q[n] \in ToSet(q)
    BY DEF ToSet
  <2>4. PICK t \in Tx : t = q[n]
    BY <2>3
  <2>5. f[n] = Return(u, t)
    BY <1>1, <2>2, <2>4 DEF LeftRun, Do
  <2>6. CASE now - NodesTimeShift <= Expiry[t] /\ t \notin DOMAIN u.cache
    <3>1. f[n] = PutBack(u, t)
      BY <2>5, <2>6 DEF Return
    <3>2. f[n] \in Stores /\ (Grown(f[n], u, {}) \/ Grown(f[n], u, {t}))
      BY <3>1, PutBackGrows
    <3>3. Grown(f[n], w, B \union {}) \/ Grown(f[n], w, B \union {t})
      BY <2>2, <3>2, GrownTwice
    <3>4. t \in R
      BY <2>2, <2>3, <2>4, <2>6 DEF Grown
    <3> QED BY <1>2, <2>2, <3>2, <3>3, <3>4
  <2>7. CASE ~ (now - NodesTimeShift <= Expiry[t] /\ t \notin DOMAIN u.cache)
    <3>1. f[n] = u
      BY <2>5, <2>7 DEF Return
    <3> QED BY <1>2, <2>2, <3>1
  <2> QED BY <2>6, <2>7
<1>5. f[Len(q)] \in W[Len(q)]
  <2>1. PICK N \in Nat : N = Len(q)
    OBVIOUS
  <2>2. \A n \in 1..N : f[n - 1] \in W[n - 1] => f[n] \in W[n]
    BY <1>4, <2>1
  <2>3. \A n \in 0..N : f[n] \in W[n]
    BY <1>3, <2>2, LeftReaches
  <2> QED BY <2>1, <2>3
<1> QED BY <1>1, <1>2, <1>5

LEMMA ActionRevertPapers ==
  ASSUME NEW w \in Stores, NEW t \in Tx, NEW layer, NEW v, v = ActionRevert(w, t, layer)
  PROVE  /\ v \in Stores
         /\ v.log = w.log /\ v.pool = w.pool /\ v.cache = w.cache
<1>1. v \in Stores
  BY StoresHold, ActionRevertHolds DEF Holding
<1>2. CASE Action[t].type = "Transfer"
  <2>1. PICK from \in Address, to \in Address : from = Action[t].from /\ to = Action[t].to
    BY <1>2, ActionNames
  <2>2. PICK x \in Int : x = Action[t].amount
    BY <1>2, ActionNames
  <2>3. v = Transferred(w, to, from, x, layer)
    BY <1>2, <2>1, <2>2 DEF ActionRevert
  <2>4. SamePapers(v, w)
    BY <2>3, TransferredFields
  <2> QED BY <1>1, <2>4 DEF SamePapers
<1>3. CASE Action[t].type # "Transfer"
  <2>1. v = [w EXCEPT !.files = @ \ {Action[t].uri}]
    BY <1>3 DEF ActionRevert
  <2> QED BY <1>1, <2>1 DEF Stores
<1> QED BY <1>2, <1>3

LEMMA ChainRevertPapers ==
  ASSUME NEW w \in Stores, NEW t \in Tx, NEW miner \in Address, NEW v, v = ChainRevert(w, t, miner)
  PROVE  /\ v \in Stores
         /\ v.log = w.log /\ v.pool = w.pool /\ v.cache = w.cache
<1>1. PICK x \in Int, o \in Address : x = Fee[t] /\ o = Owner(t)
  BY ActionNames
<1>2. PICK u : u = Transferred(w, miner, o, x, "chain")
  OBVIOUS
<1>3. u \in Stores /\ SamePapers(u, w)
  BY <1>2, TransferredFields
<1>4. v = ActionRevert(u, t, "chain")
  BY <1>1, <1>2 DEF ChainRevert
<1>5. v \in Stores /\ v.log = u.log /\ v.pool = u.pool /\ v.cache = u.cache
  BY <1>3, <1>4, ActionRevertPapers
<1> QED BY <1>3, <1>5 DEF SamePapers

LEMMA ErasedTwice ==
  ASSUME NEW e \in Cache, NEW K, NEW L
  PROVE  /\ EraseKeys(EraseKeys(e, K), L) = EraseKeys(e, K \union L)
         /\ EraseKeys(e, {}) = e
         /\ EraseKeys(e, K) \in Cache
<1>1. PICK D \in SUBSET Tx : e \in [D -> BOOLEAN]
  BY DEF Cache
<1>2. EraseKeys(e, {}) = e
  BY <1>1 DEF EraseKeys
<1>3. PICK f : f = EraseKeys(e, K)
  OBVIOUS
<1>4. f = [k \in D \ K |-> e[k]]
  BY <1>1, <1>3 DEF EraseKeys
<1>5. EraseKeys(f, L) = [k \in (D \ K) \ L |-> f[k]]
  BY <1>4 DEF EraseKeys
<1>6. EraseKeys(e, K \union L) = [k \in D \ (K \union L) |-> e[k]]
  BY <1>1 DEF EraseKeys
<1>7. (D \ K) \ L = D \ (K \union L) /\ \A k \in (D \ K) \ L : f[k] = e[k]
  BY <1>4
<1>8. f \in [D \ K -> BOOLEAN]
  BY <1>1, <1>4
<1> QED BY <1>2, <1>3, <1>5, <1>6, <1>7, <1>8 DEF Cache

LEMMA PooledPapers ==
  ASSUME NEW w \in Stores, NEW t \in Tx, NEW v, v = RevertPooled(t, w)
  PROVE  /\ v \in Stores
         /\ v.pool = w.pool /\ v.cache = EraseKeys(w.cache, {t})
<1>1. v \in Stores
  BY StoresHold, RevertPooledHolds DEF Holding
<1>2. PICK u : u = ActionRevert(w, t, "pool")
  OBVIOUS
<1>3. u \in Stores /\ u.pool = w.pool /\ u.cache = w.cache
  BY <1>2, ActionRevertPapers
<1>4. \/ v = [w EXCEPT !.cache = EraseKeys(@, {t})]
      \/ v = [[u EXCEPT !.log = Front(@)] EXCEPT !.cache = EraseKeys(@, {t})]
  BY <1>2 DEF RevertPooled
<1> QED BY <1>1, <1>3, <1>4 DEF Stores

\* The pool is taken off, and its keys are erased.
LEMMA PoolOffKeys ==
  ASSUME NEW w \in Stores, NEW v, v = RevertPool(w)
  PROVE  /\ v \in Stores
         /\ v.pool = <<>>
         /\ Owned(v)
         /\ v.cache = EraseKeys(w.cache, ToSet(w.pool))
<1>1. PICK q \in Seq(Tx) : q = w.pool
  BY DEF Stores
<1>2. PICK f : RightRun(f, "pooled", <<>>, w, q) /\ FoldRight(RevertPooled, q, w) = f[0]
  BY PooledRun
<1> DEFINE Above(n) == {q[m] : m \in (n + 1)..Len(q)}
<1>3. PICK W : W = [n \in 0..Len(q) |-> {u \in Stores : u.cache = EraseKeys(w.cache, Above(n))}]
  OBVIOUS
<1>4. w.cache \in Cache
  BY DEF Stores
<1>5. f[Len(q)] \in W[Len(q)]
  <2>1. f[Len(q)] = w
    BY <1>2 DEF RightRun
  <2>2. Above(Len(q)) = {}
    OBVIOUS
  <2>3. EraseKeys(w.cache, {}) = w.cache
    BY <1>4, ErasedTwice
  <2> QED BY <1>3, <2>1, <2>2, <2>3
<1>6. ASSUME NEW n \in 1..Len(q), f[n] \in W[n]
      PROVE  f[n - 1] \in W[n - 1]
  <2>1. n - 1 \in 0..Len(q) /\ n \in 0..Len(q)
    OBVIOUS
  <2>2. PICK u \in Stores : u = f[n] /\ u.cache = EraseKeys(w.cache, Above(n))
    BY <1>3, <1>6, <2>1
  <2>3. PICK t \in Tx : t = q[n]
    OBVIOUS
  <2>4. f[n - 1] = RevertPooled(t, u)
    BY <1>2, <2>2, <2>3 DEF RightRun, Do
  <2>5. f[n - 1] \in Stores /\ f[n - 1].cache = EraseKeys(u.cache, {t})
    BY <2>4, PooledPapers
  <2>6. Above(n - 1) = Above(n) \union {t}
    BY <2>3
  <2>7. PICK K, L : K = Above(n) /\ L = Above(n - 1)
    OBVIOUS
  <2>8. L = K \union {t}
    BY <2>6, <2>7
  <2>9. EraseKeys(EraseKeys(w.cache, K), {t}) = EraseKeys(w.cache, L)
    BY <1>4, <2>8, ErasedTwice
  <2> QED BY <1>3, <2>1, <2>2, <2>5, <2>7, <2>9
<1>7. f[0] \in W[0]
  <2>1. PICK N \in Nat : N = Len(q)
    OBVIOUS
  <2>2. \A n \in 1..N : f[n] \in W[n] => f[n - 1] \in W[n - 1]
    BY <1>6, <2>1
  <2>3. \A n \in 0..N : f[n] \in W[n]
    BY <1>5, <2>1, <2>2, RightReaches
  <2> QED BY <2>3
<1>8. PICK u \in Stores : u = f[0] /\ u.cache = EraseKeys(w.cache, Above(0))
  <2>1. W[0] = {u \in Stores : u.cache = EraseKeys(w.cache, Above(0))}
    <3> HIDE DEF Above
    <3>1. 0 \in 0..Len(q)
      OBVIOUS
    <3> QED BY <1>3, <3>1
  <2> QED BY <1>7, <2>1
<1>9. Above(0) = ToSet(q)
  BY DEF ToSet
<1>10. v = [u EXCEPT !.pool = <<>>, !.own = u.balance[Own]]
  BY <1>1, <1>2, <1>8 DEF RevertPool
<1>11. v \in Stores
  <2>1. u.balance[Own] \in Int
    BY <1>8, LedgerAssumption DEF Stores
  <2>2. <<>> \in Seq(Tx)
    OBVIOUS
  <2> QED BY <1>8, <1>10, <2>1, <2>2 DEF Stores
<1> QED BY <1>1, <1>8, <1>9, <1>10, <1>11 DEF Stores, Owned

KeysOf(S) == UNION {Keys(t) : t \in S}

LEMMA UnappliedPapers ==
  ASSUME NEW w \in Stores, NEW t \in Tx, NEW miner \in Address, NEW v, v = Unapplied(t, w, miner)
  PROVE  /\ v \in Stores
         /\ v.pool = w.pool /\ v.cache = EraseKeys(w.cache, Keys(t))
<1>1. v \in Stores
  BY StoresHold, UnapplyHolds DEF Holding, Unapplied
<1>2. PICK u : u = ChainRevert(w, t, miner)
  OBVIOUS
<1>3. u \in Stores /\ u.pool = w.pool /\ u.cache = w.cache
  BY <1>2, ChainRevertPapers
<1>4. v = [u EXCEPT !.cache = EraseKeys(@, Keys(t))]
  BY <1>2 DEF Unapplied
<1> QED BY <1>1, <1>3, <1>4 DEF Stores

\* A block is taken off, and the keys of its transactions are erased.
LEMMA BlockOffKeys ==
  ASSUME NEW w \in Stores, NEW block \in Block, NEW v, v = RevertBlock(w, block)
  PROVE  /\ v \in Stores
         /\ v.pool = w.pool
         /\ v.cache = EraseKeys(w.cache, KeysOf(ToSet(block.txs)))
<1>1. w \in Stores /\ <<"block", block>> \in Entry
  BY DEF Entry
<1>2. PICK r \in Stores : r = [w EXCEPT !.log = Front(@)]
  BY <1>1, LogTypes
<1>3. PICK miner \in Address, q \in Seq(Tx) : miner = block.miner /\ q = block.txs
  BY DEF Block
<1>4. PICK x \in Int : x = -Emission
  BY LedgerAssumption
<1>5. PICK u : u = Pay(r, miner, x, "chain")
  OBVIOUS
<1>6. u \in Stores /\ SamePapers(u, r)
  BY <1>5, PayFields
<1>7. u.pool = w.pool /\ u.cache = w.cache /\ w.cache \in Cache
  BY <1>2, <1>6 DEF SamePapers, Stores
<1>9. PICK f : RightRun(f, "unapply", miner, u, q) /\ v = f[0]
  <2>1. PICK f : /\ RightRun(f, "unapply", block.miner,
                             Pay([w EXCEPT !.log = Front(@)], block.miner, -Emission, "chain"),
                             block.txs)
                 /\ v = f[0]
    BY RevertBlockRun
  <2> QED BY <1>2, <1>3, <1>4, <1>5, <2>1
<1> DEFINE Above(n) == {q[m] : m \in (n + 1)..Len(q)}
<1>10. PICK W : W = [n \in 0..Len(q) |->
                      {z \in Stores : z.pool = w.pool /\ z.cache = EraseKeys(w.cache, KeysOf(Above(n)))}]
  OBVIOUS
<1>11. f[Len(q)] \in W[Len(q)]
  <2>1. f[Len(q)] = u
    BY <1>9 DEF RightRun
  <2>2. KeysOf(Above(Len(q))) = {}
    BY DEF KeysOf
  <2>3. EraseKeys(w.cache, {}) = w.cache
    BY <1>7, ErasedTwice
  <2>4. Len(q) \in 0..Len(q)
    OBVIOUS
  <2> HIDE DEF Above
  <2> QED BY <1>6, <1>7, <1>10, <2>1, <2>2, <2>3, <2>4
<1>12. ASSUME NEW n \in 1..Len(q), f[n] \in W[n]
       PROVE  f[n - 1] \in W[n - 1]
  <2>1. n - 1 \in 0..Len(q) /\ n \in 0..Len(q)
    OBVIOUS
  <2>2. PICK z \in Stores : /\ z = f[n] /\ z.pool = w.pool
                            /\ z.cache = EraseKeys(w.cache, KeysOf(Above(n)))
    BY <1>10, <1>12, <2>1
  <2>3. PICK t \in Tx : t = q[n]
    OBVIOUS
  <2>4. f[n - 1] = Unapplied(t, z, miner)
    BY <1>9, <2>2, <2>3 DEF RightRun, Do
  <2>5. /\ f[n - 1] \in Stores /\ f[n - 1].pool = z.pool
        /\ f[n - 1].cache = EraseKeys(z.cache, Keys(t))
    BY <2>4, UnappliedPapers
  <2>6. Above(n - 1) = Above(n) \union {t}
    BY <2>3
  <2>7. PICK K, L : K = KeysOf(Above(n)) /\ L = KeysOf(Above(n - 1))
    OBVIOUS
  <2>8. L = K \union Keys(t)
    <3> HIDE DEF Above
    <3> QED BY <2>6, <2>7 DEF KeysOf
  <2>9. EraseKeys(EraseKeys(w.cache, K), Keys(t)) = EraseKeys(w.cache, L)
    BY <1>7, <2>8, ErasedTwice
  <2> QED BY <1>10, <2>1, <2>2, <2>5, <2>7, <2>9
<1>13. f[0] \in W[0]
  <2>1. PICK N \in Nat : N = Len(q)
    OBVIOUS
  <2>2. \A n \in 1..N : f[n] \in W[n] => f[n - 1] \in W[n - 1]
    BY <1>12, <2>1
  <2>3. \A n \in 0..N : f[n] \in W[n]
    BY <1>11, <2>1, <2>2, RightReaches
  <2> QED BY <2>3
<1>14. Above(0) = ToSet(q)
  BY DEF ToSet
<1> QED BY <1>3, <1>9, <1>10, <1>13, <1>14

\* Transactions that share no key.
KeysDisjoint(S) == \A t, u \in S : t # u => Keys(t) \intersect Keys(u) = {}

\* The keys of the transactions of S that are free in a cache are added.
Free(e, S) == {t \in S : Keys(t) \intersect DOMAIN e = {}}
AddSet(e, S) ==
  [k \in DOMAIN e \union KeysOf(Free(e, S)) |-> IF k \in DOMAIN e THEN e[k] ELSE TRUE]

LEMMA KeysInTx ==
  ASSUME NEW S \in SUBSET Tx
  PROVE  /\ KeysOf(S) \in SUBSET Tx
         /\ \A t \in S : Keys(t) \subseteq KeysOf(S) /\ t \in Keys(t)
BY LedgerAssumption DEF KeysOf, Keys

LEMMA AddSetFields ==
  ASSUME NEW e \in Cache, NEW S \in SUBSET Tx
  PROVE  /\ AddSet(e, S) \in Cache
         /\ DOMAIN AddSet(e, S) = DOMAIN e \union KeysOf(Free(e, S))
         /\ AddSet(e, {}) = e
<1>1. PICK D \in SUBSET Tx : e \in [D -> BOOLEAN]
  BY DEF Cache
<1>2. KeysOf(Free(e, S)) \in SUBSET Tx
  BY KeysInTx DEF Free
<1>3. AddSet(e, S) \in [D \union KeysOf(Free(e, S)) -> BOOLEAN]
  BY <1>1 DEF AddSet
<1>4. Free(e, {}) = {} /\ KeysOf({}) = {}
  BY DEF Free, KeysOf
<1>5. AddSet(e, {}) = e
  BY <1>1, <1>4 DEF AddSet
<1>6. DOMAIN AddSet(e, S) = DOMAIN e \union KeysOf(Free(e, S))
  BY DEF AddSet
<1> QED BY <1>1, <1>2, <1>3, <1>5, <1>6 DEF Cache

\* One transaction more.
LEMMA AddChainAdds ==
  ASSUME NEW e \in Cache, NEW t \in Tx
  PROVE  AddChain(e, t) = AddSet(e, {t})
<1>1. PICK D \in SUBSET Tx : e \in [D -> BOOLEAN]
  BY DEF Cache
<1>2. CASE CanAddChain(e, t)
  <2>1. Free(e, {t}) = {t} /\ KeysOf({t}) = Keys(t)
    BY <1>2 DEF Free, KeysOf, CanAddChain
  <2>2. AddChain(e, t) = [k \in D \union Keys(t) |-> k \in Keys(t) \/ e[k]]
    BY <1>1, <1>2 DEF AddChain
  <2>3. AddSet(e, {t}) = [k \in D \union Keys(t) |-> IF k \in D THEN e[k] ELSE TRUE]
    BY <1>1, <2>1 DEF AddSet
  <2>4. \A k \in D \union Keys(t) : (k \in Keys(t) \/ e[k]) = IF k \in D THEN e[k] ELSE TRUE
    <3>1. Keys(t) \intersect D = {}
      BY <1>1, <1>2 DEF CanAddChain
    <3> QED BY <1>1, <3>1
  <2> QED BY <2>2, <2>3, <2>4
<1>3. CASE ~ CanAddChain(e, t)
  <2>1. Free(e, {t}) = {} /\ KeysOf({}) = {}
    BY <1>3 DEF Free, KeysOf, CanAddChain
  <2>2. AddSet(e, {t}) = e
    BY <1>1, <2>1 DEF AddSet
  <2> QED BY <1>3, <2>2 DEF AddChain
<1> QED BY <1>2, <1>3

LEMMA AddedTwice ==
  ASSUME NEW e \in Cache, NEW S \in SUBSET Tx, NEW U \in SUBSET Tx, KeysDisjoint(S \union U)
  PROVE  AddSet(AddSet(e, S), U) = AddSet(e, S \union U)
<1>1. PICK f \in Cache : f = AddSet(e, S)
  BY AddSetFields
<1>2. DOMAIN f = DOMAIN e \union KeysOf(Free(e, S))
  BY <1>1, AddSetFields
<1>3. \A t \in Tx : t \in Keys(t)
  BY DEF Keys
<1>4. DOMAIN f \union KeysOf(Free(f, U)) = DOMAIN e \union KeysOf(Free(e, S \union U))
  <2>1. ASSUME NEW t \in Free(f, U)
        PROVE  t \in Free(e, S \union U)
    BY <1>2, <2>1 DEF Free
  <2>2. ASSUME NEW t \in Free(e, S \union U), t \notin Free(e, S)
        PROVE  t \in Free(f, U)
    <3>1. t \in U /\ Keys(t) \intersect DOMAIN e = {}
      BY <2>2 DEF Free
    <3>2. ASSUME NEW u \in Free(e, S)
          PROVE  Keys(t) \intersect Keys(u) = {}
      BY <2>2, <3>1 DEF Free, KeysDisjoint
    <3>3. Keys(t) \intersect KeysOf(Free(e, S)) = {}
      BY <3>2 DEF KeysOf
    <3> QED BY <1>2, <3>1, <3>3 DEF Free
  <2>3. Free(e, S) \subseteq Free(e, S \union U)
    BY DEF Free
  <2>4. KeysOf(Free(e, S \union U)) = KeysOf(Free(e, S)) \union KeysOf(Free(f, U))
    BY <2>1, <2>2, <2>3 DEF KeysOf
  <2> QED BY <1>2, <2>4
<1>5. PICK K : K = DOMAIN f \union KeysOf(Free(f, U))
  OBVIOUS
<1>6. AddSet(f, U) = [k \in K |-> IF k \in DOMAIN f THEN f[k] ELSE TRUE]
  BY <1>5 DEF AddSet
<1>7. AddSet(e, S \union U) = [k \in K |-> IF k \in DOMAIN e THEN e[k] ELSE TRUE]
  BY <1>4, <1>5 DEF AddSet
<1>8. \A k \in DOMAIN f : f[k] = IF k \in DOMAIN e THEN e[k] ELSE TRUE
  BY <1>1 DEF AddSet
<1>9. \A k \in K : (IF k \in DOMAIN f THEN f[k] ELSE TRUE) = IF k \in DOMAIN e THEN e[k] ELSE TRUE
  BY <1>2, <1>8
<1> QED BY <1>1, <1>6, <1>7, <1>9

\* The keys of other transactions are erased.
LEMMA ErasedAfterAdded ==
  ASSUME NEW e \in Cache, NEW S \in SUBSET Tx, NEW U \in SUBSET Tx, KeysDisjoint(S \union U)
  PROVE  EraseKeys(AddSet(e, S), KeysOf(U)) = AddSet(EraseKeys(e, KeysOf(U)), S \ U)
<1>1. PICK f \in Cache : f = AddSet(e, S)
  BY AddSetFields
<1>2. DOMAIN f = DOMAIN e \union KeysOf(Free(e, S))
  BY <1>1, AddSetFields
<1>3. PICK L : L = KeysOf(U)
  OBVIOUS
<1>4. PICK g : g = EraseKeys(e, L)
  OBVIOUS
<1>5. DOMAIN g = DOMAIN e \ L /\ \A k \in DOMAIN g : g[k] = e[k]
  BY <1>4 DEF EraseKeys
<1>6. \A t \in S \ U : Keys(t) \intersect L = {}
  BY <1>3 DEF KeysOf, KeysDisjoint
<1>7. \A t \in U : Keys(t) \subseteq L
  BY <1>3 DEF KeysOf
<1>8. Free(g, S \ U) = Free(e, S) \ U
  BY <1>5, <1>6 DEF Free
<1>9. DOMAIN f \ L = DOMAIN g \union KeysOf(Free(g, S \ U))
  <2>1. ASSUME NEW k \in KeysOf(Free(e, S)) \ L
        PROVE  k \in KeysOf(Free(e, S) \ U)
    <3>1. PICK t \in Free(e, S) : k \in Keys(t)
      BY <2>1 DEF KeysOf
    <3>2. t \notin U
      BY <1>7, <2>1, <3>1
    <3> QED BY <3>1, <3>2 DEF KeysOf
  <2>2. ASSUME NEW k \in KeysOf(Free(e, S) \ U)
        PROVE  k \in KeysOf(Free(e, S)) \ L
    <3>1. PICK t \in Free(e, S) \ U : k \in Keys(t)
      BY <2>2 DEF KeysOf
    <3>2. t \in S \ U
      BY <3>1 DEF Free
    <3> QED BY <1>6, <3>1, <3>2 DEF KeysOf
  <2>3. KeysOf(Free(e, S)) \ L = KeysOf(Free(e, S) \ U)
    BY <2>1, <2>2
  <2> QED BY <1>2, <1>5, <1>8, <2>3
<1>10. PICK K : K = DOMAIN f \ L
  OBVIOUS
<1>11. EraseKeys(f, L) = [k \in K |-> f[k]]
  BY <1>10 DEF EraseKeys
<1>12. AddSet(g, S \ U) = [k \in K |-> IF k \in DOMAIN g THEN g[k] ELSE TRUE]
  BY <1>9, <1>10 DEF AddSet
<1>13. \A k \in DOMAIN f : f[k] = IF k \in DOMAIN e THEN e[k] ELSE TRUE
  BY <1>1 DEF AddSet
<1>14. \A k \in K : f[k] = IF k \in DOMAIN g THEN g[k] ELSE TRUE
  BY <1>5, <1>10, <1>13
<1> QED BY <1>1, <1>3, <1>4, <1>11, <1>12, <1>14

\* An old block is put into the cache again.
LEMMA AddingSet ==
  ASSUME NEW e \in Cache, NEW q \in Seq(Tx), KeysDisjoint(ToSet(q))
  PROVE  FoldLeft(AddChain, e, q) = AddSet(e, ToSet(q))
<1>1. PICK f : LeftRun(f, "add", <<>>, e, q) /\ FoldLeft(AddChain, e, q) = f[Len(q)]
  BY AddRun
<1> DEFINE Below(n) == {q[m] : m \in 1..n}
<1>2. PICK W : W = [n \in 0..Len(q) |-> {AddSet(e, Below(n))}]
  OBVIOUS
<1>3. f[0] \in W[0]
  <2>1. f[0] = e
    BY <1>1 DEF LeftRun
  <2>2. Below(0) = {}
    OBVIOUS
  <2>3. AddSet(e, {}) = e
    BY AddSetFields
  <2>4. 0 \in 0..Len(q)
    OBVIOUS
  <2> HIDE DEF Below
  <2> QED BY <1>2, <2>1, <2>2, <2>3, <2>4
<1>4. ASSUME NEW n \in 1..Len(q), f[n - 1] \in W[n - 1]
      PROVE  f[n] \in W[n]
  <2>1. n - 1 \in 0..Len(q) /\ n \in 0..Len(q)
    OBVIOUS
  <2>2. PICK t \in Tx : t = q[n]
    OBVIOUS
  <2>3. PICK S : S = Below(n - 1)
    OBVIOUS
  <2>4. Below(n) = S \union {t}
    BY <2>2, <2>3
  <2>5. S \union {t} \subseteq ToSet(q) /\ S \in SUBSET Tx
    BY <2>2, <2>3 DEF ToSet
  <2>6. f[n - 1] = AddSet(e, S)
    <3> HIDE DEF Below
    <3> QED BY <1>2, <1>4, <2>1, <2>3
  <2>7. PICK u \in Cache : u = AddSet(e, S)
    BY <2>5, AddSetFields
  <2>8. f[n] = AddChain(u, t)
    BY <1>1, <2>2, <2>6, <2>7 DEF LeftRun, Do
  <2>9. f[n] = AddSet(u, {t})
    BY <2>8, AddChainAdds
  <2>10. KeysDisjoint(S \union {t})
    BY <2>5 DEF KeysDisjoint
  <2>11. f[n] = AddSet(e, S \union {t})
    BY <2>5, <2>7, <2>9, <2>10, AddedTwice
  <2>12. f[n] = AddSet(e, Below(n))
    BY <2>4, <2>11
  <2> HIDE DEF Below
  <2> QED BY <1>2, <2>1, <2>12
<1>5. f[Len(q)] \in W[Len(q)]
  <2>1. PICK N \in Nat : N = Len(q)
    OBVIOUS
  <2>2. \A n \in 1..N : f[n - 1] \in W[n - 1] => f[n] \in W[n]
    BY <1>4, <2>1
  <2>3. \A n \in 0..N : f[n] \in W[n]
    BY <1>3, <2>2, LeftReaches
  <2> QED BY <2>1, <2>3
<1>6. Below(Len(q)) = ToSet(q)
  BY DEF ToSet
<1> HIDE DEF Below
<1>7. Len(q) \in 0..Len(q)
  OBVIOUS
<1> QED BY <1>1, <1>2, <1>5, <1>6, <1>7

-----------------------------------------------------------------------------
(* The blocks above one are taken off: what is left in the cache            *)

Txs(i) == ToSet(chain[i].txs)

\* No key is on the chain twice.
UsedOnce ==
  \A i, j \in DOMAIN chain : \A t \in Txs(i), u \in Txs(j) :
    (i # j \/ t # u) => Keys(t) \intersect Keys(u) = {}

\* The transactions of the blocks from i on, those of the blocks that are put
\* into the cache again when they are taken off, and what that makes of a cache.
Removed(i) == UNION {Txs(j) : j \in i..Len(chain)}
Old(i) == UNION {Txs(j) : j \in {k \in DOMAIN chain : k + LifetimeBlocks >= i
                                                      /\ k + LifetimeBlocks <= Len(chain)}}
OldOf(i) == IF i > LifetimeBlocks THEN Txs(i - LifetimeBlocks) ELSE {}
Rewound(e, i) == AddSet(EraseKeys(e, KeysOf(Removed(i))), Old(i) \ Removed(i))

LEMMA ChainSets ==
  ASSUME chain \in Seq(Block), NEW i \in DOMAIN chain
  PROVE  /\ Txs(i) \in SUBSET Tx
         /\ OldOf(i) \in SUBSET Tx
         /\ Removed(i) = Txs(i) \union Removed(i + 1)
         /\ Old(i) = OldOf(i) \union Old(i + 1)
         /\ \A j \in Nat \ {0} : Removed(j) \in SUBSET Tx /\ Old(j) \in SUBSET Tx
         /\ Removed(Len(chain) + 1) = {} /\ Old(Len(chain) + 1) = {}
<1>1. ASSUME NEW j \in DOMAIN chain
      PROVE  Txs(j) \in SUBSET Tx
  <2>1. chain[j] \in Block
    OBVIOUS
  <2>2. PICK q \in Seq(Tx) : q = chain[j].txs
    BY <2>1 DEF Block
  <2> QED BY <2>2 DEF Txs, ToSet
<1>2. i \in 1..Len(chain) /\ Len(chain) \in Nat /\ LifetimeBlocks \in Nat \ {0}
  BY LedgerAssumption
<1>3. OldOf(i) \in SUBSET Tx
  <2>1. i > LifetimeBlocks => i - LifetimeBlocks \in DOMAIN chain
    BY <1>2
  <2> QED BY <1>1, <2>1 DEF OldOf
<1>4. Removed(i) = Txs(i) \union Removed(i + 1)
  <2>1. i..Len(chain) = {i} \union ((i + 1)..Len(chain))
    BY <1>2
  <2> QED BY <2>1 DEF Removed
<1>5. Old(i) = OldOf(i) \union Old(i + 1)
  <2> DEFINE P(m) == {k \in DOMAIN chain : k + LifetimeBlocks >= m /\ k + LifetimeBlocks <= Len(chain)}
  <2>1. CASE i > LifetimeBlocks
    <3>1. P(i) = {i - LifetimeBlocks} \union P(i + 1)
      BY <1>2, <2>1
    <3> HIDE DEF P
    <3>2. UNION {Txs(j) : j \in P(i)} = Txs(i - LifetimeBlocks) \union UNION {Txs(j) : j \in P(i + 1)}
      BY <3>1
    <3> QED BY <2>1, <3>2 DEF Old, OldOf, P
  <2>2. CASE ~ (i > LifetimeBlocks)
    <3>1. P(i) = P(i + 1)
      BY <1>2, <2>2
    <3> HIDE DEF P
    <3>2. UNION {Txs(j) : j \in P(i)} = UNION {Txs(j) : j \in P(i + 1)}
      BY <3>1
    <3> QED BY <2>2, <3>2 DEF Old, OldOf, P
  <2> QED BY <2>1, <2>2
<1>6. ASSUME NEW j \in Nat \ {0}
      PROVE  Removed(j) \in SUBSET Tx /\ Old(j) \in SUBSET Tx
  <2>1. \A k \in j..Len(chain) : k \in DOMAIN chain
    OBVIOUS
  <2>2. Old(j) \in SUBSET Tx
    BY <1>1 DEF Old
  <2>3. \A k \in j..Len(chain) : Txs(k) \in SUBSET Tx
    BY <1>1, <2>1
  <2> QED BY <2>2, <2>3 DEF Removed
<1>7. Removed(Len(chain) + 1) = {} /\ Old(Len(chain) + 1) = {}
  BY <1>2 DEF Removed, Old
<1> QED BY <1>1, <1>2, <1>3, <1>4, <1>5, <1>6, <1>7

\* The chain as one set of transactions with different keys.
LEMMA ChainDisjoint ==
  ASSUME chain \in Seq(Block), UsedOnce, NEW S \in SUBSET DOMAIN chain
  PROVE  KeysDisjoint(UNION {Txs(j) : j \in S})
BY DEF UsedOnce, KeysDisjoint

LEMMA OldAndRemoved ==
  ASSUME chain \in Seq(Block), NEW i \in DOMAIN chain
  PROVE  \E S \in SUBSET DOMAIN chain :
           Old(i) \union Removed(i) = UNION {Txs(j) : j \in S}
<1> DEFINE P == {k \in DOMAIN chain : k + LifetimeBlocks >= i /\ k + LifetimeBlocks <= Len(chain)}
           Q == i..Len(chain)
<1>1. P \union Q \in SUBSET DOMAIN chain
  OBVIOUS
<1>2. Old(i) \union Removed(i) = (UNION {Txs(j) : j \in P}) \union (UNION {Txs(j) : j \in Q})
  BY DEF Old, Removed
<1> HIDE DEF P, Q
<1>3. (UNION {Txs(j) : j \in P}) \union (UNION {Txs(j) : j \in Q}) = UNION {Txs(j) : j \in P \union Q}
  OBVIOUS
<1> QED BY <1>1, <1>2, <1>3

\* An old block is not among the removed ones.
LEMMA OldNotRemoved ==
  ASSUME chain \in Seq(Block), UsedOnce, NEW i \in DOMAIN chain
  PROVE  /\ OldOf(i) \intersect Removed(i) = {}
         /\ KeysDisjoint(OldOf(i))
<1>1. i \in 1..Len(chain) /\ LifetimeBlocks \in Nat \ {0}
  BY LedgerAssumption
<1>2. \A t \in Tx : t \in Keys(t)
  BY DEF Keys
<1>3. CASE i > LifetimeBlocks
  <2>1. PICK j \in DOMAIN chain : j = i - LifetimeBlocks /\ j < i
    BY <1>1, <1>3
  <2>2. OldOf(i) = Txs(j)
    BY <1>3, <2>1 DEF OldOf
  <2>3. \A k \in i..Len(chain) : k \in DOMAIN chain /\ k # j
    BY <1>1, <2>1
  <2>4. Txs(j) \in SUBSET Tx
    BY <2>2, ChainSets
  <2>5. Txs(j) \intersect Removed(i) = {}
    BY <1>2, <2>3, <2>4 DEF Removed, UsedOnce
  <2>6. KeysDisjoint(Txs(j))
    BY DEF KeysDisjoint, UsedOnce
  <2> QED BY <2>2, <2>5, <2>6
<1>4. CASE ~ (i > LifetimeBlocks)
  BY <1>4 DEF OldOf, KeysDisjoint
<1> QED BY <1>3, <1>4

LEMMA RewoundStep ==
  ASSUME chain \in Seq(Block), UsedOnce, NEW e \in Cache, NEW i \in DOMAIN chain
  PROVE  /\ Rewound(e, Len(chain) + 1) = e
         /\ AddSet(EraseKeys(Rewound(e, i + 1), KeysOf(Txs(i))), OldOf(i)) = Rewound(e, i)
<1>1. PICK X \in SUBSET Tx, N \in SUBSET Tx : X = Txs(i) /\ N = OldOf(i)
  BY ChainSets
<1>2. i + 1 \in Nat \ {0} /\ i \in Nat \ {0}
  OBVIOUS
<1>3. PICK R \in SUBSET Tx, O \in SUBSET Tx : R = Removed(i + 1) /\ O = Old(i + 1)
  BY <1>2, ChainSets
<1>4. Removed(i) = X \union R /\ Old(i) = N \union O
  BY <1>1, <1>3, ChainSets
<1>5. KeysDisjoint((N \union O) \union (X \union R))
  BY <1>4, OldAndRemoved, ChainDisjoint
<1>6. PICK d \in Cache : d = EraseKeys(e, KeysOf(R))
  BY ErasedTwice
<1>7. Rewound(e, i + 1) = AddSet(d, O \ R)
  BY <1>3, <1>6 DEF Rewound
<1>8. KeysDisjoint((O \ R) \union X)
  BY <1>5 DEF KeysDisjoint
<1>9. EraseKeys(AddSet(d, O \ R), KeysOf(X)) = AddSet(EraseKeys(d, KeysOf(X)), (O \ R) \ X)
  <2>1. PICK S \in SUBSET Tx : S = O \ R
    OBVIOUS
  <2> QED BY <1>8, <2>1, ErasedAfterAdded
<1>10. KeysOf(X \union R) = KeysOf(R) \union KeysOf(X)
  BY DEF KeysOf
<1>11. PICK g \in Cache : g = EraseKeys(e, KeysOf(X \union R))
  BY ErasedTwice
<1>12. EraseKeys(d, KeysOf(X)) = g
  <2>1. PICK K, L : K = KeysOf(R) /\ L = KeysOf(X)
    OBVIOUS
  <2>2. EraseKeys(EraseKeys(e, K), L) = EraseKeys(e, K \union L)
    BY ErasedTwice
  <2> QED BY <1>6, <1>10, <1>11, <2>1, <2>2
<1>13. N \intersect (X \union R) = {}
  BY <1>1, <1>4, OldNotRemoved
<1>14. AddSet(AddSet(g, (O \ R) \ X), N) = AddSet(g, (N \union O) \ (X \union R))
  <2>1. PICK S \in SUBSET Tx : S = (O \ R) \ X
    OBVIOUS
  <2>2. KeysDisjoint(S \union N)
    BY <1>5, <2>1 DEF KeysDisjoint
  <2>3. AddSet(AddSet(g, S), N) = AddSet(g, S \union N)
    BY <2>2, AddedTwice
  <2>4. S \union N = (N \union O) \ (X \union R)
    BY <1>13, <2>1
  <2> QED BY <2>1, <2>3, <2>4
<1>15. Rewound(e, i) = AddSet(g, (N \union O) \ (X \union R))
  BY <1>4, <1>11 DEF Rewound
<1>16. Rewound(e, Len(chain) + 1) = e
  <2>1. Removed(Len(chain) + 1) = {} /\ Old(Len(chain) + 1) = {}
    BY ChainSets
  <2>2. KeysOf({}) = {} /\ {} \ {} = {}
    BY DEF KeysOf
  <2>3. EraseKeys(e, {}) = e /\ AddSet(e, {}) = e
    BY ErasedTwice, AddSetFields
  <2> QED BY <2>1, <2>2, <2>3 DEF Rewound
<1> QED BY <1>1, <1>7, <1>9, <1>12, <1>14, <1>15, <1>16

\* A block of the chain is taken off.
LEMMA UnblockedKeys ==
  ASSUME chain \in Seq(Block), UsedOnce, NEW w \in Stores, NEW i \in DOMAIN chain,
         NEW v, v = Unblocked(i, w)
  PROVE  /\ v \in Stores
         /\ v.pool = w.pool
         /\ v.cache = AddSet(EraseKeys(w.cache, KeysOf(Txs(i))), OldOf(i))
<1>1. PICK block \in Block : block = chain[i]
  OBVIOUS
<1>2. v \in Stores
  <2>1. Unblocked(i, w) \in Holding(Coins(w) - Emission)
    BY StoresHold, UnblockedHolds
  <2> QED BY <2>1 DEF Holding
<1>3. PICK off : off = RevertBlock(w, block)
  OBVIOUS
<1>4. off \in Stores /\ off.pool = w.pool /\ off.cache = EraseKeys(w.cache, KeysOf(ToSet(block.txs)))
  BY <1>3, BlockOffKeys
<1>5. off.cache = EraseKeys(w.cache, KeysOf(Txs(i)))
  BY <1>1, <1>4 DEF Txs
<1>6. PICK old : old = IF i > LifetimeBlocks THEN chain[i - LifetimeBlocks].txs ELSE <<>>
  OBVIOUS
<1>7. old \in Seq(Tx) /\ ToSet(old) = OldOf(i)
  <2>1. CASE i > LifetimeBlocks
    <3>1. i - LifetimeBlocks \in DOMAIN chain
      BY <2>1, LedgerAssumption
    <3>2. chain[i - LifetimeBlocks] \in Block
      BY <3>1
    <3> QED BY <1>6, <2>1, <3>2 DEF Block, OldOf, Txs
  <2>2. CASE ~ (i > LifetimeBlocks)
    <3>1. old = <<>> /\ OldOf(i) = {}
      BY <1>6, <2>2 DEF OldOf
    <3>2. ToSet(<<>>) = {}
      BY DEF ToSet
    <3> QED BY <3>1, <3>2
  <2> QED BY <2>1, <2>2
<1>8. v = [off EXCEPT !.cache = FoldLeft(AddChain, @, old)]
  BY <1>1, <1>3, <1>6 DEF Unblocked
<1>9. off.cache \in Cache
  BY <1>4 DEF Stores
<1>10. FoldLeft(AddChain, off.cache, old) = AddSet(off.cache, OldOf(i))
  BY <1>7, <1>9, OldNotRemoved, AddingSet
<1> QED BY <1>2, <1>4, <1>5, <1>8, <1>10 DEF Stores

\* The blocks above lcb are taken off, and the old ones come into the cache again.
LEMMA BlocksOffKeys ==
  ASSUME chain \in Seq(Block), UsedOnce, NEW w \in Stores, NEW lcb \in 0..(Len(chain) - 1),
         NEW v, v = RevertBlocks(w, lcb)
  PROVE  /\ v \in Stores
         /\ v.pool = w.pool
         /\ v.cache = Rewound(w.cache, lcb + 2)
<1> DEFINE q == [n \in 1..(HeadNumber - lcb) |-> n + lcb + 1]
<1>1. PICK N \in Nat : N = HeadNumber - lcb /\ Len(chain) + 1 = N + lcb + 2
  <2>1. Len(chain) \in Nat /\ HeadNumber = Len(chain) - 1
    BY DEF HeadNumber
  <2>2. HeadNumber - lcb \in Nat /\ Len(chain) + 1 = (HeadNumber - lcb) + lcb + 2
    BY <2>1
  <2> QED BY <2>2
<1>2. q \in Seq(Int) /\ Len(q) = N
  BY <1>1
<1>3. \A n \in 1..N : q[n] = n + lcb + 1 /\ q[n] \in DOMAIN chain
  BY <1>1
<1>4. v = FoldRight(Unblocked, q, w)
  BY DEF RevertBlocks, Unblocked
<1> HIDE DEF q
<1>5. PICK f : RightRun(f, "unblock", <<>>, w, q) /\ v = f[0]
  BY <1>2, <1>4, UnblockRun
<1>6. PICK W : W = [n \in 0..N |-> {z \in Stores : z.pool = w.pool /\ z.cache = Rewound(w.cache, n + lcb + 2)}]
  OBVIOUS
<1>7. w.cache \in Cache
  BY DEF Stores
<1>8. Len(chain) \in DOMAIN chain
  BY <1>1
<1>9. f[N] \in W[N]
  <2>1. f[N] = w
    BY <1>2, <1>5 DEF RightRun
  <2>2. Rewound(w.cache, N + lcb + 2) = w.cache
    BY <1>1, <1>7, <1>8, RewoundStep
  <2>3. N \in 0..N
    OBVIOUS
  <2> QED BY <1>6, <2>1, <2>2, <2>3
<1>10. ASSUME NEW n \in 1..N, f[n] \in W[n]
       PROVE  f[n - 1] \in W[n - 1]
  <2>1. n - 1 \in 0..N /\ n \in 0..N
    OBVIOUS
  <2>2. PICK z \in Stores : z = f[n] /\ z.pool = w.pool /\ z.cache = Rewound(w.cache, n + lcb + 2)
    BY <1>6, <1>10, <2>1
  <2>3. PICK i \in DOMAIN chain : i = q[n] /\ i = (n - 1) + lcb + 2 /\ i + 1 = n + lcb + 2
    BY <1>3
  <2>4. f[n - 1] = Unblocked(i, z)
    BY <1>2, <1>5, <2>2, <2>3 DEF RightRun, Do
  <2>5. /\ f[n - 1] \in Stores /\ f[n - 1].pool = z.pool
        /\ f[n - 1].cache = AddSet(EraseKeys(z.cache, KeysOf(Txs(i))), OldOf(i))
    BY <2>4, UnblockedKeys
  <2>6. AddSet(EraseKeys(Rewound(w.cache, i + 1), KeysOf(Txs(i))), OldOf(i)) = Rewound(w.cache, i)
    BY <1>7, RewoundStep
  <2>7. f[n - 1].cache = Rewound(w.cache, (n - 1) + lcb + 2)
    BY <2>2, <2>3, <2>5, <2>6
  <2> QED BY <1>6, <2>1, <2>2, <2>5, <2>7
<1>11. f[0] \in W[0]
  <2>1. \A n \in 1..N : f[n] \in W[n] => f[n - 1] \in W[n - 1]
    BY <1>10
  <2>2. \A n \in 0..N : f[n] \in W[n]
    BY <1>9, <2>1, RightReaches
  <2> QED BY <2>2
<1>12. W[0] = {z \in Stores : z.pool = w.pool /\ z.cache = Rewound(w.cache, lcb + 2)}
  <2>1. 0 \in 0..N /\ 0 + lcb + 2 = lcb + 2
    OBVIOUS
  <2> QED BY <1>6, <2>1
<1> QED BY <1>5, <1>11, <1>12

-----------------------------------------------------------------------------
(* A block is put on: what it adds to the cache                             *)

\* A transaction has joined the block of a miner.
Joins(v, w, t, miner) ==
  /\ v.balance = BlockMoves(w.balance, t, miner)
  /\ v.files = w.files \union NewFiles(t)
  /\ v.log = w.log /\ v.pool = w.pool
  /\ v.cache = AddChain(w.cache, t)
  /\ Owned(w) => Owned(v)

LEMMA JoinsFields ==
  ASSUME NEW w \in Stores, NEW t \in Tx, NEW miner \in Address,
         NEW v, v = [ChainApply(w, t, miner) EXCEPT !.cache = AddChain(@, t)]
  PROVE  v \in Stores /\ Joins(v, w, t, miner)
<1>1. PICK u : u = ChainApply(w, t, miner)
  OBVIOUS
<1>2. /\ u \in Stores
      /\ u.balance = BlockMoves(w.balance, t, miner)
      /\ u.files = w.files \union NewFiles(t)
      /\ u.log = w.log /\ u.pool = w.pool /\ u.cache = w.cache
      /\ Owned(w) => Owned(u)
  BY <1>1, ChainApplyFields
<1>3. v = [u EXCEPT !.cache = AddChain(@, t)]
  BY <1>1
<1>4. v \in Stores
  BY StoresHold, AppliedHolds DEF Holding
<1> QED BY <1>2, <1>3, <1>4 DEF Joins, Stores, Owned

\* Transactions whose keys are new to a cache.
Fits(e, S) == KeysDisjoint(S) /\ KeysOf(S) \intersect DOMAIN e = {}

LEMMA FitsOneMore ==
  ASSUME NEW e \in Cache, NEW S \in SUBSET Tx, Fits(e, S), NEW t \in Tx,
         NEW f, f = AddSet(e, S), CanAddChain(f, t)
  PROVE  /\ Fits(e, S \union {t}) /\ t \notin S
         /\ AddChain(f, t) = AddSet(e, S \union {t})
<1>1. f \in Cache /\ DOMAIN f = DOMAIN e \union KeysOf(Free(e, S))
  BY AddSetFields
<1>2. Free(e, S) = S
  BY DEF Free, Fits, KeysOf
<1>3. Keys(t) \intersect (DOMAIN e \union KeysOf(S)) = {} /\ t \in Keys(t)
  BY <1>1, <1>2 DEF CanAddChain, Keys
<1>4. \A u \in S : Keys(u) \intersect Keys(t) = {} /\ Keys(t) \intersect Keys(u) = {}
  BY <1>3 DEF KeysOf
<1>5. t \notin S
  BY <1>3, <1>4
<1>6. KeysDisjoint(S \union {t})
  BY <1>4 DEF KeysDisjoint, Fits
<1>7. KeysOf(S \union {t}) \intersect DOMAIN e = {}
  BY <1>3 DEF KeysOf, Fits
<1>8. AddSet(f, {t}) = AddSet(e, S \union {t})
  <2>1. PICK U \in SUBSET Tx : U = {t}
    OBVIOUS
  <2> QED BY <1>6, <2>1, AddedTwice
<1>9. AddChain(f, t) = AddSet(f, {t})
  BY <1>1, AddChainAdds
<1> QED BY <1>5, <1>6, <1>7, <1>8, <1>9 DEF Fits

\* The elements of a sequence are different.
Distinct(q) == \A m, n \in DOMAIN q : m # n => q[m] # q[n]

LEMMA DistinctAppend ==
  ASSUME NEW A, NEW q \in Seq(A), NEW x \in A, Distinct(q), x \notin ToSet(q)
  PROVE  Distinct(Append(q, x))
<1>1. /\ DOMAIN Append(q, x) = 1..(Len(q) + 1) /\ DOMAIN q = 1..Len(q) /\ Len(q) \in Nat
      /\ \A n \in 1..Len(q) : Append(q, x)[n] = q[n]
      /\ Append(q, x)[Len(q) + 1] = x
  OBVIOUS
<1>2. \A n \in 1..Len(q) : q[n] # x
  BY DEF ToSet
<1>3. ASSUME NEW m \in 1..(Len(q) + 1), NEW n \in 1..(Len(q) + 1), m # n
      PROVE  Append(q, x)[m] # Append(q, x)[n]
  <2>1. CASE m = Len(q) + 1
    BY <1>1, <1>2, <1>3, <2>1
  <2>2. CASE n = Len(q) + 1
    BY <1>1, <1>2, <1>3, <2>2
  <2>3. CASE m \in 1..Len(q) /\ n \in 1..Len(q)
    BY <1>1, <1>3, <2>3 DEF Distinct
  <2> QED BY <1>1, <2>1, <2>2, <2>3
<1> QED BY <1>1, <1>3 DEF Distinct

\* What trying the first transactions has come to.
Tried(r, w, S) ==
  /\ r.w \in Stores
  /\ r.txs \in Seq(S) /\ r.failed \subseteq S
  /\ ToSet(r.txs) \union r.failed = S /\ ToSet(r.txs) \intersect r.failed = {}
  /\ Distinct(r.txs)
  /\ Fits(w.cache, ToSet(r.txs))
  /\ r.w.cache = AddSet(w.cache, ToSet(r.txs))
  /\ r.w.pool = w.pool
  /\ w.files \subseteq r.w.files
  /\ \A t \in ToSet(r.txs) : NewFiles(t) \subseteq r.w.files
  /\ Owned(w) => Owned(r.w)

\* A transaction enters the own block, or is left out.
EntersBlock(s, r, t) ==
  \/ s.txs = Append(r.txs, t) /\ Can(r.w, t) /\ Joins(s.w, r.w, t, Own)
  \/ s.txs = r.txs /\ s.w = r.w

LEMMA TriedOne ==
  ASSUME NEW w \in Stores, NEW S \in SUBSET Tx, NEW t \in Tx, t \notin S,
         NEW r \in [w : Stores, txs : Seq(Tx), failed : SUBSET Tx], Tried(r, w, S),
         NEW s, s = TryTransaction(r, t)
  PROVE  /\ s \in [w : Stores, txs : Seq(Tx), failed : SUBSET Tx]
         /\ Tried(s, w, S \union {t})
         /\ EntersBlock(s, r, t)
<1>1. w.cache \in Cache
  BY DEF Stores
<1>2. r.w \in Stores
  OBVIOUS
<1>3. CASE CanAddChain(r.w.cache, t) /\ Applies(r.w, t)
  <2>1. PICK v : v = [ChainApply(r.w, t, Own) EXCEPT !.cache = AddChain(@, t)]
    OBVIOUS
  <2>2. v \in Stores /\ Joins(v, r.w, t, Own)
    <3>1. PICK u \in Stores : u = r.w
      BY <1>2
    <3> QED BY <2>1, <3>1, JoinsFields, LedgerAssumption
  <2>3. s = [r EXCEPT !.w = v, !.txs = Append(@, t)]
    BY <1>3, <2>1 DEF TryTransaction
  <2>4. s.w = v /\ s.txs = Append(r.txs, t) /\ s.failed = r.failed
    BY <2>3
  <2>5. PICK q \in Seq(S) : q = r.txs
    BY DEF Tried
  <2>6. q \in Seq(S \union {t}) /\ q \in Seq(Tx)
    OBVIOUS
  <2>7. /\ Append(q, t) \in Seq(S \union {t}) /\ Append(q, t) \in Seq(Tx)
        /\ ToSet(Append(q, t)) = ToSet(q) \union {t}
    BY <2>6, AppendedSet
  <2>8. ToSet(q) \subseteq S
    BY DEF ToSet
  <2>9. Distinct(Append(q, t))
    <3>1. t \notin ToSet(q) /\ Distinct(q)
      BY <2>5, <2>8 DEF Tried
    <3> QED BY <2>6, <3>1, DistinctAppend
  <2>10. /\ Fits(w.cache, ToSet(q) \union {t})
         /\ v.cache = AddSet(w.cache, ToSet(q) \union {t})
    <3>1. PICK U \in SUBSET Tx : U = ToSet(q)
      BY <2>8
    <3>2. PICK f : f = r.w.cache /\ f = AddSet(w.cache, U) /\ CanAddChain(f, t) /\ Fits(w.cache, U)
      BY <1>3, <2>5, <3>1 DEF Tried
    <3>3. v.cache = AddChain(f, t)
      BY <2>2, <3>2 DEF Joins
    <3>4. Fits(w.cache, U \union {t}) /\ AddChain(f, t) = AddSet(w.cache, U \union {t})
      BY <1>1, <3>2, FitsOneMore
    <3> QED BY <3>1, <3>3, <3>4
  <2>11. s \in [w : Stores, txs : Seq(Tx), failed : SUBSET Tx]
    BY <2>2, <2>3, <2>5, <2>7
  <2>12. /\ w.files \subseteq v.files
         /\ \A u \in ToSet(q) \union {t} : NewFiles(u) \subseteq v.files
    <3>1. v.files = r.w.files \union NewFiles(t)
      BY <2>2 DEF Joins
    <3>2. w.files \subseteq r.w.files /\ \A u \in ToSet(q) : NewFiles(u) \subseteq r.w.files
      BY <2>5 DEF Tried
    <3> QED BY <3>1, <3>2
  <2>13. v.pool = w.pool /\ (Owned(w) => Owned(v))
    BY <2>2 DEF Joins, Tried
  <2>14. /\ ToSet(q) \union r.failed = S /\ ToSet(q) \intersect r.failed = {}
         /\ r.failed \subseteq S
    BY <2>5 DEF Tried
  <2>15. Tried(s, w, S \union {t})
    BY <2>2, <2>4, <2>5, <2>7, <2>9, <2>10, <2>12, <2>13, <2>14 DEF Tried
  <2>16. Can(r.w, t)
    BY <1>2, <1>3, AppliesIsCan
  <2> QED BY <2>2, <2>4, <2>11, <2>15, <2>16 DEF EntersBlock
<1>4. CASE ~ (CanAddChain(r.w.cache, t) /\ Applies(r.w, t))
  <2>1. s = [r EXCEPT !.failed = @ \union {t}]
    BY <1>4 DEF TryTransaction
  <2>2. s.w = r.w /\ s.txs = r.txs /\ s.failed = r.failed \union {t}
    BY <2>1
  <2>3. s \in [w : Stores, txs : Seq(Tx), failed : SUBSET Tx]
    BY <2>1
  <2>4. r.txs \in Seq(S \union {t}) /\ ToSet(r.txs) \subseteq S
    BY DEF Tried, ToSet
  <2>5. Tried(s, w, S \union {t})
    BY <2>2, <2>4 DEF Tried
  <2> QED BY <2>2, <2>3, <2>5 DEF EntersBlock
<1> QED BY <1>3, <1>4

\* The transactions of the own block are tried.
LEMMA TryingKeys ==
  ASSUME NEW w \in Stores, NEW q \in Seq(Tx), Distinct(q),
         NEW r, r = FoldLeft(TryTransaction, [w |-> w, txs |-> <<>>, failed |-> {}], q)
  PROVE  /\ r \in [w : Stores, txs : Seq(Tx), failed : SUBSET Tx]
         /\ Tried(r, w, ToSet(q))
         /\ Len(r.txs) <= Len(q)
<1> DEFINE Trials == [w : Stores, txs : Seq(Tx), failed : SUBSET Tx]
           Below(n) == {q[m] : m \in 1..n}
<1>1. PICK z : z = [w |-> w, txs |-> <<>>, failed |-> {}]
  OBVIOUS
<1>2. PICK f : LeftRun(f, "try", <<>>, z, q) /\ r = f[Len(q)]
  BY <1>1, TryRun
<1>3. PICK W : W = [n \in 0..Len(q) |-> {s \in Trials : Tried(s, w, Below(n)) /\ Len(s.txs) <= n}]
  OBVIOUS
<1>4. \A n \in 0..Len(q) : W[n] = {s \in Trials : Tried(s, w, Below(n)) /\ Len(s.txs) <= n}
  <2> HIDE DEF Below
  <2> QED BY <1>3
<1>5. f[0] \in W[0]
  <2>1. f[0] = z
    BY <1>2 DEF LeftRun
  <2>2. Below(0) = {}
    OBVIOUS
  <2>3. z \in Trials /\ Len(z.txs) <= 0 /\ z.txs = <<>> /\ z.failed = {} /\ z.w = w
    BY <1>1
  <2>4. ToSet(<<>>) = {} /\ <<>> \in Seq({}) /\ Distinct(<<>>)
    BY DEF ToSet, Distinct
  <2>5. AddSet(w.cache, {}) = w.cache
    BY AddSetFields DEF Stores
  <2>6. Fits(w.cache, {})
    BY DEF Fits, KeysDisjoint, KeysOf
  <2>7. Tried(z, w, {})
    BY <2>3, <2>4, <2>5, <2>6 DEF Tried
  <2>8. 0 \in 0..Len(q)
    OBVIOUS
  <2> HIDE DEF Below, Trials
  <2> QED BY <1>4, <2>1, <2>2, <2>3, <2>7, <2>8
<1>6. ASSUME NEW n \in 1..Len(q), f[n - 1] \in W[n - 1]
      PROVE  f[n] \in W[n]
  <2>1. n - 1 \in 0..Len(q) /\ n \in 0..Len(q)
    OBVIOUS
  <2>2. PICK t \in Tx : t = q[n]
    OBVIOUS
  <2>3. PICK S \in SUBSET Tx : S = Below(n - 1)
    <3>1. Below(n - 1) \in SUBSET Tx
      OBVIOUS
    <3> HIDE DEF Below
    <3> QED BY <3>1
  <2>4. Below(n) = S \union {t}
    BY <2>2, <2>3
  <2>5. t \notin S
    BY <2>2, <2>3 DEF Distinct
  <2>6. PICK s \in Trials : s = f[n - 1] /\ Tried(s, w, S) /\ Len(s.txs) <= n - 1
    <3> HIDE DEF Below, Trials
    <3> QED BY <1>4, <1>6, <2>1, <2>3
  <2>7. f[n] = TryTransaction(s, t)
    BY <1>2, <2>2, <2>6 DEF LeftRun, Do
  <2>8. PICK u : u = f[n]
    OBVIOUS
  <2>9. /\ u \in Trials /\ Tried(u, w, S \union {t})
        /\ u.txs = Append(s.txs, t) \/ u.txs = s.txs
    <3>1. u = TryTransaction(s, t)
      BY <2>7, <2>8
    <3>2. s \in [w : Stores, txs : Seq(Tx), failed : SUBSET Tx] /\ Tried(s, w, S)
      BY <2>6
    <3> HIDE DEF Below
    <3>3. u \in [w : Stores, txs : Seq(Tx), failed : SUBSET Tx]
      BY <2>5, <3>1, <3>2, TriedOne
    <3>4. Tried(u, w, S \union {t})
      BY <2>5, <3>1, <3>2, TriedOne
    <3>5. EntersBlock(u, s, t)
      BY <2>5, <3>1, <3>2, TriedOne
    <3> QED BY <3>3, <3>4, <3>5 DEF EntersBlock
  <2>10. Len(u.txs) <= n
    <3>1. s.txs \in Seq(Tx)
      BY <2>6
    <3>2. Len(s.txs) \in Nat /\ Len(Append(s.txs, t)) = Len(s.txs) + 1
      BY <3>1
    <3> QED BY <2>6, <2>9, <3>2
  <2> HIDE DEF Below, Trials
  <2> QED BY <1>4, <2>1, <2>4, <2>8, <2>9, <2>10
<1>7. f[Len(q)] \in W[Len(q)]
  <2>1. PICK N \in Nat : N = Len(q)
    OBVIOUS
  <2>2. \A n \in 1..N : f[n - 1] \in W[n - 1] => f[n] \in W[n]
    BY <1>6, <2>1
  <2>3. \A n \in 0..N : f[n] \in W[n]
    BY <1>5, <2>2, LeftReaches
  <2> QED BY <2>1, <2>3
<1>8. Below(Len(q)) = ToSet(q) /\ Len(q) \in 0..Len(q)
  BY DEF ToSet
<1> HIDE DEF Below
<1> QED BY <1>2, <1>4, <1>7, <1>8

\* Transactions that fit after others.
LEMMA FitsMore ==
  ASSUME NEW e \in Cache, NEW S \in SUBSET Tx, Fits(e, S), NEW U \in SUBSET Tx,
         NEW f, f = AddSet(e, S), Fits(f, U)
  PROVE  /\ Fits(e, S \union U) /\ S \intersect U = {}
         /\ AddSet(f, U) = AddSet(e, S \union U)
<1>1. DOMAIN f = DOMAIN e \union KeysOf(Free(e, S))
  BY AddSetFields
<1>2. Free(e, S) = S
  BY DEF Free, Fits, KeysOf
<1>3. KeysOf(U) \intersect (DOMAIN e \union KeysOf(S)) = {}
  BY <1>1, <1>2 DEF Fits
<1>4. \A t \in S, u \in U : Keys(t) \intersect Keys(u) = {} /\ Keys(u) \intersect Keys(t) = {}
  BY <1>3 DEF KeysOf
<1>5. S \intersect U = {}
  BY <1>4 DEF Keys
<1>6. KeysDisjoint(S \union U)
  BY <1>4 DEF KeysDisjoint, Fits
<1>7. KeysOf(S \union U) \intersect DOMAIN e = {}
  BY <1>3 DEF KeysOf, Fits
<1> QED BY <1>5, <1>6, <1>7, AddedTwice DEF Fits

\* What verifying the first transactions of a block has come to.
VerifiedTxs(s, r, S) ==
  s.ok => /\ r.ok
          /\ Fits(r.w.cache, S)
          /\ s.w.cache = AddSet(r.w.cache, S)
          /\ s.w.pool = r.w.pool
          /\ Owned(r.w) => Owned(s.w)

\* A transaction enters a received block, or something is wrong with it.
EntersReceived(u, s, t) ==
  /\ u.miner = s.miner
  /\ u.ok => s.ok /\ Can(s.w, t) /\ Joins(u.w, s.w, t, s.miner)

LEMMA VerifiedOne ==
  ASSUME NEW r \in Verdict, NEW S \in SUBSET Tx, NEW t \in Tx,
         NEW s \in Verdict, s.miner = r.miner, VerifiedTxs(s, r, S),
         NEW u, u = VerifyTransaction(s, t)
  PROVE  /\ u \in Verdict
         /\ VerifiedTxs(u, r, S \union {t})
         /\ EntersReceived(u, s, t)
         /\ u.ok => t \notin S
<1>1. s.w \in Stores /\ r.w \in Stores /\ s.miner \in Address
  BY DEF Verdict
<1>2. r.w.cache \in Cache
  BY <1>1 DEF Stores
<1>3. CASE s.ok /\ CanAddChain(s.w.cache, t) /\ Applies(s.w, t)
  <2>1. PICK x \in Stores, m \in Address : x = s.w /\ m = s.miner
    BY <1>1
  <2>2. PICK v : v = [ChainApply(x, t, m) EXCEPT !.cache = AddChain(@, t)]
    OBVIOUS
  <2>3. v \in Stores /\ Joins(v, x, t, m)
    BY <2>2, JoinsFields
  <2>4. u = [s EXCEPT !.w = v]
    BY <1>3, <2>1, <2>2 DEF VerifyTransaction
  <2>5. u \in Verdict /\ u.miner = r.miner /\ u.w = v /\ u.ok = s.ok
    BY <2>3, <2>4 DEF Verdict
  <2>6. PICK f : f = x.cache /\ f = AddSet(r.w.cache, S) /\ CanAddChain(f, t) /\ Fits(r.w.cache, S)
    BY <1>3, <2>1 DEF VerifiedTxs
  <2>7. /\ Fits(r.w.cache, S \union {t}) /\ t \notin S
        /\ AddChain(f, t) = AddSet(r.w.cache, S \union {t})
    BY <1>2, <2>6, FitsOneMore
  <2>8. v.cache = AddSet(r.w.cache, S \union {t})
    BY <2>3, <2>6, <2>7 DEF Joins
  <2>9. v.pool = r.w.pool /\ (Owned(r.w) => Owned(v))
    BY <1>3, <2>1, <2>3 DEF Joins, VerifiedTxs
  <2>10. VerifiedTxs(u, r, S \union {t})
    BY <1>3, <2>5, <2>7, <2>8, <2>9 DEF VerifiedTxs
  <2>11. Can(s.w, t)
    BY <1>1, <1>3, AppliesIsCan
  <2> QED BY <1>3, <2>1, <2>3, <2>5, <2>7, <2>10, <2>11 DEF EntersReceived
<1>4. CASE ~ (s.ok /\ CanAddChain(s.w.cache, t) /\ Applies(s.w, t))
  <2>1. u = [s EXCEPT !.ok = FALSE]
    BY <1>4 DEF VerifyTransaction
  <2>2. u \in Verdict /\ u.miner = r.miner /\ ~ u.ok
    BY <2>1 DEF Verdict
  <2> QED BY <2>2 DEF VerifiedTxs, EntersReceived
<1> QED BY <1>3, <1>4

\* The transactions of a received block are verified.
LEMMA VerifyingKeys ==
  ASSUME NEW r \in Verdict, NEW q \in Seq(Tx), NEW s, s = FoldLeft(VerifyTransaction, r, q)
  PROVE  /\ s \in Verdict /\ s.miner = r.miner
         /\ VerifiedTxs(s, r, ToSet(q))
         /\ s.ok => Distinct(q)
<1> DEFINE Below(n) == {q[m] : m \in 1..n}
           Other(n) == \A m, k \in 1..n : m # k => q[m] # q[k]
<1>1. PICK f : LeftRun(f, "verify", <<>>, r, q) /\ s = f[Len(q)]
  BY VerifyRun
<1>2. PICK W : W = [n \in 0..Len(q) |->
                     {u \in Verdict : /\ u.miner = r.miner /\ VerifiedTxs(u, r, Below(n))
                                      /\ u.ok => Other(n)}]
  OBVIOUS
<1>3. \A n \in 0..Len(q) : W[n] =
                     {u \in Verdict : /\ u.miner = r.miner /\ VerifiedTxs(u, r, Below(n))
                                      /\ u.ok => Other(n)}
  <2> HIDE DEF Below, Other
  <2> QED BY <1>2
<1>4. f[0] \in W[0]
  <2>1. f[0] = r
    BY <1>1 DEF LeftRun
  <2>2. Below(0) = {} /\ Other(0)
    OBVIOUS
  <2>3. AddSet(r.w.cache, {}) = r.w.cache
    BY AddSetFields DEF Stores, Verdict
  <2>4. Fits(r.w.cache, {})
    BY DEF Fits, KeysDisjoint, KeysOf
  <2>5. VerifiedTxs(r, r, {})
    BY <2>3, <2>4 DEF VerifiedTxs
  <2>6. 0 \in 0..Len(q)
    OBVIOUS
  <2> HIDE DEF Below, Other
  <2> QED BY <1>3, <2>1, <2>2, <2>5, <2>6
<1>5. ASSUME NEW n \in 1..Len(q), f[n - 1] \in W[n - 1]
      PROVE  f[n] \in W[n]
  <2>1. n - 1 \in 0..Len(q) /\ n \in 0..Len(q)
    OBVIOUS
  <2>2. PICK t \in Tx : t = q[n]
    OBVIOUS
  <2>3. PICK S \in SUBSET Tx : S = Below(n - 1)
    <3>1. Below(n - 1) \in SUBSET Tx
      OBVIOUS
    <3> HIDE DEF Below
    <3> QED BY <3>1
  <2>4. Below(n) = S \union {t}
    BY <2>2, <2>3
  <2>5. PICK u \in Verdict : /\ u = f[n - 1] /\ u.miner = r.miner /\ VerifiedTxs(u, r, S)
                             /\ u.ok => Other(n - 1)
    <3> HIDE DEF Below, Other
    <3> QED BY <1>3, <1>5, <2>1, <2>3
  <2>6. f[n] = VerifyTransaction(u, t)
    BY <1>1, <2>2, <2>5 DEF LeftRun, Do
  <2>7. PICK v : v = f[n]
    OBVIOUS
  <2>8. /\ v \in Verdict /\ v.miner = r.miner /\ VerifiedTxs(v, r, S \union {t})
        /\ v.ok => u.ok /\ t \notin S
    <3>1. v = VerifyTransaction(u, t)
      BY <2>6, <2>7
    <3>2. u.miner = r.miner /\ VerifiedTxs(u, r, S)
      BY <2>5
    <3> HIDE DEF Below, Other
    <3>3. v \in Verdict
      BY <3>1, <3>2, VerifiedOne
    <3>4. EntersReceived(v, u, t)
      BY <3>1, <3>2, VerifiedOne
    <3>5. VerifiedTxs(v, r, S \union {t})
      BY <3>1, <3>2, VerifiedOne
    <3>6. v.ok => t \notin S
      BY <3>1, <3>2, VerifiedOne
    <3> QED BY <3>2, <3>3, <3>4, <3>5, <3>6 DEF EntersReceived
  <2>9. v.ok => Other(n)
    <3>1. SUFFICES ASSUME Other(n - 1), t \notin S
                   PROVE  Other(n)
      BY <2>5, <2>8
    <3>2. \A m \in 1..(n - 1) : q[m] # t
      BY <2>3, <3>1
    <3> QED BY <2>2, <3>1, <3>2
  <2> HIDE DEF Below, Other
  <2> QED BY <1>3, <2>1, <2>4, <2>7, <2>8, <2>9
<1>6. f[Len(q)] \in W[Len(q)]
  <2>1. PICK N \in Nat : N = Len(q)
    OBVIOUS
  <2>2. \A n \in 1..N : f[n - 1] \in W[n - 1] => f[n] \in W[n]
    BY <1>5, <2>1
  <2>3. \A n \in 0..N : f[n] \in W[n]
    BY <1>4, <2>2, LeftReaches
  <2> QED BY <2>1, <2>3
<1>7. Below(Len(q)) = ToSet(q) /\ Len(q) \in 0..Len(q) /\ (Other(Len(q)) <=> Distinct(q))
  BY DEF ToSet, Distinct
<1> HIDE DEF Below, Other
<1> QED BY <1>1, <1>3, <1>6, <1>7

\* The reward of a block and its entry in the log.
LEMMA CloseBlockFields ==
  ASSUME NEW w \in Stores, NEW block \in Block, NEW v, v = CloseBlock(w, block)
  PROVE  /\ v \in Stores
         /\ v.balance = [c \in Address |-> w.balance[c] + (IF c = block.miner THEN Emission ELSE 0)]
         /\ v.log = Append(w.log, <<"block", block>>)
         /\ v.files = w.files /\ v.pool = w.pool /\ v.cache = w.cache
         /\ Owned(w) => Owned(v)
<1>1. PICK miner \in Address, x \in Int : miner = block.miner /\ x = Emission
  BY LedgerAssumption DEF Block
<1>2. PICK u : u = Pay(w, miner, x, "chain")
  OBVIOUS
<1>3. /\ u \in Stores
      /\ u.balance = [c \in Address |-> w.balance[c] + (IF c = miner THEN x ELSE 0)]
      /\ SamePapers(u, w) /\ OwnFollows(u, w, "chain")
  BY <1>2, PayFields
<1>4. v = [u EXCEPT !.log = Append(@, <<"block", block>>)]
  BY <1>1, <1>2 DEF CloseBlock
<1>5. v \in Stores
  BY StoresHold, CloseBlockHolds DEF Holding
<1>6. /\ v.balance = u.balance /\ v.own = u.own /\ v.files = u.files
      /\ v.pool = u.pool /\ v.cache = u.cache /\ v.log = Append(u.log, <<"block", block>>)
  BY <1>3, <1>4 DEF Stores
<1>7. Owned(w) => Owned(v)
  BY <1>3, <1>6 DEF OwnFollows, Owned
<1> QED BY <1>1, <1>3, <1>5, <1>6, <1>7 DEF SamePapers

\* What a block that is put on, and nothing wrong found with, has come to.
VerifiedBlock(s, r, block) ==
  s.ok => /\ r.ok
          /\ Fits(r.w.cache, ToSet(block.txs)) /\ Distinct(block.txs)
          /\ s.w.cache = AddSet(r.w.cache, ToSet(block.txs))
          /\ s.w.pool = r.w.pool
          /\ Owned(r.w) => Owned(s.w)

LEMMA VerifyBlockKeys ==
  ASSUME NEW r \in Verdict, NEW block \in Block, NEW s, s = VerifyBlock(r, block)
  PROVE  s \in Verdict /\ VerifiedBlock(s, r, block)
<1>1. r.w \in Stores
  BY DEF Verdict
<1>2. CASE ~ r.ok \/ r.w.balance[block.miner] < Threshold
  <2>1. s = [r EXCEPT !.ok = FALSE]
    BY <1>2 DEF VerifyBlock
  <2> QED BY <2>1 DEF Verdict, VerifiedBlock
<1>3. CASE ~ (~ r.ok \/ r.w.balance[block.miner] < Threshold)
  <2>1. PICK m \in Address, q \in Seq(Tx) : m = block.miner /\ q = block.txs
    BY DEF Block
  <2>2. PICK z : z = [r EXCEPT !.miner = m]
    OBVIOUS
  <2>3. z \in Verdict /\ z.w = r.w /\ z.ok = r.ok
    BY <2>2 DEF Verdict
  <2>4. PICK v : v = FoldLeft(VerifyTransaction, z, q)
    OBVIOUS
  <2>5. v \in Verdict /\ VerifiedTxs(v, z, ToSet(q)) /\ (v.ok => Distinct(q))
    BY <2>3, <2>4, VerifyingKeys
  <2>6. s = [v EXCEPT !.w = CloseBlock(@, block)]
    BY <1>3, <2>1, <2>2, <2>4 DEF VerifyBlock
  <2>7. PICK x \in Stores : x = v.w
    BY <2>5 DEF Verdict
  <2>8. PICK y : y = CloseBlock(x, block)
    OBVIOUS
  <2>9. y \in Stores /\ y.pool = x.pool /\ y.cache = x.cache /\ (Owned(x) => Owned(y))
    BY <2>8, CloseBlockFields, ZenonT(30)
  <2>10. s \in Verdict /\ s.w = y /\ s.ok = v.ok
    BY <2>5, <2>6, <2>7, <2>8, <2>9 DEF Verdict
  <2> QED BY <2>1, <2>3, <2>5, <2>7, <2>9, <2>10 DEF VerifiedTxs, VerifiedBlock
<1> QED BY <1>2, <1>3

\* The first blocks of a sequence that is put on.
TxsOf(q, n) == UNION {ToSet(q[i].txs) : i \in 1..n}
VerifiedBlocks(s, r, q, n) ==
  s.ok => /\ r.ok
          /\ Fits(r.w.cache, TxsOf(q, n))
          /\ s.w.cache = AddSet(r.w.cache, TxsOf(q, n))
          /\ s.w.pool = r.w.pool
          /\ Owned(r.w) => Owned(s.w)
          /\ \A i \in 1..n : Distinct(q[i].txs)
          /\ \A i, j \in 1..n : i # j => ToSet(q[i].txs) \intersect ToSet(q[j].txs) = {}

LEMMA VerifyingBlocksKeys ==
  ASSUME NEW r \in Verdict, NEW q \in Seq(Block), NEW s, s = FoldLeft(VerifyBlock, r, q)
  PROVE  s \in Verdict /\ VerifiedBlocks(s, r, q, Len(q))
<1>1. PICK f : LeftRun(f, "block", <<>>, r, q) /\ s = f[Len(q)]
  BY BlockRun
<1>2. PICK W : W = [n \in 0..Len(q) |-> {u \in Verdict : VerifiedBlocks(u, r, q, n)}]
  OBVIOUS
<1>3. r.w.cache \in Cache
  BY DEF Verdict, Stores
<1>4. f[0] \in W[0]
  <2>1. f[0] = r
    BY <1>1 DEF LeftRun
  <2>2. TxsOf(q, 0) = {}
    BY DEF TxsOf
  <2>3. AddSet(r.w.cache, {}) = r.w.cache
    BY <1>3, AddSetFields
  <2>4. Fits(r.w.cache, {})
    BY DEF Fits, KeysDisjoint, KeysOf
  <2>5. VerifiedBlocks(r, r, q, 0)
    <3>1. \A i \in 1..0 : FALSE
      OBVIOUS
    <3> QED BY <2>2, <2>3, <2>4, <3>1 DEF VerifiedBlocks
  <2>6. 0 \in 0..Len(q)
    OBVIOUS
  <2> QED BY <1>2, <2>1, <2>5, <2>6
<1>5. ASSUME NEW n \in 1..Len(q), f[n - 1] \in W[n - 1]
      PROVE  f[n] \in W[n]
  <2>1. n - 1 \in 0..Len(q) /\ n \in 0..Len(q)
    OBVIOUS
  <2>2. PICK block \in Block : block = q[n]
    OBVIOUS
  <2>3. PICK u \in Verdict : u = f[n - 1] /\ VerifiedBlocks(u, r, q, n - 1)
    BY <1>2, <1>5, <2>1
  <2>4. PICK v : v = f[n]
    OBVIOUS
  <2>5. v = VerifyBlock(u, block)
    BY <1>1, <2>2, <2>3, <2>4 DEF LeftRun, Do
  <2>6. v \in Verdict /\ VerifiedBlock(v, u, block)
    BY <2>5, VerifyBlockKeys
  <2>7. ASSUME v.ok
        PROVE  VerifiedBlocks(v, r, q, n)
    <3>1. \A i \in 1..Len(q) : ToSet(q[i].txs) \in SUBSET Tx
      <4> SUFFICES ASSUME NEW i \in 1..Len(q)
                   PROVE  ToSet(q[i].txs) \in SUBSET Tx
        OBVIOUS
      <4>1. PICK b \in Block : b = q[i]
        OBVIOUS
      <4>2. PICK p \in Seq(Tx) : p = b.txs
        BY DEF Block
      <4> QED BY <4>1, <4>2 DEF ToSet
    <3>2. PICK S \in SUBSET Tx : S = TxsOf(q, n - 1)
      <4>1. TxsOf(q, n - 1) \in SUBSET Tx
        BY <3>1 DEF TxsOf
      <4> QED BY <4>1
    <3>3. PICK U \in SUBSET Tx : U = ToSet(block.txs)
      BY <2>2, <3>1
    <3>4. TxsOf(q, n) = S \union U
      <4>1. 1..n = (1..(n - 1)) \union {n}
        OBVIOUS
      <4> QED BY <2>2, <3>2, <3>3, <4>1 DEF TxsOf
    <3>5. /\ u.ok /\ Fits(u.w.cache, U) /\ Distinct(block.txs)
          /\ v.w.cache = AddSet(u.w.cache, U) /\ v.w.pool = u.w.pool
          /\ Owned(u.w) => Owned(v.w)
      BY <2>6, <2>7, <3>3 DEF VerifiedBlock
    <3>6. /\ r.ok /\ Fits(r.w.cache, S) /\ u.w.cache = AddSet(r.w.cache, S)
          /\ u.w.pool = r.w.pool
          /\ Owned(r.w) => Owned(u.w)
          /\ \A i \in 1..(n - 1) : Distinct(q[i].txs)
          /\ \A i, j \in 1..(n - 1) : i # j => ToSet(q[i].txs) \intersect ToSet(q[j].txs) = {}
      BY <2>3, <3>2, <3>5 DEF VerifiedBlocks
    <3>7. PICK f1 : f1 = u.w.cache
      OBVIOUS
    <3>8. /\ Fits(r.w.cache, S \union U) /\ S \intersect U = {}
          /\ AddSet(f1, U) = AddSet(r.w.cache, S \union U)
      BY <1>3, <3>5, <3>6, <3>7, FitsMore
    <3>9. \A i \in 1..n : i = n \/ i \in 1..(n - 1)
      OBVIOUS
    <3>10. \A i \in 1..n : Distinct(q[i].txs)
      BY <2>2, <3>5, <3>6, <3>9
    <3>11. \A i \in 1..(n - 1) : ToSet(q[i].txs) \subseteq S
      BY <3>2 DEF TxsOf
    <3>12. \A i, j \in 1..n : i # j => ToSet(q[i].txs) \intersect ToSet(q[j].txs) = {}
      BY <2>2, <3>3, <3>6, <3>8, <3>9, <3>11
    <3> QED BY <3>4, <3>5, <3>6, <3>7, <3>8, <3>10, <3>12 DEF VerifiedBlocks
  <2>8. ASSUME ~ v.ok
        PROVE  VerifiedBlocks(v, r, q, n)
    BY <2>8 DEF VerifiedBlocks
  <2>9. VerifiedBlocks(v, r, q, n)
    BY <2>7, <2>8, Zenon
  <2>10. W[n] = {z \in Verdict : VerifiedBlocks(z, r, q, n)}
    BY <1>2, <2>1
  <2>11. v \in W[n]
    BY <2>6, <2>9, <2>10, Zenon
  <2> QED BY <2>4, <2>11
<1>6. f[Len(q)] \in W[Len(q)]
  <2>1. PICK N \in Nat : N = Len(q)
    OBVIOUS
  <2>2. \A n \in 1..N : f[n - 1] \in W[n - 1] => f[n] \in W[n]
    BY <1>5, <2>1
  <2>3. \A n \in 0..N : f[n] \in W[n]
    BY <1>4, <2>2, LeftReaches
  <2> QED BY <2>1, <2>3
<1>7. Len(q) \in 0..Len(q)
  OBVIOUS
<1> QED BY <1>1, <1>2, <1>6, <1>7

-----------------------------------------------------------------------------
(* The stores as the sets of TransactionFlow                                *)

SetsOf(c) == [i \in DOMAIN c |-> ToSet(c[i].txs)]
Sets == SetsOf(chain)
Pooled == ToSet(stores.pool)
Cached == DOMAIN stores.cache
TF == INSTANCE TransactionFlowProofs WITH chain <- Sets, pool <- Pooled, cache <- Cached

LEMMA SetsFields ==
  ASSUME NEW c \in Seq(Block)
  PROVE  /\ SetsOf(c) \in Seq(SUBSET Tx)
         /\ Len(SetsOf(c)) = Len(c) /\ DOMAIN SetsOf(c) = DOMAIN c
         /\ \A i \in DOMAIN c : SetsOf(c)[i] = ToSet(c[i].txs) /\ c[i].txs \in Seq(Tx)
<1>1. PICK n \in Nat : n = Len(c) /\ DOMAIN c = 1..n
  OBVIOUS
<1>2. \A i \in 1..n : c[i].txs \in Seq(Tx)
  <2> SUFFICES ASSUME NEW i \in 1..n
               PROVE  c[i].txs \in Seq(Tx)
    OBVIOUS
  <2>1. PICK b \in Block : b = c[i]
    BY <1>1
  <2> QED BY <2>1 DEF Block
<1>3. \A i \in 1..n : ToSet(c[i].txs) \in SUBSET Tx
  <2> SUFFICES ASSUME NEW i \in 1..n
               PROVE  ToSet(c[i].txs) \in SUBSET Tx
    OBVIOUS
  <2>1. PICK q \in Seq(Tx) : q = c[i].txs
    BY <1>2
  <2> QED BY <2>1 DEF ToSet
<1>4. SetsOf(c) = [i \in 1..n |-> ToSet(c[i].txs)]
  BY <1>1 DEF SetsOf
<1>5. SetsOf(c) \in [1..n -> SUBSET Tx]
  BY <1>3, <1>4
<1>6. SetsOf(c) \in Seq(SUBSET Tx)
  BY <1>5
<1>7. Len(SetsOf(c)) = n
  BY <1>5
<1> QED BY <1>1, <1>2, <1>4, <1>6, <1>7

LEMMA SetsTogether ==
  ASSUME NEW c \in Seq(Block), NEW d \in Seq(Block), NEW b \in Block, NEW n \in 0..Len(c)
  PROVE  /\ SetsOf(c \o d) = SetsOf(c) \o SetsOf(d)
         /\ SetsOf(Append(c, b)) = Append(SetsOf(c), ToSet(b.txs))
         /\ SetsOf(SubSeq(c, 1, n)) = SubSeq(SetsOf(c), 1, n)
<1>1. PICK k \in Nat, l \in Nat : k = Len(c) /\ l = Len(d)
  OBVIOUS
<1>2. PICK C \in Seq(SUBSET Tx), D \in Seq(SUBSET Tx) : C = SetsOf(c) /\ D = SetsOf(d)
  BY SetsFields
<1>3. /\ Len(C) = k /\ Len(D) = l
      /\ \A i \in 1..k : C[i] = ToSet(c[i].txs)
      /\ \A i \in 1..l : D[i] = ToSet(d[i].txs)
  BY <1>1, <1>2, SetsFields
<1>4. SetsOf(c \o d) = C \o D
  <2>1. PICK e \in Seq(Block) : e = c \o d
    BY ConcatProperties
  <2>2. /\ Len(e) = k + l /\ \A i \in 1..k : e[i] = c[i]
        /\ \A i \in (k + 1)..(k + l) : e[i] = d[i - k]
    BY <1>1, <2>1
  <2>3. PICK E \in Seq(SUBSET Tx) : E = SetsOf(e)
    BY SetsFields
  <2>4. Len(E) = k + l /\ \A i \in 1..(k + l) : E[i] = ToSet(e[i].txs)
    BY <2>2, <2>3, SetsFields
  <2>5. PICK F \in Seq(SUBSET Tx) : F = C \o D
    BY ConcatProperties
  <2>6. /\ Len(F) = k + l /\ \A i \in 1..k : F[i] = C[i]
        /\ \A i \in (k + 1)..(k + l) : F[i] = D[i - k]
    <3>1. /\ Len(C \o D) = Len(C) + Len(D)
          /\ \A i \in 1..(Len(C) + Len(D)) :
               (C \o D)[i] = IF i <= Len(C) THEN C[i] ELSE D[i - Len(C)]
      BY ConcatProperties
    <3>2. Len(F) = k + l /\ \A i \in 1..(k + l) : F[i] = IF i <= k THEN C[i] ELSE D[i - k]
      BY <1>3, <2>5, <3>1
    <3> QED BY <3>2, SMTT(30)
  <2>7. ASSUME NEW i \in 1..(k + l)
        PROVE  E[i] = F[i]
    <3>1. CASE i \in 1..k
      <4>1. e[i] = c[i] /\ E[i] = ToSet(e[i].txs)
        BY <2>2, <2>4, <3>1
      <4>2. F[i] = C[i] /\ C[i] = ToSet(c[i].txs)
        BY <1>3, <2>6, <3>1
      <4> QED BY <4>1, <4>2
    <3>2. CASE i \in (k + 1)..(k + l)
      <4>1. e[i] = d[i - k] /\ E[i] = ToSet(e[i].txs)
        BY <2>2, <2>4, <3>2
      <4>2. i - k \in 1..l
        BY <3>2
      <4>3. F[i] = D[i - k] /\ D[i - k] = ToSet(d[i - k].txs)
        BY <1>3, <2>6, <3>2, <4>2
      <4> QED BY <4>1, <4>3
    <3> QED BY <3>1, <3>2
  <2>8. E = F
    BY <2>4, <2>6, <2>7, SeqEqual
  <2> QED BY <2>1, <2>3, <2>5, <2>8
<1>5. SetsOf(Append(c, b)) = Append(C, ToSet(b.txs))
  <2>1. PICK e \in Seq(Block) : e = Append(c, b)
    <3>1. Append(c, b) \in Seq(Block)
      OBVIOUS
    <3> QED BY <3>1
  <2>2. Len(e) = k + 1 /\ e[k + 1] = b /\ \A i \in 1..k : e[i] = c[i]
    BY <1>1, <2>1
  <2>3. PICK E \in Seq(SUBSET Tx) : E = SetsOf(e)
    BY SetsFields
  <2>4. Len(E) = k + 1 /\ \A i \in 1..(k + 1) : E[i] = ToSet(e[i].txs)
    BY <2>2, <2>3, SetsFields
  <2>5. PICK x \in SUBSET Tx : x = ToSet(b.txs)
    <3>1. PICK q \in Seq(Tx) : q = b.txs
      BY DEF Block
    <3>2. ToSet(q) \in SUBSET Tx
      BY DEF ToSet
    <3> QED BY <3>1, <3>2
  <2>6. PICK F \in Seq(SUBSET Tx) : F = Append(C, x)
    <3>1. Append(C, x) \in Seq(SUBSET Tx)
      OBVIOUS
    <3> QED BY <3>1
  <2>7. Len(F) = k + 1 /\ F[k + 1] = x /\ \A i \in 1..k : F[i] = C[i]
    BY <1>3, <2>6
  <2>8. ASSUME NEW i \in 1..(k + 1)
        PROVE  E[i] = F[i]
    <3>1. CASE i \in 1..k
      BY <1>3, <2>2, <2>4, <2>7, <3>1
    <3>2. CASE i = k + 1
      BY <2>2, <2>4, <2>5, <2>7, <3>2
    <3> QED BY <3>1, <3>2
  <2>9. E = F
    BY <2>4, <2>7, <2>8, SeqEqual
  <2> QED BY <2>1, <2>3, <2>5, <2>6, <2>9
<1>6. SetsOf(SubSeq(c, 1, n)) = SubSeq(C, 1, n)
  <2>1. n \in Nat /\ n <= k
    BY <1>1
  <2>2. PICK e \in Seq(Block) : e = SubSeq(c, 1, n)
    <3>1. SubSeq(c, 1, n) \in Seq(Block)
      BY <1>1, <2>1, SubSeqProperties
    <3> QED BY <3>1
  <2>3. Len(e) = n /\ \A i \in 1..n : e[i] = c[i]
    BY <1>1, <2>1, <2>2
  <2>4. PICK E \in Seq(SUBSET Tx) : E = SetsOf(e)
    BY SetsFields
  <2>5. Len(E) = n /\ \A i \in 1..n : E[i] = ToSet(e[i].txs)
    BY <2>3, <2>4, SetsFields
  <2>6. PICK F \in Seq(SUBSET Tx) : F = SubSeq(C, 1, n)
    <3>1. SubSeq(C, 1, n) \in Seq(SUBSET Tx)
      BY <1>3, <2>1, SubSeqProperties
    <3> QED BY <3>1
  <2>7. Len(F) = n /\ \A i \in 1..n : F[i] = C[i]
    BY <1>3, <2>1, <2>6
  <2>8. ASSUME NEW i \in 1..n
        PROVE  E[i] = F[i]
    <3>1. i \in 1..k
      BY <2>1
    <3>2. e[i] = c[i] /\ E[i] = ToSet(e[i].txs)
      BY <2>3, <2>5
    <3>3. F[i] = C[i] /\ C[i] = ToSet(c[i].txs)
      BY <1>3, <2>7, <3>1
    <3> QED BY <3>2, <3>3
  <2>9. E = F
    BY <2>5, <2>7, <2>8, SeqEqual
  <2> QED BY <2>2, <2>4, <2>6, <2>9
<1> QED BY <1>2, <1>4, <1>5, <1>6

\* The words of TransactionFlow mean the same here.
LEMMA SameWords ==
  /\ \A n : TF!TimeOf(n) = TimeOf(n)
  /\ TF!Lifetime = Lifetime
  /\ \A t : TF!Keys(t) = Keys(t)
  /\ \A S : /\ TF!KeysOf(S) = KeysOf(S)
            /\ TF!KeysDisjoint(S) <=> KeysDisjoint(S)
            /\ TF!Merged(S) = Merged(S)
  /\ \A t, time, shift : TF!ValidAt(t, time, shift) <=> ValidAt(t, time, shift)
<1>1. \A n : TF!TimeOf(n) = TimeOf(n)
  BY DEF TF!TimeOf, TimeOf
<1>2. TF!Lifetime = Lifetime
  BY DEF TF!Lifetime, Lifetime
<1>3. \A t : TF!Keys(t) = Keys(t)
  BY DEF TF!Keys, Keys
<1>4. \A S : TF!KeysOf(S) = KeysOf(S)
  BY <1>3 DEF TF!KeysOf, KeysOf
<1>5. \A S : TF!KeysDisjoint(S) <=> KeysDisjoint(S)
  BY <1>3 DEF TF!KeysDisjoint, KeysDisjoint
<1>6. \A S : TF!Merged(S) = Merged(S)
  BY DEF TF!Merged, Merged
<1>7. \A t, time, shift : TF!ValidAt(t, time, shift) <=> ValidAt(t, time, shift)
  BY <1>2 DEF TF!ValidAt, ValidAt
<1> QED BY <1>1, <1>2, <1>3, <1>4, <1>5, <1>6, <1>7

\* What TransactionFlow leaves open of a block.
Sorted(q) == \A m, n \in DOMAIN q : m < n => Creation[q[m]] <= Creation[q[n]]
BlockShape(block) ==
  /\ block.txs \in Seq(Complete)
  /\ Distinct(block.txs) /\ Sorted(block.txs)
  /\ Len(block.txs) <= BlockMax
ChainShape == chain[1] = GenesisBlock /\ \A i \in DOMAIN chain : BlockShape(chain[i])

\* The stores are shaped well, and their sets obey TransactionFlow.
FlowInv == CoinsInv /\ ChainShape /\ TF!UsedOnceInv

LEMMA FlowFacts ==
  ASSUME FlowInv
  PROVE  /\ chain \in Seq(Block) /\ Len(chain) \in Nat \ {0}
         /\ stores \in Stores /\ stores.pool \in Seq(Tx) /\ stores.cache \in Cache
         /\ Pooled \in SUBSET Tx
         /\ UsedOnce
         /\ TF!HeadNumber = HeadNumber /\ TF!HeadTime = HeadTime
         /\ HeadNumber \in Nat /\ Len(chain) = HeadNumber + 1
         /\ Sets \in Seq(SUBSET Tx) /\ Len(Sets) = Len(chain) /\ DOMAIN Sets = DOMAIN chain
         /\ \A i \in DOMAIN chain : Sets[i] = Txs(i)
<1>1. chain \in Seq(Block) /\ Len(chain) \in Nat \ {0}
  BY DEF FlowInv, CoinsInv
<1>2. stores \in Stores
  BY DEF FlowInv, CoinsInv, Holding
<1>3. stores.pool \in Seq(Tx) /\ stores.cache \in Cache
  BY <1>2 DEF Stores
<1>4. Pooled \in SUBSET Tx
  BY <1>3 DEF Pooled, ToSet
<1>5. /\ Sets \in Seq(SUBSET Tx) /\ Len(Sets) = Len(chain) /\ DOMAIN Sets = DOMAIN chain
      /\ \A i \in DOMAIN chain : Sets[i] = Txs(i)
  BY <1>1, SetsFields DEF Sets, Txs
<1>6. UsedOnce
  <2>1. TF!NoDoubleUse
    BY DEF FlowInv, TF!UsedOnceInv
  <2>2. \A i, j \in DOMAIN Sets : \A t \in Sets[i], u \in Sets[j] :
          (i # j \/ t # u) => TF!Keys(t) \intersect TF!Keys(u) = {}
    BY <2>1 DEF TF!NoDoubleUse
  <2> QED BY <1>5, <2>2, SameWords DEF UsedOnce
<1>7. TF!HeadNumber = HeadNumber
  BY <1>5 DEF TF!HeadNumber, HeadNumber
<1>8. TF!HeadTime = HeadTime
  BY <1>7, SameWords DEF TF!HeadTime, HeadTime
<1>9. HeadNumber \in Nat /\ Len(chain) = HeadNumber + 1
  BY <1>1 DEF HeadNumber
<1> QED BY <1>1, <1>2, <1>3, <1>4, <1>5, <1>6, <1>7, <1>8, <1>9

-----------------------------------------------------------------------------
(* Every handler is one of TransactionFlow                                  *)

LEMMA ReceiveFlows ==
  ASSUME FlowInv, NEW t \in Tx, Receive(t)
  PROVE  TF!Receive(t) /\ ChainShape'
<1>1. PICK w \in Stores : w = stores
  BY FlowFacts
<1>2. PICK v : v = PutBack(w, t)
  OBVIOUS
<1>3. stores' = v /\ chain' = chain /\ now' = now /\ cleaned' = cleaned /\ t \notin Cached
  BY <1>1, <1>2 DEF Receive, Cached
<1>4. /\ t \in Complete => Applies(w, t)
      /\ t \notin Complete => CanApply(w, t)
  BY <1>1 DEF Receive
<1>5. Waits(v, w, t)
  BY <1>2, <1>4, PutBackFields
<1>6. DOMAIN v.cache = DOMAIN w.cache \union {t}
  <2>1. PICK c : c = (t \in Complete)
    OBVIOUS
  <2>2. v.cache = AddPool(w.cache, t, c)
    BY <1>5, <2>1 DEF Waits
  <2> QED BY <2>2 DEF AddPool
<1>7. ToSet(v.pool) = ToSet(w.pool) \union {t}
  BY <1>5, AppendedSet DEF Waits, Stores
<1>8. Cached' = Cached \union {t} /\ Pooled' = Pooled \union {t} /\ Sets' = Sets
  BY <1>1, <1>3, <1>6, <1>7 DEF Cached, Pooled, Sets
<1>9. ValidAt(t, now, NodesTimeShift) /\ HeadTime >= now - RecentBlocks * BlockMineDelay
  BY DEF Receive
<1>10. TF!Receive(t)
  BY <1>3, <1>8, <1>9, FlowFacts, SameWords DEF TF!Receive
<1>11. ChainShape'
  BY <1>3 DEF FlowInv, ChainShape
<1> QED BY <1>10, <1>11

LEMMA CleanCacheFlows ==
  ASSUME FlowInv, CleanCache
  PROVE  TF!CleanCache /\ ChainShape'
<1>1. PICK w \in Stores : w = stores
  BY FlowFacts
<1> DEFINE K == {k \in DOMAIN w.cache : HeadTime - Creation[k] > Lifetime + NodesTimeShift}
<1>2. stores' = [w EXCEPT !.cache = EraseKeys(@, K)]
  BY <1>1 DEF CleanCache
<1>3. /\ cleaned' = IF cleaned < HeadNumber THEN HeadNumber ELSE cleaned
      /\ chain' = chain /\ now' = now
  BY DEF CleanCache
<1>4. Sets' = Sets
  BY <1>3 DEF Sets
<1>5. Pooled' = Pooled /\ Cached' = Cached \ K
  <2> HIDE DEF K
  <2>1. stores'.pool = w.pool /\ stores'.cache = EraseKeys(w.cache, K)
    BY <1>2 DEF Stores
  <2> QED BY <1>1, <2>1 DEF Pooled, Cached, EraseKeys
<1>6. Cached' = {t \in Cached : TF!HeadTime - Creation[t] <= TF!Lifetime + NodesTimeShift}
  <2>1. HeadTime \in Int /\ Lifetime \in Int
    BY FlowFacts, LedgerAssumption DEF HeadTime, TimeOf, Lifetime
  <2>2. Cached \in SUBSET Tx
    BY FlowFacts DEF Cached, Cache
  <2>3. \A t \in Cached : Creation[t] \in Int
    BY <2>2, LedgerAssumption
  <2>4. NodesTimeShift \in Int
    BY LedgerAssumption
  <2>5. TF!HeadTime = HeadTime /\ TF!Lifetime = Lifetime
    BY FlowFacts, SameWords
  <2>6. K = {k \in Cached : HeadTime - Creation[k] > Lifetime + NodesTimeShift}
    BY <1>1 DEF Cached
  <2>7. \A t \in Cached : t \notin K <=> HeadTime - Creation[t] <= Lifetime + NodesTimeShift
    <3> HIDE DEF K
    <3> QED BY <2>1, <2>3, <2>4, <2>6
  <2> HIDE DEF K
  <2> QED BY <1>5, <2>5, <2>7
<1>7. TF!CleanCache
  BY <1>3, <1>4, <1>5, <1>6, FlowFacts DEF TF!CleanCache
<1>8. ChainShape'
  BY <1>3 DEF FlowInv, ChainShape
<1> QED BY <1>7, <1>8

LEMMA TickFlows ==
  ASSUME FlowInv, Tick \/ UNCHANGED vars
  PROVE  (TF!Tick \/ UNCHANGED TF!vars) /\ ChainShape'
<1>1. chain' = chain /\ stores' = stores /\ cleaned' = cleaned
  BY DEF Tick, vars
<1>2. Sets' = Sets /\ Pooled' = Pooled /\ Cached' = Cached
  BY <1>1 DEF Sets, Pooled, Cached
<1>3. ChainShape'
  BY <1>1 DEF FlowInv, ChainShape
<1>4. CASE Tick
  BY <1>1, <1>2, <1>3, <1>4 DEF Tick, TF!Tick
<1>5. CASE UNCHANGED vars
  BY <1>1, <1>2, <1>3, <1>5 DEF vars, TF!vars
<1> QED BY <1>4, <1>5

\* What is loaded at a start.
LEMMA LoadingFlows ==
  ASSUME NEW c \in Seq(Block), NEW q \in Seq(Tx)
  PROVE  /\ DOMAIN LoadedCache(c, q) = TF!LoadedKeys(SetsOf(c)) \union ToSet(q)
         /\ (\A i \in DOMAIN c : Len(c[i].txs) <= BlockMax) /\ LoadSucceeds(c, q)
               => TF!LoadSucceeds(SetsOf(c), ToSet(q))
<1>1. PICK C \in Seq(SUBSET Tx) : /\ C = SetsOf(c) /\ Len(C) = Len(c) /\ DOMAIN C = DOMAIN c
                                  /\ \A i \in DOMAIN c : C[i] = ToSet(c[i].txs) /\ c[i].txs \in Seq(Tx)
  BY SetsFields
<1>2. PICK R \in SUBSET DOMAIN c : R = RecentBlocksOf(c)
  BY DEF RecentBlocksOf
<1>3. TF!RecentIndices(C) = R
  BY <1>1, <1>2, SameWords DEF TF!RecentIndices, RecentBlocksOf
<1>4. {ToSet(c[i].txs) : i \in R} = {C[i] : i \in R}
  BY <1>1
<1>5. TF!LoadedKeys(C) = UNION {Keys(t) : t \in UNION {C[i] : i \in R}}
  BY <1>3, SameWords DEF TF!LoadedKeys, KeysOf
<1>6. DOMAIN LoadedCache(c, q) = TF!LoadedKeys(C) \union ToSet(q)
  <2>1. PICK K : K = UNION {Keys(t) : t \in UNION {ToSet(c[i].txs) : i \in R}}
    OBVIOUS
  <2>2. LoadedCache(c, q) = [k \in K \union ToSet(q) |-> k \in K \/ k \in Complete]
    BY <1>2, <2>1 DEF LoadedCache
  <2>3. K = TF!LoadedKeys(C)
    BY <1>4, <1>5, <2>1
  <2> QED BY <2>2, <2>3
<1>7. ASSUME \A i \in DOMAIN c : Len(c[i].txs) <= BlockMax, LoadSucceeds(c, q)
      PROVE  TF!LoadSucceeds(C, ToSet(q))
  <2> DEFINE recent == {p \in R \X (1..BlockMax) : p[2] \in DOMAIN c[p[1]].txs}
             At(p) == c[p[1]].txs[p[2]]
  <2>1. /\ \A p, r \in recent : p # r => Keys(At(p)) \intersect Keys(At(r)) = {}
        /\ \A n \in DOMAIN q : \A p \in recent : q[n] \notin Keys(At(p))
    BY <1>2, <1>7 DEF LoadSucceeds
  <2>2. \A i \in R : \A t \in C[i] : \E p \in recent : p[1] = i /\ At(p) = t
    <3> SUFFICES ASSUME NEW i \in R, NEW t \in C[i]
                 PROVE  \E p \in recent : p[1] = i /\ At(p) = t
      OBVIOUS
    <3>1. PICK x \in Seq(Tx) : x = c[i].txs /\ C[i] = ToSet(x)
      BY <1>1, <1>2
    <3>2. PICK n \in 1..Len(x) : x[n] = t
      BY <3>1 DEF ToSet
    <3>3. Len(x) <= BlockMax /\ BlockMax \in Nat /\ Len(x) \in Nat
      BY <1>2, <1>7, <3>1, LedgerAssumption
    <3>4. n \in 1..BlockMax /\ n \in DOMAIN x
      BY <3>2, <3>3
    <3>5. PICK p : p = <<i, n>>
      OBVIOUS
    <3>6. p \in recent /\ p[1] = i /\ At(p) = t
      BY <3>1, <3>2, <3>4, <3>5
    <3> QED BY <3>6
  <2> HIDE DEF recent, At
  <2>3. ASSUME NEW i \in R, NEW j \in R, NEW t \in C[i], NEW u \in C[j], i # j \/ t # u
        PROVE  Keys(t) \intersect Keys(u) = {}
    <3>1. PICK p \in recent : p[1] = i /\ At(p) = t
      BY <2>2
    <3>2. PICK r \in recent : r[1] = j /\ At(r) = u
      BY <2>2
    <3>3. p # r
      BY <2>3, <3>1, <3>2
    <3> QED BY <2>1, <3>1, <3>2, <3>3
  <2>4. ToSet(q) \intersect TF!LoadedKeys(C) = {}
    <3> SUFFICES ASSUME NEW k \in ToSet(q), k \in TF!LoadedKeys(C)
                 PROVE  FALSE
      OBVIOUS
    <3>1. PICK i \in R : \E t \in C[i] : k \in Keys(t)
      BY <1>5
    <3>2. PICK t \in C[i] : k \in Keys(t)
      BY <3>1
    <3>3. PICK p \in recent : At(p) = t
      BY <2>2
    <3>4. PICK n \in DOMAIN q : q[n] = k
      BY DEF ToSet
    <3> QED BY <2>1, <3>2, <3>3, <3>4
  <2>5. \A i, j \in TF!RecentIndices(C) : \A t \in C[i], u \in C[j] :
          (i # j \/ t # u) => TF!Keys(t) \intersect TF!Keys(u) = {}
    BY <1>3, <2>3, SameWords
  <2> QED BY <2>4, <2>5 DEF TF!LoadSucceeds
<1> QED BY <1>1, <1>6, <1>7

LEMMA RestartFlows ==
  ASSUME FlowInv, Restart
  PROVE  TF!Restart /\ ChainShape'
<1>1. PICK w \in Stores, c \in Seq(Block), q \in Seq(Tx) : w = stores /\ c = chain /\ q = w.pool
  BY FlowFacts DEF Stores
<1>2. /\ LoadSucceeds(c, q)
      /\ stores' = [w EXCEPT !.cache = LoadedCache(c, q)]
      /\ cleaned' = 0 /\ chain' = c /\ now' = now
  BY <1>1 DEF Restart
<1>3. stores'.pool = q /\ stores'.cache = LoadedCache(c, q)
  BY <1>1, <1>2 DEF Stores
<1>4. Sets' = Sets /\ Pooled' = Pooled /\ Sets = SetsOf(c) /\ Pooled = ToSet(q)
  BY <1>1, <1>2, <1>3 DEF Sets, Pooled
<1>5. Cached' = TF!LoadedKeys(Sets) \union Pooled
  BY <1>3, <1>4, LoadingFlows DEF Cached
<1>6. \A i \in DOMAIN c : Len(c[i].txs) <= BlockMax
  BY <1>1 DEF FlowInv, ChainShape, BlockShape
<1>7. TF!LoadSucceeds(Sets, Pooled)
  BY <1>2, <1>4, <1>6, LoadingFlows
<1>8. TF!Restart
  BY <1>2, <1>4, <1>5, <1>7 DEF TF!Restart
<1>9. ChainShape'
  BY <1>1, <1>2 DEF FlowInv, ChainShape
<1> QED BY <1>8, <1>9

LEMMA RevertLastBlocksFlows ==
  ASSUME FlowInv, NEW count \in 1..HeadNumber, RevertLastBlocks(count)
  PROVE  TF!RevertLastBlocks(count) /\ ChainShape'
<1>1. PICK w \in Stores, c \in Seq(Block) : w = stores /\ c = chain /\ Len(c) = HeadNumber + 1
  BY FlowFacts
<1>2. HeadNumber \in Nat
  BY FlowFacts
<1>3. PICK n \in 0..Len(c) : n = Len(c) - count
  BY <1>1, <1>2
<1>4. PICK loaded : loaded = [w EXCEPT !.cache = [t \in ToSet(w.pool) |-> t \in Complete]]
  OBVIOUS
<1>5. loaded \in Stores
  <2>1. w \in Holding(Coins(w)) /\ Coins(w) \in Int
    BY StoresHold
  <2>2. <<>> \in Seq(Block) /\ w.pool \in Seq(Tx)
    BY DEF Stores
  <2>3. loaded \in Holding(Coins(w))
    BY <1>4, <2>1, <2>2, LoadedHold
  <2> QED BY <2>3 DEF Holding
<1>6. PICK off \in Stores : off = RevertPool(loaded) /\ off.pool = <<>>
  BY <1>5, PoolOffKeys
<1>7. PICK bare \in Stores : bare = RevertBlocks(off, HeadNumber - count) /\ bare.pool = <<>>
  <2>1. HeadNumber - count \in 0..(Len(chain) - 1)
    BY <1>1, <1>2
  <2>2. chain \in Seq(Block) /\ UsedOnce
    BY FlowFacts
  <2>3. PICK b : b = RevertBlocks(off, HeadNumber - count)
    OBVIOUS
  <2>4. b \in Stores /\ b.pool = off.pool
    BY <2>1, <2>2, <2>3, BlocksOffKeys
  <2> QED BY <1>6, <2>3, <2>4
<1>8. PICK kept \in Seq(Block) : kept = SubSeq(c, 1, n) /\ Len(kept) = n /\ \A i \in 1..n : kept[i] = c[i]
  <2>1. n \in Nat /\ n <= Len(c)
    BY <1>3
  <2>2. SubSeq(c, 1, n) \in Seq(Block) /\ Len(SubSeq(c, 1, n)) = n
    BY <2>1, SubSeqProperties
  <2>3. \A i \in 1..n : SubSeq(c, 1, n)[i] = c[i]
    BY <2>1
  <2> QED BY <2>2, <2>3
<1>9. /\ count < Len(c) /\ LoadSucceeds(kept, <<>>)
      /\ chain' = kept
      /\ stores' = [bare EXCEPT !.cache = LoadedCache(kept, <<>>)]
      /\ cleaned' = 0 /\ now' = now
  BY <1>1, <1>3, <1>4, <1>6, <1>7, <1>8 DEF RevertLastBlocks
<1>10. stores'.pool = <<>> /\ stores'.cache = LoadedCache(kept, <<>>)
  BY <1>7, <1>9 DEF Stores
<1>11. ToSet(<<>>) = {} /\ <<>> \in Seq(Tx)
  BY DEF ToSet
<1>12. Sets' = SubSeq(Sets, 1, Len(Sets) - count)
  <2>1. SetsOf(SubSeq(c, 1, n)) = SubSeq(SetsOf(c), 1, n)
    <3>1. <<>> \in Seq(Block) /\ [miner |-> Own, txs |-> <<>>] \in Block
      BY <1>11, LedgerAssumption DEF Block
    <3> QED BY <3>1, SetsTogether
  <2>2. Len(Sets) = Len(c)
    BY <1>1, FlowFacts
  <2> QED BY <1>1, <1>3, <1>8, <1>9, <2>1, <2>2 DEF Sets
<1>13. Sets' = SetsOf(kept)
  BY <1>9 DEF Sets
<1>14. Pooled' = {}
  BY <1>10, <1>11 DEF Pooled
<1>15. Cached' = TF!LoadedKeys(SetsOf(kept))
  BY <1>10, <1>11, LoadingFlows DEF Cached
<1>16. \A i \in DOMAIN kept : kept[i] = c[i] /\ i \in DOMAIN c
  BY <1>3, <1>8
<1>17. \A i \in DOMAIN kept : Len(kept[i].txs) <= BlockMax
  BY <1>1, <1>16 DEF FlowInv, ChainShape, BlockShape
<1>18. TF!LoadSucceeds(SetsOf(kept), {})
  BY <1>9, <1>11, <1>17, LoadingFlows
<1>19. TF!RevertLastBlocks(count)
  <2>1. Len(Sets) = Len(c)
    BY <1>1, FlowFacts
  <2> QED BY <1>9, <1>12, <1>13, <1>14, <1>15, <1>18, <2>1 DEF TF!RevertLastBlocks
<1>20. ChainShape'
  <2>1. 1 \in DOMAIN kept
    BY <1>1, <1>3, <1>8, <1>9
  <2> QED BY <1>1, <1>9, <1>16, <2>1 DEF FlowInv, ChainShape
<1> QED BY <1>19, <1>20

\* The transactions of a set in an order of their creation.
LEMMA SortedOrders ==
  ASSUME NEW S \in SUBSET Tx, NEW q \in SortedByCreation(S)
  PROVE  /\ q \in Seq(Tx) /\ ToSet(q) \subseteq S
         /\ Distinct(q) /\ Sorted(q)
         /\ Len(q) = Cardinality(S) /\ Len(q) \in Nat
<1>1. PICK n \in Nat : n = Cardinality(S)
  BY LedgerAssumption, FS_Subset, FS_CardinalityType
<1>2. /\ q \in [1..n -> S]
      /\ \A i, j \in 1..n : i # j => q[i] # q[j]
  BY <1>1 DEF SortedByCreation, SetToSeqs
<1>3. q \in [1..n -> Tx] /\ DOMAIN q = 1..n
  BY <1>2
<1>4. q \in Seq(Tx) /\ Len(q) = n
  BY <1>3
<1>5. ToSet(q) \subseteq S
  BY <1>2, <1>3 DEF ToSet
<1>6. Distinct(q)
  BY <1>2, <1>3 DEF Distinct
<1>7. Sorted(q)
  BY DEF SortedByCreation, Sorted
<1> QED BY <1>1, <1>4, <1>5, <1>6, <1>7

\* The transactions that entered the own block, in the order they were tried in.
TriedInOrder(r, q, n) ==
  /\ Sorted(r.txs)
  /\ \A m \in DOMAIN r.txs : \E i \in 1..n : r.txs[m] = q[i]

LEMMA TryingSorted ==
  ASSUME NEW w \in Stores, NEW q \in Seq(Tx), Distinct(q), Sorted(q),
         NEW r, r = FoldLeft(TryTransaction, [w |-> w, txs |-> <<>>, failed |-> {}], q)
  PROVE  Sorted(r.txs)
<1>1. PICK z : z = [w |-> w, txs |-> <<>>, failed |-> {}]
  OBVIOUS
<1>2. PICK f : LeftRun(f, "try", <<>>, z, q) /\ r = f[Len(q)]
  BY <1>1, TryRun
<1>3. PICK N \in Nat : N = Len(q) /\ DOMAIN q = 1..N
  OBVIOUS
<1>4. PICK W : W = [n \in 0..N |->
                      {s \in [w : Stores, txs : Seq(Tx), failed : SUBSET Tx] : TriedInOrder(s, q, n)}]
  OBVIOUS
<1>5. f[0] \in W[0]
  <2>1. z \in [w : Stores, txs : Seq(Tx), failed : SUBSET Tx] /\ z.txs = <<>>
    BY <1>1
  <2>2. TriedInOrder(z, q, 0)
    BY <2>1 DEF TriedInOrder, Sorted
  <2>3. 0 \in 0..N /\ f[0] = z
    BY <1>2 DEF LeftRun
  <2>4. W[0] = {s \in [w : Stores, txs : Seq(Tx), failed : SUBSET Tx] : TriedInOrder(s, q, 0)}
    BY <1>4, <2>3
  <2> QED BY <2>1, <2>2, <2>3, <2>4
<1>6. ASSUME NEW n \in 1..N, f[n - 1] \in W[n - 1]
      PROVE  f[n] \in W[n]
  <2>1. n \in 0..N /\ n - 1 \in 0..N /\ n \in DOMAIN q /\ q[n] \in Tx
    BY <1>3
  <2>2. W[n - 1] = {s \in [w : Stores, txs : Seq(Tx), failed : SUBSET Tx] : TriedInOrder(s, q, n - 1)}
    BY <1>4, <2>1
  <2>3. PICK u \in [w : Stores, txs : Seq(Tx), failed : SUBSET Tx] :
          u = f[n - 1] /\ TriedInOrder(u, q, n - 1)
    BY <1>6, <2>2
  <2>4. PICK t \in Tx : t = q[n]
    BY <2>1
  <2>5. PICK s : s = TryTransaction(u, t)
    OBVIOUS
  <2>6. f[n] = s
    BY <1>2, <1>3, <2>3, <2>4, <2>5 DEF LeftRun, Do
  <2>7. PICK x \in Seq(Tx) : x = u.txs
    OBVIOUS
  <2>8. s \in [w : Stores, txs : Seq(Tx), failed : SUBSET Tx] /\ (s.txs = Append(x, t) \/ s.txs = x)
    <3>1. PICK v : v = [ChainApply(u.w, t, Own) EXCEPT !.cache = AddChain(@, t)]
      OBVIOUS
    <3>2. v \in Stores
      BY <3>1, JoinsFields, LedgerAssumption
    <3>3. Append(x, t) \in Seq(Tx)
      OBVIOUS
    <3>4. s = [u EXCEPT !.w = v, !.txs = Append(x, t)] \/ s = [u EXCEPT !.failed = @ \union {t}]
      BY <2>5, <2>7, <3>1 DEF TryTransaction
    <3> QED BY <2>7, <3>2, <3>3, <3>4
  <2>9. TriedInOrder(s, q, n)
    <3>1. CASE s.txs = x
      BY <2>3, <2>7, <3>1 DEF TriedInOrder
    <3>2. CASE s.txs = Append(x, t)
      <4>1. PICK k \in Nat : k = Len(x) /\ DOMAIN x = 1..k
        OBVIOUS
      <4>2. PICK y \in Seq(Tx) : y = Append(x, t)
        <5>1. Append(x, t) \in Seq(Tx)
          OBVIOUS
        <5> QED BY <5>1
      <4>3. /\ DOMAIN y = 1..(k + 1) /\ y[k + 1] = t
            /\ \A m \in 1..k : y[m] = x[m]
        BY <4>1, <4>2
      <4>4. \A m \in 1..k : \E i \in 1..(n - 1) : x[m] = q[i]
        BY <2>3, <2>7, <4>1 DEF TriedInOrder
      <4>5. \A m \in 1..(k + 1) : \E i \in 1..n : y[m] = q[i]
        <5>1. ASSUME NEW m \in 1..(k + 1)
              PROVE  \E i \in 1..n : y[m] = q[i]
          <6>1. CASE m = k + 1
            BY <2>4, <4>3, <6>1
          <6>2. CASE m # k + 1
            <7>1. m \in 1..k
              BY <6>2
            <7>2. PICK i \in 1..(n - 1) : x[m] = q[i]
              BY <4>4, <7>1
            <7>3. i \in 1..n
              OBVIOUS
            <7> QED BY <4>3, <7>1, <7>2, <7>3
          <6> QED BY <6>1, <6>2
        <5> QED BY <5>1
      <4>6. \A m \in 1..k : Creation[x[m]] <= Creation[t]
        <5>1. ASSUME NEW m \in 1..k
              PROVE  Creation[x[m]] <= Creation[t]
          <6>1. PICK i \in 1..(n - 1) : x[m] = q[i]
            BY <4>4
          <6>2. i \in DOMAIN q /\ i < n
            BY <1>3
          <6> QED BY <2>1, <2>4, <6>1, <6>2 DEF Sorted
        <5> QED BY <5>1
      <4>7. Sorted(y)
        <5>1. \A m, l \in 1..k : m < l => Creation[x[m]] <= Creation[x[l]]
          BY <2>3, <2>7, <4>1 DEF TriedInOrder, Sorted
        <5>2. ASSUME NEW m \in 1..(k + 1), NEW l \in 1..(k + 1), m < l
              PROVE  Creation[y[m]] <= Creation[y[l]]
          <6>1. m \in 1..k /\ y[m] = x[m]
            BY <4>3, <5>2
          <6>2. CASE l = k + 1
            BY <4>3, <4>6, <6>1, <6>2
          <6>3. CASE l # k + 1
            <7>1. l \in 1..k
              BY <6>3
            <7> QED BY <4>3, <5>1, <5>2, <6>1, <7>1
          <6> QED BY <6>2, <6>3
        <5> QED BY <4>3, <5>2 DEF Sorted
      <4>8. s.txs = y
        BY <3>2, <4>2
      <4> QED BY <4>3, <4>5, <4>7, <4>8 DEF TriedInOrder
    <3> QED BY <2>8, <3>1, <3>2
  <2>10. W[n] = {d \in [w : Stores, txs : Seq(Tx), failed : SUBSET Tx] : TriedInOrder(d, q, n)}
    BY <1>4, <2>1
  <2> QED BY <2>6, <2>8, <2>9, <2>10
<1>7. \A n \in 0..N : f[n] \in W[n]
  BY <1>5, <1>6, LeftReaches
<1>8. r \in W[N] /\ N \in 0..N
  BY <1>2, <1>3, <1>7
<1>9. W[N] = {s \in [w : Stores, txs : Seq(Tx), failed : SUBSET Tx] : TriedInOrder(s, q, N)}
  BY <1>4, <1>8
<1> QED BY <1>8, <1>9 DEF TriedInOrder

\* The transactions of the pool that may enter a block, what is left over when
\* some of them were picked and some failed, and what the files say of the block
\* and of what comes back.
MayEnter(young, merged, reverted, time) ==
  /\ young \subseteq Tx /\ merged = Merged(young)
  /\ \A t \in Tx : t \in young <=> t \in reverted /\ Creation[t] < time
LeftOver(B, young, merged, reverted, picked, failed) ==
  \A t \in B : \/ t \in reverted /\ t \notin young
               \/ t \in young /\ t \notin Complete /\ (\A u \in merged : t \notin Parts[u])
               \/ (t \in young \intersect Complete \/ t \in merged) /\ t \notin picked
               \/ t \in failed
FilesTell(files, block, B) ==
  /\ \A t \in block : NewFiles(t) \subseteq files
  /\ \A t \in B : files \intersect NewFiles(t) = {}
NotMined(B, block, reverted, merged, time) ==
  /\ \A t \in block : t \in Complete /\ Creation[t] < time
  /\ B \subseteq (reverted \union merged) \ KeysOf(block)

\* What comes back to the pool after a block was mined is not in the block.
LEMMA BackIsNotMined ==
  ASSUME NEW reverted \in SUBSET Tx, NEW young, NEW merged, NEW time,
         MayEnter(young, merged, reverted, time),
         NEW picked \in SUBSET ((young \intersect Complete) \union merged),
         NEW block \in SUBSET picked, NEW failed \in SUBSET picked, block \intersect failed = {},
         NEW B, LeftOver(B, young, merged, reverted, picked, failed),
         NEW files, FilesTell(files, block, B)
  PROVE  NotMined(B, block, reverted, merged, time)
<1> USE DEF MayEnter, LeftOver, FilesTell, NotMined
<1>1. /\ merged \subseteq Complete /\ Complete \subseteq Tx
      /\ \A t \in merged : Parts[t] # {} /\ Parts[t] \subseteq young
  BY LedgerAssumption DEF Merged
<1>2. \A t \in picked : t \in Complete /\ t \in Tx
  BY <1>1
<1>3. \A t \in picked : Creation[t] < time
  <2>1. ASSUME NEW t \in merged
        PROVE  Creation[t] < time
    <3>1. PICK p \in Parts[t] : p \in young
      BY <1>1
    <3> QED BY <1>1, <3>1, FormsAssumption
  <2> QED BY <2>1
<1>4. B \subseteq reverted \union merged
  BY <1>1
<1>5. ASSUME NEW t \in B, NEW u \in block, t \in Keys(u)
      PROVE  FALSE
  <2>1. u \in picked /\ u \in Complete /\ u \in Tx /\ Creation[u] < time /\ u \notin failed
    BY <1>2, <1>3
  <2>2. CASE t = u
    BY <2>1, <2>2
  <2>3. CASE t \in Parts[u]
    <3>1. t \notin Complete /\ Creation[t] = Creation[u] /\ Action[t] = Action[u]
      BY <2>1, <2>3, FormsAssumption
    <3>2. t \in young /\ \A v \in merged : t \notin Parts[v]
      BY <1>1, <1>2, <2>1, <3>1, LedgerAssumption
    <3>3. NewFiles(t) = NewFiles(u)
      BY <3>1 DEF NewFiles
    <3>4. NewFiles(u) = {}
      BY <3>3
    <3>5. Action[u].type = "Transfer"
      BY <3>4 DEF NewFiles
    <3>6. Parts[u] = {}
      BY <2>1, <3>5, LedgerAssumption
    <3> QED BY <2>3, <3>6
  <2> QED BY <1>5, <2>2, <2>3 DEF Keys
<1> QED BY <1>2, <1>3, <1>4, <1>5 DEF KeysOf

\* The block has been put on and a set of transactions is put back.
MinedTo(v, bare, r, back) ==
  \E B \in SUBSET ToSet(back) :
    /\ ToSet(v.pool) = B
    /\ DOMAIN v.cache = DOMAIN bare.cache \union KeysOf(ToSet(r.txs)) \union B
    /\ \A t \in B : r.w.files \intersect NewFiles(t) = {}

\* The sets of what a handler that mines a block works on.
LEMMA MinedKeys ==
  ASSUME NEW w \in Stores, NEW order \in Seq(Tx), Distinct(order),
         NEW bare, bare = RevertPool(w),
         NEW r, r = FoldLeft(TryTransaction, [w |-> bare, txs |-> <<>>, failed |-> {}], order),
         NEW block \in Block, block.txs = r.txs, NEW back \in Seq(Tx),
         NEW v, v = FoldLeft(PutBack, CloseBlock(r.w, block), back)
  PROVE  /\ Tried(r, bare, ToSet(order)) /\ Len(r.txs) <= Len(order) /\ r.txs \in Seq(Tx)
         /\ bare.cache \in Cache /\ DOMAIN bare.cache = DOMAIN w.cache \ ToSet(w.pool)
         /\ MinedTo(v, bare, r, back)
<1>1. bare \in Stores /\ bare.pool = <<>> /\ bare.cache = EraseKeys(w.cache, ToSet(w.pool))
  BY PoolOffKeys
<1>2. /\ r \in [w : Stores, txs : Seq(Tx), failed : SUBSET Tx]
      /\ Tried(r, bare, ToSet(order)) /\ Len(r.txs) <= Len(order)
  BY <1>1, TryingKeys
<1>3. PICK x \in Stores, S \in SUBSET Tx : x = r.w /\ S = ToSet(r.txs)
  <2>1. r.w \in Stores /\ r.txs \in Seq(Tx)
    BY <1>2
  <2>2. ToSet(r.txs) \in SUBSET Tx
    BY <2>1 DEF ToSet
  <2> QED BY <2>1, <2>2
<1>4. PICK e \in Cache : e = bare.cache
  BY <1>1 DEF Stores
<1>5. DOMAIN bare.cache = DOMAIN w.cache \ ToSet(w.pool)
  BY <1>1 DEF EraseKeys
<1>6. x.pool = <<>> /\ x.cache = AddSet(e, S) /\ Fits(e, S)
  BY <1>1, <1>2, <1>3, <1>4 DEF Tried
<1>7. DOMAIN x.cache = DOMAIN e \union KeysOf(S)
  <2>1. Free(e, S) = S
    BY <1>6 DEF Free, Fits, KeysOf
  <2> QED BY <1>6, <2>1, AddSetFields
<1>8. PICK u : u = CloseBlock(x, block)
  OBVIOUS
<1>9. u \in Stores /\ u.files = x.files /\ u.pool = x.pool /\ u.cache = x.cache
  <2>1. u \in Stores
    BY <1>8, CloseBlockFields
  <2>2. u.files = x.files
    BY <1>8, CloseBlockFields, ZenonT(30)
  <2>3. u.pool = x.pool
    BY <1>8, CloseBlockFields, ZenonT(30)
  <2>4. u.cache = x.cache
    BY <1>8, CloseBlockFields, ZenonT(30)
  <2> QED BY <2>1, <2>2, <2>3, <2>4
<1>10. PICK B \in SUBSET ToSet(back) : Grown(v, u, B)
  <2>1. v = FoldLeft(PutBack, u, back)
    BY <1>3, <1>8
  <2> QED BY <1>9, <2>1, PuttingBackKeys
<1>11. ToSet(<<>>) = {}
  BY DEF ToSet
<1>12. /\ ToSet(v.pool) = B /\ DOMAIN v.cache = DOMAIN e \union KeysOf(S) \union B
       /\ \A t \in B : x.files \intersect NewFiles(t) = {}
  BY <1>6, <1>7, <1>9, <1>10, <1>11 DEF Grown
<1>13. MinedTo(v, bare, r, back)
  BY <1>3, <1>4, <1>12 DEF MinedTo
<1> QED BY <1>2, <1>4, <1>5, <1>13

LEMMA MineBlockFlows ==
  ASSUME FlowInv, MineBlock
  PROVE  TF!MineBlock /\ ChainShape'
<1> DEFINE time       == TimeOf(HeadNumber + 1)
           reverted   == {t \in ToSet(stores.pool) : time <= Expiry[t]}
           young      == {t \in reverted : Creation[t] < time}
           merged     == Merged(young)
           joined     == UNION {Parts[t] : t \in merged}
           candidates == (young \intersect Complete) \union merged
           bare       == RevertPool(stores)
           tried(order) == FoldLeft(TryTransaction, [w |-> bare, txs |-> <<>>, failed |-> {}], order)
           block(order) == [miner |-> Own, txs |-> tried(order).txs]
           rest(picked, order) == (reverted \ young)
                         \union ((young \ Complete) \ joined)
                         \union (candidates \ picked) \union tried(order).failed
<1>1. reverted \in SUBSET Tx /\ candidates \in SUBSET Tx /\ merged \subseteq Complete
  <2>1. reverted \in SUBSET Tx
    BY FlowFacts DEF Pooled
  <2>2. merged \in SUBSET Complete /\ Complete \subseteq Tx
    BY LedgerAssumption DEF Merged
  <2> QED BY <2>1, <2>2
<1>2. PICK picked \in SUBSET candidates :
        /\ Cardinality(picked) <= BlockMax
        /\ \E order \in SortedByCreation(picked) :
             /\ chain' = Append(chain, block(order))
             /\ \E back \in SortedByCreation(rest(picked, order)) :
                  stores' = FoldLeft(PutBack, CloseBlock(tried(order).w, block(order)), back)
  BY DEF MineBlock
<1>3. PICK order \in SortedByCreation(picked) :
        /\ chain' = Append(chain, block(order))
        /\ \E back \in SortedByCreation(rest(picked, order)) :
             stores' = FoldLeft(PutBack, CloseBlock(tried(order).w, block(order)), back)
  BY <1>2
<1>4. /\ picked \in SUBSET Tx
      /\ order \in Seq(Tx) /\ ToSet(order) \subseteq picked /\ Distinct(order) /\ Sorted(order)
      /\ Len(order) <= BlockMax /\ Len(order) \in Nat
  <2>1. picked \in SUBSET Tx
    BY <1>1
  <2> QED BY <1>2, <2>1, SortedOrders
<1>5. PICK w \in Stores : w = stores
  BY FlowFacts
<1>6. PICK b0 \in Stores : b0 = bare /\ b0 = RevertPool(w)
  BY <1>5, PoolOffKeys
<1>7. PICK r : /\ r = tried(order)
               /\ r = FoldLeft(TryTransaction, [w |-> b0, txs |-> <<>>, failed |-> {}], order)
  BY <1>6
<1>8. r \in [w : Stores, txs : Seq(Tx), failed : SUBSET Tx] /\ Tried(r, b0, ToSet(order))
  BY <1>4, <1>7, TryingKeys
<1>9. Sorted(r.txs)
  BY <1>4, <1>7, TryingSorted
<1>10. PICK b \in Block : b = block(order) /\ b.txs = r.txs /\ b = [miner |-> Own, txs |-> r.txs]
  <2>1. [miner |-> Own, txs |-> r.txs] \in Block
    BY <1>8, LedgerAssumption DEF Block
  <2> QED BY <1>7, <2>1
<1>11. PICK R \in SUBSET Tx : R = rest(picked, order) /\ R = (reverted \ young)
                         \union ((young \ Complete) \ joined)
                         \union (candidates \ picked) \union r.failed
  <2>1. rest(picked, order) = (reverted \ young)
                         \union ((young \ Complete) \ joined)
                         \union (candidates \ picked) \union r.failed
    BY <1>7
  <2>2. rest(picked, order) \in SUBSET Tx
    BY <1>1, <1>8, <2>1
  <2> QED BY <2>1, <2>2
<1>12. PICK back \in SortedByCreation(R) : stores' = FoldLeft(PutBack, CloseBlock(r.w, b), back)
  BY <1>3, <1>7, <1>10, <1>11
<1>13. back \in Seq(Tx) /\ ToSet(back) \subseteq R
  BY <1>11, <1>12, SortedOrders
<1>14. PICK S \in SUBSET Tx : S = ToSet(r.txs) /\ S \subseteq picked
  <2>1. ToSet(r.txs) \subseteq ToSet(order)
    BY <1>8 DEF Tried
  <2> QED BY <1>4, <2>1
<1>15. PICK B \in SUBSET R :
         /\ Pooled' = B
         /\ Cached' = (Cached \ Pooled) \union KeysOf(S) \union B
         /\ \A t \in B : r.w.files \intersect NewFiles(t) = {}
  <2>1. PICK v : v = FoldLeft(PutBack, CloseBlock(r.w, b), back) /\ v = stores'
    BY <1>12
  <2>2. DOMAIN b0.cache = DOMAIN w.cache \ ToSet(w.pool)
    <3>1. b0.cache = EraseKeys(w.cache, ToSet(w.pool))
      BY <1>6, PoolOffKeys
    <3> QED BY <3>1 DEF EraseKeys
  <2>3. Pooled' = ToSet(v.pool) /\ Cached' = DOMAIN v.cache
    BY <2>1 DEF Pooled, Cached
  <2>4. Pooled = ToSet(w.pool) /\ Cached = DOMAIN w.cache
    BY <1>5 DEF Pooled, Cached
  <2>5. MinedTo(v, b0, r, back)
    BY <1>4, <1>6, <1>7, <1>10, <1>13, <2>1, MinedKeys
  <2> QED BY <1>13, <1>14, <2>2, <2>3, <2>4, <2>5 DEF MinedTo
<1>16. /\ r.failed \subseteq picked /\ S \intersect r.failed = {}
       /\ \A t \in S : NewFiles(t) \subseteq r.w.files
       /\ Fits(b0.cache, S)
  BY <1>4, <1>8, <1>14 DEF Tried
<1>17. chain' = Append(chain, b)
  BY <1>3, <1>10
<1>18. /\ Len(chain) < FreezeBefore /\ HeadNumber < MaxBlocks /\ now >= time
       /\ now' = now /\ cleaned' = cleaned
  BY DEF MineBlock
<1> HIDE DEF tried, block, rest, bare
<1>19. /\ \A t \in S : t \in Complete /\ Creation[t] < time
       /\ B \subseteq (reverted \union merged) \ KeysOf(S)
  <2>1. PICK F : F = r.failed
    OBVIOUS
  <2>2. PICK G : G = r.w.files
    OBVIOUS
  <2>3. \A t \in B : \/ t \in reverted /\ t \notin young
                     \/ t \in young /\ t \notin Complete /\ (\A u \in merged : t \notin Parts[u])
                     \/ (t \in young \intersect Complete \/ t \in merged) /\ t \notin picked
                     \/ t \in F
    BY <1>11, <1>15, <2>1
  <2>4. /\ \A t \in S : NewFiles(t) \subseteq G
        /\ \A t \in B : G \intersect NewFiles(t) = {}
        /\ F \in SUBSET picked /\ S \intersect F = {} /\ S \in SUBSET picked
    BY <1>14, <1>15, <1>16, <2>1, <2>2
  <2>5. PICK y, m, T : y = young /\ m = merged /\ T = time
    OBVIOUS
  <2>6. /\ \A t \in Tx : t \in y <=> t \in reverted /\ Creation[t] < T
        /\ y \subseteq Tx /\ m = Merged(y)
    BY <1>1, <2>5
  <2>7. picked \in SUBSET ((y \intersect Complete) \union m)
    BY <1>2, <2>5
  <2>8. PICK rv \in SUBSET Tx : rv = reverted
    BY <1>1
  <2>9. LeftOver(B, y, m, rv, picked, F)
    BY <2>3, <2>5, <2>8 DEF LeftOver
  <2>10. MayEnter(y, m, rv, T)
    BY <2>6, <2>8 DEF MayEnter
  <2>11. FilesTell(G, S, B)
    BY <2>4 DEF FilesTell
  <2> HIDE DEF reverted, young, merged, candidates, time
  <2>12. NotMined(B, S, rv, m, T)
    BY <2>4, <2>7, <2>9, <2>10, <2>11, BackIsNotMined
  <2> QED BY <2>5, <2>8, <2>12 DEF NotMined
<1>20. TF!MineBlock
  <2>1. TF!TimeOf(TF!HeadNumber + 1) = time
    BY FlowFacts, SameWords
  <2>2. TF!Alive(time) = reverted
    BY DEF TF!Alive, Pooled
  <2>3. TF!Merged(young) = merged
    BY SameWords
  <2>4. S \subseteq (reverted \intersect Complete) \union merged
    BY <1>2, <1>14
  <2>5. TF!KeysDisjoint(S)
    BY <1>16, SameWords DEF Fits
  <2>6. TF!KeysOf(S) \intersect (Cached \ Pooled) = {}
    <3>1. DOMAIN b0.cache = Cached \ Pooled
      <4>1. b0.cache = EraseKeys(w.cache, ToSet(w.pool))
        BY <1>6, PoolOffKeys
      <4>2. DOMAIN b0.cache = DOMAIN w.cache \ ToSet(w.pool)
        BY <4>1 DEF EraseKeys
      <4> QED BY <1>5, <4>2 DEF Cached, Pooled
    <3> QED BY <1>16, <3>1, SameWords DEF Fits
  <2>7. Sets' = Append(Sets, S)
    <3>1. chain \in Seq(Block) /\ 0 \in 0..Len(chain)
      BY FlowFacts
    <3>2. SetsOf(Append(chain, b)) = Append(SetsOf(chain), ToSet(b.txs))
      BY <3>1, SetsTogether
    <3> QED BY <1>10, <1>14, <1>17, <3>2 DEF Sets
  <2>8. B \subseteq (reverted \union merged) \ TF!KeysOf(S)
    BY <1>19, SameWords
  <2>9. Cached' = (Cached \ Pooled) \union TF!KeysOf(S) \union B
    BY <1>15, SameWords
  <2>10. \A t \in S : Creation[t] < time
    BY <1>19
  <2>11. TF!HeadNumber < MaxBlocks
    BY <1>18, FlowFacts
  <2> HIDE DEF reverted, merged, time, candidates
  <2> QED BY <1>15, <1>18, <2>1, <2>2, <2>3, <2>4, <2>5, <2>6, <2>7, <2>8, <2>9, <2>10, <2>11
          DEF TF!MineBlock, young
<1>21. ChainShape'
  <2>1. BlockShape(b)
    <3>1. r.txs \in Seq(Complete)
      <4>1. PICK x \in Seq(Tx) : x = r.txs
        BY <1>8
      <4>2. \A i \in 1..Len(x) : x[i] \in ToSet(x)
        BY DEF ToSet
      <4>3. \A i \in 1..Len(x) : x[i] \in Complete
        BY <1>14, <1>19, <4>1, <4>2
      <4>4. x = [i \in 1..Len(x) |-> x[i]]
        OBVIOUS
      <4> QED BY <4>1, <4>3, <4>4
    <3>2. Len(r.txs) <= BlockMax
      <4>1. Len(r.txs) <= Len(order) /\ Len(r.txs) \in Nat
        BY <1>4, <1>6, <1>7, <1>8, TryingKeys
      <4> QED BY <1>4, <4>1, LedgerAssumption
    <3>3. Distinct(r.txs)
      BY <1>8 DEF Tried
    <3> QED BY <1>9, <1>10, <3>1, <3>2, <3>3 DEF BlockShape
  <2>2. PICK n \in Nat \ {0} : n = Len(chain) /\ DOMAIN chain = 1..n
    BY FlowFacts
  <2>3. /\ DOMAIN chain' = 1..(n + 1) /\ chain'[n + 1] = b
        /\ \A i \in 1..n : chain'[i] = chain[i]
    <3>1. chain \in Seq(Block)
      BY FlowFacts
    <3> QED BY <1>17, <2>2, <3>1
  <2>4. chain'[1] = GenesisBlock
    BY <2>2, <2>3 DEF FlowInv, ChainShape
  <2>5. ASSUME NEW i \in 1..(n + 1)
        PROVE  BlockShape(chain'[i])
    <3>1. CASE i = n + 1
      BY <2>1, <2>3, <3>1
    <3>2. CASE i # n + 1
      <4>1. i \in 1..n
        BY <3>2
      <4> QED BY <2>2, <2>3, <4>1 DEF FlowInv, ChainShape
    <3> QED BY <3>1, <3>2
  <2> QED BY <2>3, <2>4, <2>5 DEF ChainShape, GenesisBlock, BlockShape, Distinct, Sorted
<1> QED BY <1>20, <1>21

-----------------------------------------------------------------------------
(* The blocks of a peer *)

\* The elements of a sequence that are in a set.
LEMMA ThoseAreThere ==
  ASSUME NEW q \in Seq(Tx), NEW S
  PROVE  Those(q, S) \in Seq(ToSet(q) \intersect S)
<1>1. PICK f : LeftRun(f, "keep", S, <<>>, q) /\ Those(q, S) = f[Len(q)]
  BY KeepRun
<1>2. PICK A : A = ToSet(q) \intersect S
  OBVIOUS
<1>3. PICK N \in Nat : N = Len(q) /\ DOMAIN q = 1..N
  OBVIOUS
<1>4. PICK W : W = [n \in 0..N |-> Seq(A)]
  OBVIOUS
<1>5. f[0] \in W[0]
  <2>1. f[0] = <<>> /\ 0 \in 0..N
    BY <1>1 DEF LeftRun
  <2>2. W[0] = Seq(A) /\ <<>> \in Seq(A)
    BY <1>4, <2>1
  <2> QED BY <2>1, <2>2
<1>6. ASSUME NEW n \in 1..N, f[n - 1] \in W[n - 1]
      PROVE  f[n] \in W[n]
  <2>1. n - 1 \in 0..N /\ n \in 0..N
    OBVIOUS
  <2>2. PICK x \in Seq(A) : x = f[n - 1]
    BY <1>4, <1>6, <2>1
  <2>3. PICK t \in ToSet(q) : t = q[n]
    BY <1>3 DEF ToSet
  <2>4. f[n] = IF t \in S THEN Append(x, t) ELSE x
    BY <1>1, <1>3, <2>2, <2>3 DEF LeftRun, Do
  <2>5. t \in S => Append(x, t) \in Seq(A)
    <3>1. ASSUME t \in S
          PROVE  Append(x, t) \in Seq(A)
      <4>1. t \in A
        BY <1>2, <3>1
      <4> QED BY <4>1
    <3> QED BY <3>1
  <2>6. W[n] = Seq(A)
    BY <1>4, <2>1
  <2> QED BY <2>2, <2>4, <2>5, <2>6
<1>7. \A n \in 0..N : f[n] \in W[n]
  BY <1>5, <1>6, LeftReaches
<1>8. f[N] \in Seq(A)
  <2>1. N \in 0..N
    OBVIOUS
  <2> QED BY <1>4, <1>7, <2>1
<1> QED BY <1>1, <1>2, <1>3, <1>8

\* A sequence of elements of a set has no other elements.
LEMMA SetInside ==
  ASSUME NEW A, NEW q \in Seq(A)
  PROVE  ToSet(q) \subseteq A
BY DEF ToSet

\* The transactions of the blocks that are taken off.
LEMMA RemovedTxs ==
  ASSUME chain \in Seq(Block), NEW lcb \in 0..(Len(chain) - 1)
  PROVE  /\ Removed(lcb + 2) \in SUBSET Tx
         /\ FlattenSeq([n \in 1..(HeadNumber - lcb) |-> chain[n + lcb + 1].txs]) \in Seq(Removed(lcb + 2))
<1>1. PICK m \in Nat, d \in Nat : m = lcb /\ m + d = HeadNumber /\ Len(chain) = m + d + 1
  <2>1. PICK h \in Nat : h = HeadNumber /\ Len(chain) = h + 1
    BY DEF HeadNumber
  <2>2. lcb \in Nat /\ h - lcb \in Nat /\ lcb + (h - lcb) = h
    BY <2>1
  <2> QED BY <2>1, <2>2
<1>2. PICK R : R = Removed(lcb + 2)
  OBVIOUS
<1>3. PICK q : q = [n \in 1..d |-> chain[n + lcb + 1].txs]
  OBVIOUS
<1>4. ASSUME NEW n \in 1..d
      PROVE  chain[n + lcb + 1].txs \in Seq(R)
  <2>1. n + lcb + 1 \in DOMAIN chain /\ n + lcb + 1 \in (lcb + 2)..Len(chain)
    BY <1>1
  <2>2. PICK b \in Block : b = chain[n + lcb + 1]
    BY <2>1
  <2>3. PICK x \in Seq(Tx) : x = b.txs
    BY DEF Block
  <2>4. ToSet(x) \subseteq R
    BY <1>2, <2>1, <2>2, <2>3 DEF Removed, Txs
  <2>5. \A i \in 1..Len(x) : x[i] \in R
    BY <2>4 DEF ToSet
  <2>6. x = [i \in 1..Len(x) |-> x[i]]
    OBVIOUS
  <2> QED BY <2>2, <2>3, <2>5, <2>6
<1>5. q \in [1..d -> Seq(R)]
  BY <1>3, <1>4
<1>6. q \in Seq(Seq(R))
  BY <1>5
<1>7. HeadNumber - lcb = d
  BY <1>1
<1>8. FlattenSeq(q) \in Seq(R)
  BY <1>6, FlattenedHold
<1>9. R \in SUBSET Tx
  <2>1. 1 \in DOMAIN chain /\ lcb + 2 \in Nat \ {0}
    BY <1>1
  <2> QED BY <1>2, <2>1, ChainSets
<1> QED BY <1>2, <1>3, <1>7, <1>8, <1>9

\* The cache after the blocks above lcb were taken off, in the words of
\* TransactionFlow.
LEMMA RewoundKeys ==
  ASSUME FlowInv, NEW lcb \in 0..HeadNumber,
         NEW e \in Cache, DOMAIN e = Cached \ Pooled
  PROVE  DOMAIN Rewound(e, lcb + 2) = TF!RewoundCache(lcb)
<1>1. PICK n \in Nat : n = Len(chain) /\ DOMAIN chain = 1..n /\ Len(Sets) = n /\ DOMAIN Sets = 1..n
  BY FlowFacts
<1>2. chain \in Seq(Block) /\ 1 \in DOMAIN chain /\ lcb + 2 \in Nat \ {0}
  BY <1>1, FlowFacts
<1>3. PICK R \in SUBSET Tx : R = Removed(lcb + 2)
  BY <1>2, ChainSets
<1>4. PICK O \in SUBSET Tx : O = Old(lcb + 2)
  BY <1>2, ChainSets
<1>5. UNION {Sets[i] : i \in (lcb + 2)..Len(Sets)} = R
  <2>1. \A i \in (lcb + 2)..n : Sets[i] = Txs(i)
    <3>1. ASSUME NEW i \in (lcb + 2)..n
          PROVE  Sets[i] = Txs(i)
      <4>1. i \in DOMAIN chain
        BY <1>1, FlowFacts
      <4> QED BY <4>1, FlowFacts
    <3> QED BY <3>1
  <2> QED BY <1>1, <1>3, <2>1 DEF Removed
<1>6. PICK J : J = {k \in DOMAIN chain : k + LifetimeBlocks >= lcb + 2 /\ k + LifetimeBlocks <= Len(chain)}
  OBVIOUS
<1>7. UNION {Sets[i] : i \in {j \in DOMAIN Sets : /\ j + LifetimeBlocks >= lcb + 2
                                                  /\ j + LifetimeBlocks <= Len(Sets)}} = O
  <2>1. J = {j \in DOMAIN Sets : /\ j + LifetimeBlocks >= lcb + 2
                                 /\ j + LifetimeBlocks <= Len(Sets)}
    BY <1>1, <1>6
  <2>2. \A i \in J : Sets[i] = Txs(i)
    BY <1>6, FlowFacts
  <2>3. O = UNION {Txs(j) : j \in J}
    BY <1>4, <1>6 DEF Old
  <2> QED BY <2>1, <2>2, <2>3
<1>8. PICK K : K = (Cached \ Pooled) \ KeysOf(R)
  OBVIOUS
<1>9. TF!RewoundCache(lcb) = K \union KeysOf({t \in O \ R : Keys(t) \intersect K = {}})
  BY <1>5, <1>7, <1>8, SameWords DEF TF!RewoundCache
<1>10. PICK g \in Cache : g = EraseKeys(e, KeysOf(R)) /\ DOMAIN g = K
  <2>1. EraseKeys(e, KeysOf(R)) \in Cache
    BY ErasedTwice
  <2>2. DOMAIN EraseKeys(e, KeysOf(R)) = K
    BY <1>8 DEF EraseKeys
  <2> QED BY <2>1, <2>2
<1>11. O \ R \in SUBSET Tx
  OBVIOUS
<1>12. DOMAIN AddSet(g, O \ R) = K \union KeysOf(Free(g, O \ R))
  BY <1>10, <1>11, AddSetFields
<1>13. Free(g, O \ R) = {t \in O \ R : Keys(t) \intersect K = {}}
  BY <1>10 DEF Free
<1> QED BY <1>3, <1>4, <1>9, <1>10, <1>12, <1>13 DEF Rewound

\* What the blocks of a peer have come to.
SyncedTo(r, bare, w, lcb, blocks) ==
  /\ bare \in Stores /\ bare.cache \in Cache
  /\ \E e \in Cache : /\ DOMAIN e = DOMAIN w.cache \ ToSet(w.pool)
                      /\ bare.cache = Rewound(e, lcb + 2)
  /\ r.w \in Stores /\ r.w.pool = <<>>
  /\ Fits(bare.cache, TxsOf(blocks, Len(blocks)))
  /\ DOMAIN r.w.cache = DOMAIN bare.cache \union KeysOf(TxsOf(blocks, Len(blocks)))
  /\ \A i \in 1..Len(blocks) : Distinct(blocks[i].txs)
  /\ \A i, j \in 1..Len(blocks) : i # j => ToSet(blocks[i].txs) \intersect ToSet(blocks[j].txs) = {}

LEMMA SyncedKeys ==
  ASSUME chain \in Seq(Block), UsedOnce, NEW w \in Stores, NEW lcb \in 0..(Len(chain) - 1),
         NEW bare, bare = RevertBlocks(RevertPool(w), lcb), NEW blocks \in Seq(Block),
         NEW r, r = FoldLeft(VerifyBlock, [w |-> bare, ok |-> TRUE, miner |-> Own], blocks), r.ok
  PROVE  SyncedTo(r, bare, w, lcb, blocks)
<1>1. PICK v \in Stores : /\ v = RevertPool(w) /\ v.pool = <<>>
                          /\ v.cache = EraseKeys(w.cache, ToSet(w.pool))
  BY PoolOffKeys
<1>2. bare \in Stores /\ bare.pool = v.pool /\ bare.cache = Rewound(v.cache, lcb + 2)
  BY <1>1, BlocksOffKeys
<1>3. PICK e \in Cache : e = v.cache /\ DOMAIN e = DOMAIN w.cache \ ToSet(w.pool)
  <2>1. v.cache \in Cache
    BY DEF Stores
  <2>2. DOMAIN v.cache = DOMAIN w.cache \ ToSet(w.pool)
    BY <1>1 DEF EraseKeys
  <2> QED BY <2>1, <2>2
<1>4. PICK d \in Cache : d = bare.cache
  BY <1>2 DEF Stores
<1>5. PICK s \in Verdict : s = [w |-> bare, ok |-> TRUE, miner |-> Own] /\ s.w = bare
  <2>1. [w |-> bare, ok |-> TRUE, miner |-> Own] \in Verdict
    BY <1>2, LedgerAssumption DEF Verdict
  <2> QED BY <2>1
<1>6. r \in Verdict /\ VerifiedBlocks(r, s, blocks, Len(blocks))
  BY <1>5, VerifyingBlocksKeys
<1>7. PICK T \in SUBSET Tx : T = TxsOf(blocks, Len(blocks))
  <2>1. ASSUME NEW i \in 1..Len(blocks)
        PROVE  blocks[i].txs \in Seq(Tx)
    <3>1. PICK b \in Block : b = blocks[i]
      OBVIOUS
    <3> QED BY <3>1 DEF Block
  <2>2. \A i \in 1..Len(blocks) : ToSet(blocks[i].txs) \subseteq Tx
    BY <2>1, SetInside
  <2> QED BY <2>2 DEF TxsOf
<1>8. /\ Fits(d, T) /\ r.w.cache = AddSet(d, T) /\ r.w.pool = bare.pool
      /\ \A i \in 1..Len(blocks) : Distinct(blocks[i].txs)
      /\ \A i, j \in 1..Len(blocks) : i # j => ToSet(blocks[i].txs) \intersect ToSet(blocks[j].txs) = {}
  BY <1>4, <1>5, <1>6, <1>7 DEF VerifiedBlocks
<1>9. DOMAIN AddSet(d, T) = DOMAIN d \union KeysOf(T)
  <2>1. Free(d, T) = T
    BY <1>8 DEF Free, Fits, KeysOf
  <2> QED BY <2>1, AddSetFields
<1>10. r.w \in Stores
  BY <1>6 DEF Verdict
<1> QED BY <1>1, <1>2, <1>3, <1>4, <1>7, <1>8, <1>9, <1>10 DEF SyncedTo

\* Blocks that may be received are well shaped, and their sets may be received.
LEMMA ReceivedFlows ==
  ASSUME NEW lcb \in Nat, NEW blocks \in Received(lcb)
  PROVE  /\ blocks \in Seq(Block) /\ Len(blocks) \in Nat
         /\ lcb + Len(blocks) <= MaxBlocks
         /\ TimeOf(lcb + Len(blocks)) <= now + NodesTimeShift
         /\ SetsOf(blocks) \in TF!Received
         /\ \A i \in 1..Len(blocks) : blocks[i].txs \in Seq(Complete)
<1>1. PICK n \in 1..MaxSync :
        /\ lcb + n <= MaxBlocks /\ TimeOf(lcb + n) <= now + NodesTimeShift
        /\ blocks \in [1..n -> [miner : Address, txs : ReceivedTxs]]
  BY DEF Received
<1>2. blocks \in Seq(Block) /\ Len(blocks) = n /\ n \in Nat
  <2>1. MaxSync \in Nat
    BY LedgerAssumption
  <2> QED BY <1>1, <2>1, ReceivedHold
<1>3. ASSUME NEW i \in 1..n
      PROVE  blocks[i].txs \in Seq(Complete)
  <2>1. blocks[i].txs \in ReceivedTxs
    BY <1>1
  <2>2. PICK S \in SUBSET Complete : blocks[i].txs \in SortedByCreation(S)
    BY <2>1 DEF ReceivedTxs
  <2>3. PICK q : q = blocks[i].txs
    OBVIOUS
  <2>4. q \in Seq(Tx) /\ ToSet(q) \subseteq S
    BY <2>2, <2>3, SortedOrders, LedgerAssumption
  <2>5. \A m \in 1..Len(q) : q[m] \in Complete
    BY <2>4 DEF ToSet
  <2>6. q = [m \in 1..Len(q) |-> q[m]]
    BY <2>4
  <2> QED BY <2>3, <2>4, <2>5, <2>6
<1>4. SetsOf(blocks) \in TF!Received
  <2>1. \A i \in 1..n : ToSet(blocks[i].txs) \subseteq Complete
    BY <1>3, SetInside, LedgerAssumption DEF ToSet
  <2>2. SetsOf(blocks) = [i \in 1..n |-> ToSet(blocks[i].txs)]
    BY <1>2 DEF SetsOf
  <2>3. SetsOf(blocks) \in [1..n -> SUBSET Complete]
    BY <2>1, <2>2
  <2> QED BY <1>1, <2>3 DEF TF!Received
<1> QED BY <1>1, <1>2, <1>3, <1>4

\* What comes to the pool when the blocks of a peer are on.
Returned(v, w, S) ==
  \E B : /\ B \subseteq {t \in S \ DOMAIN w.cache : now - NodesTimeShift <= Expiry[t]}
         /\ ToSet(v.pool) = B /\ DOMAIN v.cache = DOMAIN w.cache \union B

LEMMA ReturnedKeys ==
  ASSUME NEW w \in Stores, w.pool = <<>>, NEW q \in Seq(Tx), NEW S, ToSet(q) \subseteq S,
         NEW v, v = FoldLeft(Return, w, q) \/ v = w
  PROVE  Returned(v, w, S)
<1> USE DEF Returned
<1>1. ToSet(<<>>) = {}
  BY DEF ToSet
<1>2. CASE v = w
  BY <1>1, <1>2
<1>3. CASE v = FoldLeft(Return, w, q)
  <2>1. PICK B \in SUBSET {t \in ToSet(q) : now - NodesTimeShift <= Expiry[t] /\ t \notin DOMAIN w.cache} :
          Grown(v, w, B)
    BY <1>3, ReturningKeys
  <2>2. ToSet(v.pool) = B /\ DOMAIN v.cache = DOMAIN w.cache \union B
    BY <1>1, <2>1 DEF Grown
  <2>3. B \subseteq {t \in S \ DOMAIN w.cache : now - NodesTimeShift <= Expiry[t]}
    BY <2>1
  <2> QED BY <2>2, <2>3
<1> QED BY <1>2, <1>3

\* A sequence over a set is one over a larger set.
LEMMA SeqInLarger ==
  ASSUME NEW A, NEW B, A \subseteq B, NEW q \in Seq(A)
  PROVE  q \in Seq(B)
<1>1. PICK n \in Nat : n = Len(q)
  OBVIOUS
<1>2. q = [i \in 1..n |-> q[i]] /\ \A i \in 1..n : q[i] \in A
  BY <1>1
<1>3. \A i \in 1..n : q[i] \in B
  BY <1>2
<1> QED BY <1>2, <1>3

\* The blocks are well formed, and different, so the chain keeps its shape.
LEMMA SplicedShape ==
  ASSUME chain \in Seq(Block), ChainShape, NEW lcb \in 0..(Len(chain) - 1),
         NEW blocks \in Seq(Block),
         \A i \in 1..Len(blocks) : BlockShape(blocks[i]),
         chain' = SubSeq(chain, 1, lcb + 1) \o blocks
  PROVE  ChainShape'
<1>1. PICK p \in Seq(Block) : /\ p = SubSeq(chain, 1, lcb + 1) /\ Len(p) = lcb + 1
                              /\ \A i \in 1..(lcb + 1) : p[i] = chain[i] /\ i \in DOMAIN chain
  <2>1. lcb + 1 \in Nat /\ lcb + 1 <= Len(chain)
    OBVIOUS
  <2>2. SubSeq(chain, 1, lcb + 1) \in Seq(Block) /\ Len(SubSeq(chain, 1, lcb + 1)) = lcb + 1
    BY <2>1, SubSeqProperties
  <2>3. \A i \in 1..(lcb + 1) : SubSeq(chain, 1, lcb + 1)[i] = chain[i] /\ i \in DOMAIN chain
    BY <2>1
  <2> QED BY <2>2, <2>3
<1>2. PICK d \in Seq(Block) : d = p \o blocks /\ d = chain'
  <2>1. p \o blocks \in Seq(Block)
    BY ConcatProperties
  <2> QED BY <1>1, <2>1
<1>3. PICK l \in Nat : l = Len(blocks)
  OBVIOUS
<1>4. DOMAIN d = 1..(lcb + 1 + l)
  BY <1>1, <1>2, <1>3, ConcatProperties
<1>5. ASSUME NEW i \in 1..(lcb + 1)
      PROVE  d[i] = chain[i] /\ i \in DOMAIN chain
  <2>1. i \in 1..(Len(p) + Len(blocks)) /\ i <= Len(p)
    BY <1>1, <1>3
  <2> QED BY <1>1, <1>2, <2>1, ConcatProperties
<1>6. ASSUME NEW i \in (lcb + 2)..(lcb + 1 + l)
      PROVE  d[i] = blocks[i - (lcb + 1)] /\ i - (lcb + 1) \in 1..Len(blocks)
  <2>1. i \in 1..(Len(p) + Len(blocks)) /\ ~ (i <= Len(p)) /\ i - Len(p) = i - (lcb + 1)
    BY <1>1, <1>3
  <2> QED BY <1>1, <1>2, <1>3, <2>1, ConcatProperties
<1>7. ASSUME NEW i \in DOMAIN d
      PROVE  BlockShape(d[i])
  <2>1. i \in 1..(lcb + 1) \/ i \in (lcb + 2)..(lcb + 1 + l)
    BY <1>4
  <2>2. CASE i \in 1..(lcb + 1)
    BY <1>5, <2>2 DEF ChainShape
  <2>3. CASE i \in (lcb + 2)..(lcb + 1 + l)
    BY <1>6, <2>3
  <2> QED BY <2>1, <2>2, <2>3
<1>8. d[1] = GenesisBlock
  <2>1. 1 \in 1..(lcb + 1)
    OBVIOUS
  <2> QED BY <1>5, <2>1 DEF ChainShape
<1>9. chain'[1] = GenesisBlock /\ \A i \in DOMAIN chain' : BlockShape(chain'[i])
  BY <1>2, <1>7, <1>8
<1> QED BY <1>9 DEF ChainShape, GenesisBlock, BlockShape, Distinct, Sorted

\* What a node makes of the blocks of a peer: the chain and the stores.
Synced(lcb, blocks, more, r) ==
  /\ r = FoldLeft(VerifyBlock, [w |-> RevertBlocks(RevertPool(stores), lcb), ok |-> TRUE, miner |-> Own], blocks)
  /\ r.ok
  /\ \A i \in DOMAIN blocks : WellFormed(blocks[i], TimeOf(lcb + i))
  /\ chain' = SubSeq(chain, 1, lcb + 1) \o blocks
  /\ more => Len(blocks) >= InsertLength
  /\ \E q \in Seq(Removed(lcb + 2) \union (IF more THEN {} ELSE TF!Alive(now))) :
       stores' = FoldLeft(Return, r.w, q) \/ stores' = r.w

LEMMA SyncBlocksAre ==
  ASSUME FlowInv, NEW lcb \in 0..HeadNumber, SyncBlocks(lcb)
  PROVE  /\ lcb >= cleaned - MaxRewind /\ now' = now /\ cleaned' = cleaned
         /\ \E blocks \in Received(lcb), more \in BOOLEAN : \E r : Synced(lcb, blocks, more, r)
<1> DEFINE bare    == RevertBlocks(RevertPool(stores), lcb)
           removed == FlattenSeq([n \in 1..(HeadNumber - lcb) |-> chain[n + lcb + 1].txs])
           alive   == Those(stores.pool, {t \in Tx : now <= Expiry[t]})
           start   == [w |-> bare, ok |-> TRUE, miner |-> Own]
<1>1. PICK blocks \in Received(lcb) :
        LET verified == FoldLeft(VerifyBlock, start, blocks)
        IN  /\ \A i \in DOMAIN blocks : WellFormed(blocks[i], TimeOf(lcb + i))
            /\ verified.ok
            /\ chain' = SubSeq(chain, 1, lcb + 1) \o blocks
            /\ \E more \in BOOLEAN :
                 /\ more => Len(blocks) >= InsertLength
                 /\ stores' = IF Len(chain') < FreezeBefore
                              THEN FoldLeft(Return, verified.w,
                                            removed \o (IF more THEN <<>> ELSE alive))
                              ELSE verified.w
  BY DEF SyncBlocks
<1>2. PICK r : r = FoldLeft(VerifyBlock, start, blocks)
  OBVIOUS
<1>3. PICK more \in BOOLEAN :
        /\ more => Len(blocks) >= InsertLength
        /\ stores' = IF Len(chain') < FreezeBefore
                     THEN FoldLeft(Return, r.w, removed \o (IF more THEN <<>> ELSE alive))
                     ELSE r.w
  BY <1>1, <1>2
<1>4. removed \in Seq(Removed(lcb + 2))
  <2>1. lcb \in 0..(Len(chain) - 1) /\ chain \in Seq(Block)
    BY FlowFacts
  <2> QED BY <2>1, RemovedTxs
<1>5. alive \in Seq(TF!Alive(now))
  <2>1. PICK p \in Seq(Tx) : p = stores.pool
    BY FlowFacts
  <2>2. Those(p, {t \in Tx : now <= Expiry[t]}) \in Seq(ToSet(p) \intersect {t \in Tx : now <= Expiry[t]})
    BY ThoseAreThere
  <2>3. ToSet(p) \intersect {t \in Tx : now <= Expiry[t]} = TF!Alive(now)
    BY <2>1, SetInside DEF TF!Alive, Pooled
  <2> QED BY <2>1, <2>2, <2>3
<1>6. PICK A : A = Removed(lcb + 2) \union (IF more THEN {} ELSE TF!Alive(now))
  OBVIOUS
<1>7. \E q \in Seq(A) : stores' = FoldLeft(Return, r.w, q) \/ stores' = r.w
  <2>1. PICK x : x = removed
    OBVIOUS
  <2>2. PICK y : y = IF more THEN <<>> ELSE alive
    OBVIOUS
  <2>3. x \in Seq(A)
    <3>1. x \in Seq(Removed(lcb + 2)) /\ Removed(lcb + 2) \subseteq A
      BY <1>4, <1>6, <2>1
    <3> QED BY <3>1, SeqInLarger
  <2>4. y \in Seq(A)
    <3>1. CASE more
      <4>1. y = <<>>
        BY <2>2, <3>1
      <4> QED BY <4>1
    <3>2. CASE ~ more
      <4>1. y \in Seq(TF!Alive(now))
        BY <1>5, <2>2, <3>2
      <4>2. TF!Alive(now) \subseteq A
        BY <1>6, <3>2
      <4> QED BY <4>1, <4>2, SeqInLarger
    <3> QED BY <3>1, <3>2
  <2>5. PICK q \in Seq(A) : q = x \o y
    <3>1. x \o y \in Seq(A)
      BY <2>3, <2>4, ConcatProperties
    <3> QED BY <3>1
  <2>6. stores' = FoldLeft(Return, r.w, q) \/ stores' = r.w
    BY <1>3, <2>1, <2>2, <2>5
  <2> QED BY <2>6
<1>8. Synced(lcb, blocks, more, r)
  <2> HIDE DEF removed, alive
  <2> QED BY <1>1, <1>2, <1>3, <1>6, <1>7 DEF Synced
<1> HIDE DEF start, removed, alive, bare
<1> QED BY <1>8 DEF SyncBlocks

LEMMA SyncBlocksFlows ==
  ASSUME FlowInv, NEW lcb \in 0..HeadNumber, SyncBlocks(lcb)
  PROVE  /\ \E blocks \in TF!Received, more \in BOOLEAN : TF!SyncBlocks(lcb, blocks, more)
         /\ ChainShape'
<1>1. /\ lcb >= cleaned - MaxRewind /\ now' = now /\ cleaned' = cleaned
      /\ \E blocks \in Received(lcb), more \in BOOLEAN : \E r : Synced(lcb, blocks, more, r)
  BY SyncBlocksAre
<1>2. PICK blocks \in Received(lcb), more \in BOOLEAN : \E r : Synced(lcb, blocks, more, r)
  BY <1>1
<1>3. PICK r : Synced(lcb, blocks, more, r)
  BY <1>2
<1>4. lcb \in Nat /\ lcb \in 0..(Len(chain) - 1) /\ chain \in Seq(Block) /\ UsedOnce
  BY FlowFacts
<1>5. /\ blocks \in Seq(Block) /\ Len(blocks) \in Nat
      /\ lcb + Len(blocks) <= MaxBlocks
      /\ TimeOf(lcb + Len(blocks)) <= now + NodesTimeShift
      /\ SetsOf(blocks) \in TF!Received
      /\ \A i \in 1..Len(blocks) : blocks[i].txs \in Seq(Complete)
  BY <1>4, ReceivedFlows
<1>6. PICK w \in Stores : w = stores
  BY FlowFacts
<1>7. PICK bare : bare = RevertBlocks(RevertPool(w), lcb)
  OBVIOUS
<1>8. SyncedTo(r, bare, w, lcb, blocks)
  <2>1. r = FoldLeft(VerifyBlock, [w |-> bare, ok |-> TRUE, miner |-> Own], blocks) /\ r.ok
    BY <1>3, <1>6, <1>7 DEF Synced
  <2> QED BY <1>4, <1>5, <1>7, <2>1, SyncedKeys
<1>9. PICK B2 \in Seq(SUBSET Tx) : /\ B2 = SetsOf(blocks) /\ DOMAIN B2 = 1..Len(blocks) /\ Len(B2) = Len(blocks)
                                   /\ \A i \in 1..Len(blocks) : B2[i] = ToSet(blocks[i].txs)
  BY <1>5, SetsFields
<1>10. PICK T : T = TxsOf(blocks, Len(blocks))
  OBVIOUS
<1>11. UNION {B2[i] : i \in DOMAIN B2} = T
  BY <1>9, <1>10 DEF TxsOf
<1>12. PICK e \in Cache : DOMAIN e = Cached \ Pooled /\ bare.cache = Rewound(e, lcb + 2)
  BY <1>6, <1>8 DEF SyncedTo, Cached, Pooled
<1>13. PICK K : K = TF!RewoundCache(lcb) /\ K = DOMAIN bare.cache
  BY <1>12, RewoundKeys
<1>14. KeysDisjoint(T) /\ KeysOf(T) \intersect K = {}
  BY <1>8, <1>10, <1>13 DEF SyncedTo, Fits
<1>15. PICK R : R = Removed(lcb + 2)
  OBVIOUS
<1>16. UNION {Sets[i] : i \in (lcb + 2)..Len(Sets)} = R
  <2>1. \A i \in (lcb + 2)..Len(Sets) : Sets[i] = Txs(i)
    <3>1. ASSUME NEW i \in (lcb + 2)..Len(Sets)
          PROVE  Sets[i] = Txs(i)
      <4>1. i \in DOMAIN chain
        BY <1>4, FlowFacts
      <4> QED BY <4>1, FlowFacts
    <3> QED BY <3>1
  <2>2. Len(Sets) = Len(chain)
    BY FlowFacts
  <2> QED BY <1>15, <2>1, <2>2 DEF Removed
<1>17. PICK P : P = IF more THEN {} ELSE TF!Alive(now)
  OBVIOUS
<1>18. PICK q \in Seq(Tx) : ToSet(q) \subseteq R \union P /\ (stores' = FoldLeft(Return, r.w, q) \/ stores' = r.w)
  <2>1. PICK q \in Seq(R \union P) : stores' = FoldLeft(Return, r.w, q) \/ stores' = r.w
    BY <1>3, <1>15, <1>17 DEF Synced
  <2>2. R \union P \subseteq Tx
    <3>1. R \in SUBSET Tx
      BY <1>4, <1>15, RemovedTxs
    <3>2. TF!Alive(now) \subseteq Tx
      BY FlowFacts DEF TF!Alive
    <3> QED BY <1>17, <3>1, <3>2
  <2>3. q \in Seq(Tx)
    BY <2>2, SeqInLarger
  <2>4. ToSet(q) \subseteq R \union P
    BY SetInside
  <2> QED BY <2>1, <2>3, <2>4
<1>19. PICK B : /\ B \subseteq {t \in (R \union P) \ (K \union KeysOf(T)) : now - NodesTimeShift <= Expiry[t]}
                /\ Pooled' = B /\ Cached' = K \union KeysOf(T) \union B
  <2>1. PICK x \in Stores : x = r.w /\ x.pool = <<>> /\ DOMAIN x.cache = K \union KeysOf(T)
    BY <1>8, <1>10, <1>13 DEF SyncedTo
  <2>2. PICK v : v = stores'
    OBVIOUS
  <2>3. PICK S : S = R \union P
    OBVIOUS
  <2>4. v = FoldLeft(Return, x, q) \/ v = x
    BY <1>18, <2>1, <2>2
  <2>5. PICK B : /\ B \subseteq {t \in S \ DOMAIN x.cache : now - NodesTimeShift <= Expiry[t]}
                 /\ ToSet(v.pool) = B /\ DOMAIN v.cache = DOMAIN x.cache \union B
    <3>1. Returned(v, x, S)
      BY <1>18, <2>1, <2>3, <2>4, ReturnedKeys
    <3> QED BY <3>1 DEF Returned
  <2> QED BY <2>1, <2>2, <2>3, <2>5 DEF Pooled, Cached
<1>20. /\ \A i \in DOMAIN blocks : WellFormed(blocks[i], TimeOf(lcb + i))
       /\ chain' = SubSeq(chain, 1, lcb + 1) \o blocks
       /\ more => Len(blocks) >= InsertLength
  BY <1>3 DEF Synced
<1>21. \A i \in DOMAIN B2 : \A t \in B2[i] : TF!ValidAt(t, TF!TimeOf(lcb + i), 0)
  <2>1. ASSUME NEW i \in 1..Len(blocks), NEW t \in ToSet(blocks[i].txs)
        PROVE  ValidAt(t, TimeOf(lcb + i), 0)
    <3>1. i \in DOMAIN blocks
      BY <1>5
    <3>2. PICK n \in DOMAIN blocks[i].txs : t = blocks[i].txs[n]
      BY DEF ToSet
    <3> QED BY <1>20, <3>1, <3>2 DEF WellFormed
  <2> QED BY <1>9, <2>1, SameWords
<1>22. \A i, j \in DOMAIN B2 : i # j => B2[i] \intersect B2[j] = {}
  <2>1. \A i, j \in 1..Len(blocks) :
          i # j => ToSet(blocks[i].txs) \intersect ToSet(blocks[j].txs) = {}
    BY <1>8 DEF SyncedTo
  <2>2. ASSUME NEW i \in 1..Len(blocks), NEW j \in 1..Len(blocks), i # j
        PROVE  B2[i] \intersect B2[j] = {}
    <3>1. B2[i] = ToSet(blocks[i].txs) /\ B2[j] = ToSet(blocks[j].txs)
      BY <1>9
    <3> QED BY <2>1, <2>2, <3>1
  <2> QED BY <1>9, <2>2
<1>23. Sets' = SubSeq(Sets, 1, lcb + 1) \o B2
  <2>1. PICK n \in 0..Len(chain) : n = lcb + 1
    BY <1>4
  <2>2. PICK p \in Seq(Block) : p = SubSeq(chain, 1, n)
    <3>1. SubSeq(chain, 1, n) \in Seq(Block)
      BY <1>4, <2>1, SubSeqProperties
    <3> QED BY <3>1
  <2>3. GenesisBlock \in Block
    BY LedgerAssumption DEF GenesisBlock, Block
  <2>4. SetsOf(p) = SubSeq(SetsOf(chain), 1, n)
    BY <1>4, <2>2, <2>3, SetsTogether
  <2>5. 0 \in 0..Len(p)
    OBVIOUS
  <2>6. SetsOf(p \o blocks) = SetsOf(p) \o SetsOf(blocks)
    BY <1>5, <2>3, <2>5, SetsTogether
  <2>7. chain' = p \o blocks
    BY <1>20, <2>1, <2>2
  <2> QED BY <1>9, <2>1, <2>4, <2>6, <2>7 DEF Sets
<1>24. TF!SyncBlocks(lcb, B2, more)
  <2>1. lcb + Len(B2) <= MaxBlocks /\ TF!TimeOf(lcb + Len(B2)) <= now + NodesTimeShift
    BY <1>5, <1>9, SameWords
  <2>2. more => Len(B2) >= InsertLength
    BY <1>9, <1>20
  <2>3. TF!KeysDisjoint(T) /\ TF!KeysOf(T) \intersect K = {}
    BY <1>14, SameWords
  <2>4. /\ B \in SUBSET {t \in (R \union P) \ (K \union TF!KeysOf(T)) : now - NodesTimeShift <= Expiry[t]}
        /\ Pooled' = B /\ Cached' = K \union TF!KeysOf(T) \union B
    BY <1>19, SameWords
  <2> HIDE DEF TF!KeysOf, TF!KeysDisjoint, TF!RewoundCache, TF!Alive, TF!ValidAt, TF!TimeOf
  <2> QED BY <1>1, <1>11, <1>13, <1>16, <1>17, <1>21, <1>22, <1>23, <2>1, <2>2, <2>3, <2>4
          DEF TF!SyncBlocks
<1>25. ChainShape'
  <2>1. ASSUME NEW i \in 1..Len(blocks)
        PROVE  BlockShape(blocks[i])
    <3>1. i \in DOMAIN blocks
      BY <1>5
    <3>2. WellFormed(blocks[i], TimeOf(lcb + i))
      BY <1>20, <3>1
    <3>3. Distinct(blocks[i].txs)
      BY <1>8 DEF SyncedTo
    <3>4. Sorted(blocks[i].txs) /\ Len(blocks[i].txs) <= BlockMax
      BY <3>2 DEF WellFormed, Sorted
    <3> QED BY <1>5, <3>3, <3>4 DEF BlockShape
  <2>2. ChainShape
    BY DEF FlowInv
  <2> QED BY <1>4, <1>5, <1>20, <2>1, <2>2, SplicedShape
<1> QED BY <1>5, <1>9, <1>24, <1>25

-----------------------------------------------------------------------------
(* Ledger implements TransactionFlow *)

LEMMA FlowSteps ==
  ASSUME FlowInv, [Next]_vars
  PROVE  [TF!Next]_TF!vars /\ ChainShape'
<1>1. CASE \E t \in Tx : Receive(t)
  BY <1>1, ReceiveFlows DEF TF!Next
<1>2. CASE MineBlock
  BY <1>2, MineBlockFlows DEF TF!Next
<1>3. CASE \E lcb \in 0..HeadNumber : SyncBlocks(lcb)
  <2>1. PICK lcb \in 0..HeadNumber : SyncBlocks(lcb)
    BY <1>3
  <2>2. lcb \in 0..TF!HeadNumber
    BY FlowFacts
  <2> QED BY <2>1, <2>2, SyncBlocksFlows DEF TF!Next
<1>4. CASE CleanCache
  BY <1>4, CleanCacheFlows DEF TF!Next
<1>5. CASE Restart
  BY <1>5, RestartFlows DEF TF!Next
<1>6. CASE \E count \in 1..HeadNumber : RevertLastBlocks(count)
  <2>1. PICK count \in 1..HeadNumber : RevertLastBlocks(count)
    BY <1>6
  <2>2. count \in 1..TF!HeadNumber
    BY FlowFacts
  <2> QED BY <2>1, <2>2, RevertLastBlocksFlows DEF TF!Next
<1>7. CASE Tick \/ UNCHANGED vars
  BY <1>7, TickFlows DEF TF!Next
<1> QED BY <1>1, <1>2, <1>3, <1>4, <1>5, <1>6, <1>7 DEF Next

LEMMA FlowStarts ==
  ASSUME Init
  PROVE  FlowInv /\ TF!Init
<1>1. CoinsInv
  BY CoinsAtTheStart
<1>2. chain = <<GenesisBlock>> /\ stores.pool = <<>> /\ DOMAIN stores.cache = {} /\ now = 0 /\ cleaned = 0
  BY DEF Init
<1>3. GenesisBlock.txs = <<>> /\ ToSet(<<>>) = {}
  BY DEF GenesisBlock, ToSet
<1>4. Sets = <<{}>>
  BY <1>2, <1>3 DEF Sets, SetsOf
<1>5. TF!Init
  BY <1>2, <1>3, <1>4 DEF TF!Init, Pooled, Cached
<1>6. TF!UsedOnceInv
  BY <1>5, TF!UsedOnceStarts, LedgerAssumption, FormsAssumption
<1>7. ChainShape
  <2>1. BlockShape(GenesisBlock)
    BY <1>3, LedgerAssumption DEF BlockShape, Distinct, Sorted
  <2>2. DOMAIN chain = {1} /\ chain[1] = GenesisBlock
    BY <1>2
  <2> QED BY <2>1, <2>2 DEF ChainShape
<1> QED BY <1>1, <1>5, <1>6, <1>7 DEF FlowInv

LEMMA FlowInvHolds ==
  ASSUME TF!RewindsCovered, FlowInv, [Next]_vars
  PROVE  FlowInv' /\ [TF!Next]_TF!vars
<1>1. [TF!Next]_TF!vars /\ ChainShape'
  BY FlowSteps
<1>2. TF!UsedOnceInv'
  BY <1>1, TF!UsedOnceSteps, LedgerAssumption, FormsAssumption DEF FlowInv
<1>3. CoinsInv'
  BY CoinsInvHolds DEF FlowInv
<1> QED BY <1>1, <1>2, <1>3 DEF FlowInv

\* The two instances of TransactionFlow are one.
LEMMA SameFlow ==
  /\ TF!Init <=> Flow!Init
  /\ [TF!Next]_TF!vars <=> [Flow!Next]_Flow!vars
  /\ TF!RewindsCovered <=> Flow!RewindsCovered
<1>1. TF!Init <=> Flow!Init
  BY DEF TF!Init, Flow!Init, Sets, SetsOf, Pooled, Cached
<1>2. TF!vars = Flow!vars /\ TF!vars' = Flow!vars'
  BY DEF TF!vars, Flow!vars, Sets, SetsOf, Pooled, Cached
<1>3. TF!RewindsCovered <=> Flow!RewindsCovered
  BY DEF TF!RewindsCovered, Flow!RewindsCovered, TF!Lifetime, Flow!Lifetime
<1>4. TF!Next <=> Flow!Next
  BY DEF TF!Next, Flow!Next, Sets, SetsOf, Pooled, Cached,
         TF!Receive, Flow!Receive, TF!MineBlock, Flow!MineBlock, TF!SyncBlocks, Flow!SyncBlocks,
         TF!CleanCache, Flow!CleanCache, TF!Restart, Flow!Restart,
         TF!RevertLastBlocks, Flow!RevertLastBlocks, TF!Tick, Flow!Tick,
         TF!Received, Flow!Received, TF!HeadNumber, Flow!HeadNumber, TF!HeadTime, Flow!HeadTime,
         TF!TimeOf, Flow!TimeOf, TF!Lifetime, Flow!Lifetime, TF!ValidAt, Flow!ValidAt,
         TF!Keys, Flow!Keys, TF!KeysOf, Flow!KeysOf, TF!KeysDisjoint, Flow!KeysDisjoint,
         TF!Alive, Flow!Alive, TF!Merged, Flow!Merged, TF!RewoundCache, Flow!RewoundCache,
         TF!LoadSucceeds, Flow!LoadSucceeds, TF!LoadedKeys, Flow!LoadedKeys,
         TF!RecentIndices, Flow!RecentIndices
<1> QED BY <1>1, <1>2, <1>3, <1>4

\* Every step of the handlers, in the sets of transactions of the chain, of the
\* pool and of the cache, is a step that TransactionFlow allows, so what is
\* proved of TransactionFlow is proved of the node.
THEOREM LedgerImplementsFlow == Flow!RewindsCovered => (Spec => ImplementsFlow)
<1> SUFFICES ASSUME Flow!RewindsCovered
             PROVE  Spec => ImplementsFlow
  OBVIOUS
<1>1. Init => FlowInv /\ Flow!Init
  BY FlowStarts, SameFlow
<1>2. FlowInv /\ [Next]_vars => FlowInv' /\ [Flow!Next]_Flow!vars
  BY FlowInvHolds, SameFlow
<1> QED BY <1>1, <1>2, PTL DEF Spec, ImplementsFlow, Flow!Spec
=============================================================================
