--------------------------- MODULE CatalogueProofs ---------------------------
(***************************************************************************)
(* Proofs about Authority and Catalogue, for every finite set of           *)
(* transactions and of accounts and every value of the other constants:    *)
(*                                                                         *)
(*   UndoneUpdateIsGone    an authorization update that is applied can be  *)
(*                         undone, and then the authorities are the ones   *)
(*                         before                                          *)
(*   TypesHold             nobody is overdrawn, and what a document names  *)
(*                         is there                                        *)
(*   StoresAreAReplay      the stores are those of the chain and the pool  *)
(*   HeadComesOff          the last block can always be taken off          *)
(*   EmissionIsAlwaysPaid  a block pays its emission whole                 *)
(*   SomebodyAlwaysDecides no account is ever without somebody who may     *)
(*                         change its authorizations                       *)
(*   MinedIsAccepted       what the node mines a peer takes over           *)
(*                                                                         *)
(* An action may be undone only as the last one, and nothing in the code   *)
(* checks that it is.  So the stores are accounted for from the genesis    *)
(* block on, by "books": what transactions make of the stores, without the *)
(* pool and the requests.  BooksInv says that the blocks of the chain lead *)
(* from the first book to one, the transactions of the pool from there to  *)
(* another, and that the stores keep that one.  Undoing the pool or a      *)
(* block goes back along the same books.                                   *)
(*                                                                         *)
(* A block is taken off only if its rewards are computed as they were, so  *)
(* a book holds what rewards rest on: each file of a unit and each peer of *)
(* a report is there.  What is paid comes down to sums over views and over *)
(* shares, and to divisions that round down.                               *)
(***************************************************************************)
EXTENDS Catalogue, Induction, SequenceTheorems

-----------------------------------------------------------------------------
(* The form of a store *)

AuthRecord == {r \in [full : BOOLEAN, kinds : SUBSET Kind] : r.full => r.kinds = {}}
AuthEntry == UNION {[D -> AuthRecord] : D \in SUBSET Address}

\* An entry has its owner, no other record that is the default, and is not the
\* default itself.
Needed(entry, owner) ==
  /\ owner \in DOMAIN entry
  /\ \A a \in DOMAIN entry : a # owner => entry[a] # Nothing
  /\ entry # OwnerOnly(owner)

AuthStore ==
  {s \in UNION {[D -> AuthEntry] : D \in SUBSET Address} :
     \A o \in DOMAIN s : Needed(s[o], o)}

LEMMA EntryType ==
  ASSUME NEW s \in AuthStore, NEW o \in DOMAIN s
  PROVE  /\ s[o] \in AuthEntry
         /\ DOMAIN s[o] \in SUBSET Address
         /\ s[o] \in [DOMAIN s[o] -> AuthRecord]
         /\ Needed(s[o], o)
<1>1. s[o] \in AuthEntry /\ Needed(s[o], o)
  BY DEF AuthStore
<1>2. PICK e : e = s[o]
  OBVIOUS
<1>3. PICK D \in SUBSET Address : e \in [D -> AuthRecord]
  BY <1>1, <1>2 DEF AuthEntry
<1>4. DOMAIN e = D
  BY <1>3
<1> QED BY <1>1, <1>2, <1>3, <1>4

LEMMA DefaultType ==
  ASSUME NEW o, NEW a
  PROVE  Default(o, a) \in AuthRecord /\ Full \in AuthRecord /\ Nothing \in AuthRecord
BY DEF Default, Full, Nothing, AuthRecord

LEMMA RecordType ==
  ASSUME NEW s \in AuthStore, NEW o, NEW a
  PROVE  Record(s, o, a) \in AuthRecord
BY EntryType, DefaultType DEF Record

\* Two stores with the same records are the same.
LEMMA SameRecords ==
  ASSUME NEW s \in AuthStore, NEW v \in AuthStore,
         \A o, a \in Address : Record(s, o, a) = Record(v, o, a)
  PROVE  s = v
<1>1. ASSUME NEW x \in AuthStore, NEW y \in AuthStore,
             \A o, a \in Address : Record(x, o, a) = Record(y, o, a),
             NEW o \in DOMAIN x
      PROVE  o \in DOMAIN y
  <2> SUFFICES ASSUME o \notin DOMAIN y PROVE FALSE
    OBVIOUS
  <2>1. PICK e \in AuthEntry : e = x[o]
    BY EntryType
  <2>2. /\ DOMAIN e \in SUBSET Address /\ e \in [DOMAIN e -> AuthRecord]
        /\ Needed(e, o)
    BY <2>1, EntryType
  <2>3. o \in Address /\ \A a \in Address : Record(x, o, a) = Default(o, a)
    BY <1>1, <2>2 DEF Record, Needed
  <2>4. \A a \in DOMAIN e : e[a] = Default(o, a)
    BY <2>1, <2>2, <2>3 DEF Record
  <2>5. DOMAIN e = {o} /\ e[o] = Full
    BY <2>2, <2>4 DEF Needed, Default
  <2>6. e = [a \in {o} |-> Full]
    BY <2>2, <2>5
  <2> QED BY <2>2, <2>6 DEF Needed, OwnerOnly
<1>2. DOMAIN s = DOMAIN v
  BY <1>1
<1>3. ASSUME NEW x \in AuthStore, NEW y \in AuthStore,
             \A o, a \in Address : Record(x, o, a) = Record(y, o, a),
             NEW o \in DOMAIN x, o \in DOMAIN y, NEW a \in DOMAIN x[o]
      PROVE  a \in DOMAIN y[o] /\ x[o][a] = y[o][a]
  <2>1. /\ DOMAIN x[o] \in SUBSET Address /\ Needed(x[o], o) /\ Needed(y[o], o)
        /\ DOMAIN y[o] \in SUBSET Address
    BY <1>3, EntryType
  <2>2. a \in Address /\ o \in Address /\ x[o][a] = Record(y, o, a)
    BY <1>3, <2>1 DEF Record, Needed
  <2>3. a \in DOMAIN y[o]
    <3>1. CASE a = o
      BY <2>1, <3>1 DEF Needed
    <3>2. CASE a # o
      BY <1>3, <2>1, <2>2, <3>2 DEF Needed, Record, Default
    <3> QED BY <3>1, <3>2
  <2> QED BY <1>3, <2>2, <2>3 DEF Record
<1>4. ASSUME NEW o \in DOMAIN s
      PROVE  s[o] = v[o]
  <2>1. o \in DOMAIN v
    BY <1>2
  <2>2. DOMAIN s[o] = DOMAIN v[o] /\ \A a \in DOMAIN s[o] : s[o][a] = v[o][a]
    BY <1>3, <2>1
  <2>3. s[o] \in [DOMAIN s[o] -> AuthRecord] /\ v[o] \in [DOMAIN v[o] -> AuthRecord]
    BY <2>1, EntryType
  <2> QED BY <2>2, <2>3
<1>5. s = [o \in DOMAIN s |-> s[o]] /\ v = [o \in DOMAIN v |-> v[o]]
  BY DEF AuthStore
<1> QED BY <1>2, <1>4, <1>5

-----------------------------------------------------------------------------
(* One record changes *)

\* The dummy record changes nothing that is read.
LEMMA DummyEntry ==
  ASSUME NEW s \in AuthStore, NEW o \in Address, NEW a \in Address
  PROVE  \E e : /\ WithDummy(s, o, a) = With(s, o, e)
                /\ DOMAIN e \in SUBSET Address /\ e \in [DOMAIN e -> AuthRecord]
                /\ o \in DOMAIN e /\ a \in DOMAIN e
                /\ e[a] = Record(s, o, a)
                /\ \A b \in Address \ {a} :
                     /\ b \in DOMAIN e => e[b] = Record(s, o, b)
                     /\ b \in DOMAIN e /\ b # o => e[b] # Nothing
                     /\ b \notin DOMAIN e => Record(s, o, b) = Nothing
<1> DEFINE entry == IF o \in DOMAIN s THEN s[o] ELSE OwnerOnly(o)
<1>1. PICK e0 : e0 = entry
  OBVIOUS
<1>2. /\ DOMAIN e0 \in SUBSET Address /\ e0 \in [DOMAIN e0 -> AuthRecord]
      /\ o \in DOMAIN e0
      /\ \A b \in DOMAIN e0 : b # o => e0[b] # Nothing
      /\ \A b \in Address : Record(s, o, b) = IF b \in DOMAIN e0 THEN e0[b] ELSE Default(o, b)
  <2>1. CASE o \in DOMAIN s
    BY <1>1, <2>1, EntryType DEF Needed, Record
  <2>2. CASE o \notin DOMAIN s
    <3>1. e0 = [b \in {o} |-> Full]
      BY <1>1, <2>2 DEF OwnerOnly
    <3>2. \A b \in Address : Record(s, o, b) = Default(o, b)
      BY <2>2 DEF Record
    <3> QED BY <3>1, <3>2, DefaultType DEF Default
  <2> QED BY <2>1, <2>2
<1>3. PICK e : e = IF a \in DOMAIN e0 THEN e0 ELSE With(e0, a, Default(o, a))
  OBVIOUS
<1>4. WithDummy(s, o, a) = With(s, o, e)
  BY <1>1, <1>3 DEF WithDummy
<1>5. CASE a \in DOMAIN e0
  <2>1. e = e0
    BY <1>3, <1>5
  <2> QED BY <1>2, <1>4, <1>5, <2>1 DEF Default
<1>6. CASE a \notin DOMAIN e0
  <2>1. e = [b \in DOMAIN e0 \union {a} |-> IF b = a THEN Default(o, a) ELSE e0[b]]
    BY <1>3, <1>6 DEF With
  <2>2. /\ DOMAIN e = DOMAIN e0 \union {a} /\ e[a] = Default(o, a)
        /\ \A b \in DOMAIN e0 : e[b] = e0[b]
    BY <1>6, <2>1
  <2>3. e \in [DOMAIN e -> AuthRecord]
    BY <1>2, <2>1, <2>2, DefaultType
  <2>4. Record(s, o, a) = Default(o, a)
    BY <1>2, <1>6
  <2>5. \A b \in Address \ {a} : b \in DOMAIN e <=> b \in DOMAIN e0
    BY <2>2
  <2>6. \A b \in Address \ {a} : b \notin DOMAIN e0 => Record(s, o, b) = Nothing
    BY <1>2 DEF Default
  <2> QED BY <1>2, <1>4, <2>2, <2>3, <2>4, <2>5, <2>6
<1> QED BY <1>5, <1>6

\* One entry is replaced, or dropped.
LEMMA StoreOfEntries ==
  ASSUME NEW s \in AuthStore, NEW o \in Address, NEW e \in AuthEntry, NEW x,
         \/ x = With(s, o, e) /\ Needed(e, o)
         \/ x = Without(s, o)
  PROVE  x \in AuthStore
<1>1. PICK D \in SUBSET Address : s \in [D -> AuthEntry] /\ \A p \in D : Needed(s[p], p)
  BY DEF AuthStore
<1>2. CASE x = With(s, o, e) /\ Needed(e, o)
  <2>1. x = [p \in D \union {o} |-> IF p = o THEN e ELSE s[p]]
    BY <1>1, <1>2 DEF With
  <2>2. x \in [D \union {o} -> AuthEntry] /\ D \union {o} \in SUBSET Address
    BY <1>1, <2>1
  <2>3. DOMAIN x = D \union {o} /\ \A p \in DOMAIN x : x[p] = IF p = o THEN e ELSE s[p]
    BY <2>1
  <2>4. \A p \in DOMAIN x : Needed(x[p], p)
    BY <1>1, <1>2, <2>3
  <2> QED BY <2>2, <2>4 DEF AuthStore
<1>3. CASE x = Without(s, o)
  <2>1. x = [p \in D \ {o} |-> s[p]]
    BY <1>1, <1>3 DEF Without
  <2>2. x \in [D \ {o} -> AuthEntry] /\ D \ {o} \in SUBSET Address
    BY <1>1, <2>1
  <2>3. DOMAIN x = D \ {o} /\ \A p \in DOMAIN x : x[p] = s[p]
    BY <2>1
  <2>4. \A p \in DOMAIN x : Needed(x[p], p)
    BY <1>1, <2>3
  <2> QED BY <2>2, <2>4 DEF AuthStore
<1> QED BY <1>2, <1>3

\* What the store that is cleaned says of each record.
Changed(s, o, a, r, x) ==
  /\ x \in AuthStore
  /\ Record(x, o, a) = r
  /\ \A p, b \in Address : p # o \/ b # a => Record(x, p, b) = Record(s, p, b)

LEMMA CleanedChanges ==
  ASSUME NEW s \in AuthStore, NEW o \in Address, NEW a \in Address, NEW r \in AuthRecord
  PROVE  Changed(s, o, a, r, Cleaned([WithDummy(s, o, a) EXCEPT ![o][a] = r], o, a))
<1>1. PICK e1 : /\ WithDummy(s, o, a) = With(s, o, e1)
                /\ DOMAIN e1 \in SUBSET Address /\ e1 \in [DOMAIN e1 -> AuthRecord]
                /\ o \in DOMAIN e1 /\ a \in DOMAIN e1
                /\ \A b \in Address \ {a} :
                     /\ b \in DOMAIN e1 => e1[b] = Record(s, o, b)
                     /\ b \in DOMAIN e1 /\ b # o => e1[b] # Nothing
                     /\ b \notin DOMAIN e1 => Record(s, o, b) = Nothing
  BY DummyEntry
<1>2. PICK e2 : e2 = [e1 EXCEPT ![a] = r]
  OBVIOUS
<1>3. /\ DOMAIN e2 = DOMAIN e1 /\ e2 \in [DOMAIN e1 -> AuthRecord]
      /\ e2[a] = r /\ \A b \in DOMAIN e1 : b # a => e2[b] = e1[b]
  BY <1>1, <1>2
<1>4. PICK d : d = [WithDummy(s, o, a) EXCEPT ![o][a] = r]
  OBVIOUS
<1>5. d = With(s, o, e2) /\ d[o] = e2
  <2>1. PICK v : v = With(s, o, e1)
    OBVIOUS
  <2>2. v = [p \in DOMAIN s \union {o} |-> IF p = o THEN e1 ELSE s[p]]
    BY <2>1 DEF With
  <2>3. v[o] = e1 /\ DOMAIN v = DOMAIN s \union {o}
    BY <2>2
  <2>4. d = [v EXCEPT ![o] = e2]
    BY <1>1, <1>2, <1>4, <2>1, <2>3
  <2>5. d = [p \in DOMAIN s \union {o} |-> IF p = o THEN e2 ELSE s[p]]
    BY <2>2, <2>3, <2>4
  <2> QED BY <2>5 DEF With
<1>6. PICK e : e = IF a # o /\ r = Nothing THEN Without(e2, a) ELSE e2
  OBVIOUS
<1>7. /\ e \in AuthEntry /\ DOMAIN e \in SUBSET Address /\ o \in DOMAIN e
      /\ e \in [DOMAIN e -> AuthRecord]
      /\ (a \in DOMAIN e <=> ~ (a # o /\ r = Nothing))
      /\ a \in DOMAIN e => e[a] = r
      /\ \A b \in Address \ {a} : /\ b \in DOMAIN e <=> b \in DOMAIN e1
                                  /\ b \in DOMAIN e => e[b] = e1[b]
  <2>1. CASE a # o /\ r = Nothing
    <3>1. e = [b \in DOMAIN e1 \ {a} |-> e2[b]]
      BY <1>3, <1>6, <2>1 DEF Without
    <3>2. DOMAIN e = DOMAIN e1 \ {a} /\ e \in [DOMAIN e1 \ {a} -> AuthRecord]
      BY <1>3, <3>1
    <3> QED BY <1>1, <1>3, <2>1, <3>1, <3>2 DEF AuthEntry
  <2>2. CASE ~ (a # o /\ r = Nothing)
    <3>1. e = e2
      BY <1>6, <2>2
    <3> QED BY <1>1, <1>3, <2>2, <3>1 DEF AuthEntry
  <2> QED BY <2>1, <2>2
<1>8. \A b \in DOMAIN e : b # o => e[b] # Nothing
  BY <1>1, <1>7
<1>9. \A b \in Address : (IF b \in DOMAIN e THEN e[b] ELSE Default(o, b))
                           = IF b = a THEN r ELSE Record(s, o, b)
  <2> TAKE b \in Address
  <2>1. CASE b = a
    BY <1>7, <2>1 DEF Default
  <2>2. CASE b # a
    BY <1>1, <1>7, <2>2 DEF Default
  <2> QED BY <2>1, <2>2
<1>10. PICK x : x = Cleaned(d, o, a)
  OBVIOUS
<1>11. x = IF e = OwnerOnly(o) THEN Without(d, o) ELSE With(d, o, e)
  BY <1>3, <1>5, <1>6, <1>10 DEF Cleaned
<1>12. CASE e = OwnerOnly(o)
  <2>1. x = Without(s, o)
    <3>1. x = Without(With(s, o, e2), o)
      BY <1>5, <1>11, <1>12
    <3>2. PICK v : v = With(s, o, e2)
      OBVIOUS
    <3>3. DOMAIN v \ {o} = DOMAIN s \ {o} /\ \A p \in DOMAIN s \ {o} : v[p] = s[p]
      BY <3>2 DEF With
    <3> QED BY <3>1, <3>2, <3>3 DEF Without
  <2>2. x \in AuthStore
    BY <1>7, <2>1, StoreOfEntries
  <2>3. DOMAIN x = DOMAIN s \ {o} /\ \A p \in DOMAIN x : x[p] = s[p]
    BY <2>1 DEF Without
  <2>4. \A p, b \in Address : p # o => Record(x, p, b) = Record(s, p, b)
    BY <2>3 DEF Record
  <2>5. DOMAIN e = {o} /\ e[o] = Full
    BY <1>12 DEF OwnerOnly
  <2>6. \A b \in Address : Record(x, o, b) = IF b = a THEN r ELSE Record(s, o, b)
    <3> TAKE b \in Address
    <3>1. Record(x, o, b) = Default(o, b)
      BY <2>3 DEF Record
    <3>2. Default(o, b) = IF b \in DOMAIN e THEN e[b] ELSE Default(o, b)
      BY <2>5 DEF Default
    <3> QED BY <1>9, <3>1, <3>2
  <2> QED BY <1>4, <1>10, <2>2, <2>4, <2>6 DEF Changed
<1>13. CASE e # OwnerOnly(o)
  <2>1. x = With(s, o, e)
    <3>1. x = With(With(s, o, e2), o, e)
      BY <1>5, <1>11, <1>13
    <3>2. PICK v : v = With(s, o, e2)
      OBVIOUS
    <3>3. DOMAIN v \union {o} = DOMAIN s \union {o} /\ \A p \in DOMAIN s \ {o} : v[p] = s[p]
      BY <3>2 DEF With
    <3> QED BY <3>1, <3>2, <3>3 DEF With
  <2>2. x \in AuthStore
    <3>1. Needed(e, o)
      BY <1>7, <1>8, <1>13 DEF Needed
    <3> QED BY <1>7, <2>1, <3>1, StoreOfEntries
  <2>3. /\ DOMAIN x = DOMAIN s \union {o} /\ x[o] = e
        /\ \A p \in DOMAIN s \ {o} : x[p] = s[p]
    BY <2>1 DEF With
  <2>4. \A p, b \in Address : p # o => Record(x, p, b) = Record(s, p, b)
    BY <2>3 DEF Record
  <2>5. \A b \in Address : Record(x, o, b) = IF b = a THEN r ELSE Record(s, o, b)
    <3> TAKE b \in Address
    <3>1. Record(x, o, b) = IF b \in DOMAIN e THEN e[b] ELSE Default(o, b)
      BY <2>3 DEF Record
    <3> QED BY <1>9, <3>1
  <2> QED BY <1>4, <1>10, <2>2, <2>4, <2>5 DEF Changed
<1> QED BY <1>12, <1>13

-----------------------------------------------------------------------------
(* Updates *)

IsUpdate(u) ==
  /\ u.status \in {"store", "remove"}
  /\ u.owner \in Address /\ u.actor \in Address
  /\ u.kinds \in SUBSET Kind

After(record, status, kinds) ==
  IF status = "store" THEN Awarded(record, kinds) ELSE Rejected(record, kinds)

\* What an update makes of a record that fits, the opposite one turns back.
LEMMA RecordUndone ==
  ASSUME NEW r \in AuthRecord, NEW status \in {"store", "remove"}, NEW kinds \in SUBSET Kind,
         Fits(r, status, kinds)
  PROVE  LET x == After(r, status, kinds)
         IN  /\ x \in AuthRecord
             /\ Fits(x, Opposite(status), kinds)
             /\ After(x, Opposite(status), kinds) = r
<1>1. /\ r \in [full : BOOLEAN, kinds : SUBSET Kind]
      /\ r.full => r.kinds = {}
  BY DEF AuthRecord
<1>2. PICK b \in BOOLEAN, K \in SUBSET Kind :
        r = [full |-> b, kinds |-> K] /\ b = r.full /\ K = r.kinds
  BY <1>1
<1>3. Opposite(status) = IF status = "store" THEN "remove" ELSE "store"
  BY DEF Opposite
<1>4. CASE kinds = {}
  <2>1. K = {} /\ b = (status = "remove")
    BY <1>2, <1>4 DEF Fits
  <2>2. r = IF status = "store" THEN Nothing ELSE Full
    BY <1>2, <2>1 DEF Full, Nothing
  <2>3. After(r, status, kinds) = IF status = "store" THEN Full ELSE Nothing
    BY <1>4 DEF After, Awarded, Rejected
  <2>4. Full.full = TRUE /\ Full.kinds = {} /\ Nothing.full = FALSE /\ Nothing.kinds = {}
    BY DEF Full, Nothing
  <2> QED BY <1>3, <1>4, <2>2, <2>3, <2>4, DefaultType DEF After, Awarded, Rejected, Fits
<1>5. CASE kinds # {}
  <2>1. b = FALSE /\ IF status = "store" THEN kinds \intersect K = {} ELSE kinds \subseteq K
    BY <1>2, <1>5 DEF Fits
  <2>2. PICK L \in SUBSET Kind : L = IF status = "store" THEN K \union kinds ELSE K \ kinds
    OBVIOUS
  <2>3. PICK x : x = [full |-> b, kinds |-> L]
    OBVIOUS
  <2>4. After(r, status, kinds) = x
    BY <1>2, <1>5, <2>2, <2>3 DEF After, Awarded, Rejected
  <2>5. x \in AuthRecord
    BY <2>1, <2>3 DEF AuthRecord
  <2>6. K = (IF status = "store" THEN L \ kinds ELSE L \union kinds)
    BY <2>1, <2>2
  <2>7. Fits(x, Opposite(status), kinds)
    BY <1>3, <1>5, <2>1, <2>2, <2>3 DEF Fits
  <2>8. After(x, Opposite(status), kinds) = r
    BY <1>2, <1>3, <1>5, <2>3, <2>6 DEF After, Awarded, Rejected
  <2> QED BY <2>4, <2>5, <2>7, <2>8
<1> QED BY <1>4, <1>5

LEMMA ChangeChanges ==
  ASSUME NEW s \in AuthStore, NEW u, IsUpdate(u), NEW status \in {"store", "remove"},
         Fits(Record(s, u.owner, u.actor), status, u.kinds)
  PROVE  Changed(s, u.owner, u.actor, After(Record(s, u.owner, u.actor), status, u.kinds),
                 ChangeRecord(s, u, status))
<1>1. PICK o \in Address, a \in Address, K \in SUBSET Kind :
        o = u.owner /\ a = u.actor /\ K = u.kinds
  BY DEF IsUpdate
<1>2. PICK r \in AuthRecord : r = Record(s, o, a)
  BY RecordType
<1>3. Record(WithDummy(s, o, a), o, a) = r
  <2>1. PICK e : WithDummy(s, o, a) = With(s, o, e) /\ a \in DOMAIN e /\ e[a] = Record(s, o, a)
    BY DummyEntry
  <2>2. PICK v : v = With(s, o, e)
    OBVIOUS
  <2>3. o \in DOMAIN v /\ v[o] = e
    BY <2>2 DEF With
  <2> QED BY <1>2, <2>1, <2>2, <2>3 DEF Record
<1>4. PICK x \in AuthRecord : x = After(r, status, K)
  BY <1>1, <1>2, RecordUndone
<1>5. ChangeRecord(s, u, status) = Cleaned([WithDummy(s, o, a) EXCEPT ![o][a] = x], o, a)
  BY <1>1, <1>3, <1>4 DEF ChangeRecord, After
<1>6. Changed(s, o, a, x, Cleaned([WithDummy(s, o, a) EXCEPT ![o][a] = x], o, a))
  BY CleanedChanges
<1> QED BY <1>1, <1>2, <1>4, <1>5, <1>6

\* An authorization update that is applied can be undone, and that leaves the store as
\* it was before: no record, entry or default is left over or lost.  (authority_manager:
\* smart_create_dummy_record and smart_cleanup_dummy_record.)
THEOREM UndoneUpdateIsGone ==
  ASSUME NEW s \in AuthStore, NEW u, IsUpdate(u), UpdateFits(s, u)
  PROVE  /\ Updated(s, u) \in AuthStore
         /\ CanUndo(Updated(s, u), u)
         /\ Undone(Updated(s, u), u) = s
<1>1. PICK o \in Address, a \in Address, K \in SUBSET Kind, status \in {"store", "remove"} :
        o = u.owner /\ a = u.actor /\ K = u.kinds /\ status = u.status
  BY DEF IsUpdate
<1>2. PICK r \in AuthRecord : r = Record(s, o, a)
  BY RecordType
<1>3. Fits(r, status, K)
  BY <1>1, <1>2 DEF UpdateFits
<1>4. PICK x \in AuthRecord : x = After(r, status, K)
  BY <1>3, RecordUndone
<1>5. PICK v : v = Updated(s, u)
  OBVIOUS
<1>6. Changed(s, o, a, x, v)
  BY <1>1, <1>2, <1>3, <1>4, <1>5, ChangeChanges DEF Updated
<1>7. v \in AuthStore /\ Record(v, o, a) = x
  BY <1>6 DEF Changed
<1>8. PICK other \in {"store", "remove"} : other = Opposite(status)
  BY DEF Opposite
<1>9. Fits(x, other, K) /\ After(x, other, K) = r
  BY <1>3, <1>4, <1>8, RecordUndone
<1>10. CanUndo(v, u)
  BY <1>1, <1>7, <1>8, <1>9 DEF CanUndo
<1>11. PICK w : w = Undone(v, u)
  OBVIOUS
<1>12. Changed(v, o, a, r, w)
  BY <1>1, <1>7, <1>8, <1>9, <1>11, ChangeChanges DEF Undone
<1>13. w \in AuthStore /\ \A p, b \in Address : Record(w, p, b) = Record(s, p, b)
  BY <1>2, <1>6, <1>12 DEF Changed
<1>14. w = s
  BY <1>13, SameRecords
<1> QED BY <1>5, <1>7, <1>10, <1>11, <1>14

-----------------------------------------------------------------------------
(* Who decides *)

Decided(s) ==
  \A o \in Address :
    /\ HasRecord(s, o, o)
    /\ \E a \in Address : MaySign(s, o, a, "AuthorizationUpdate")

\* Stores in which every account has somebody who decides.
Sound == {s \in AuthStore : Decided(s)}

\* An update by somebody who may make it leaves one who decides: the signer, who does
\* not change their own record.
LEMMA UpdateStaysSound ==
  ASSUME NEW s \in Sound, NEW u, IsUpdate(u), UpdateFits(s, u),
         NEW signer \in Address, signer # u.actor,
         MaySign(s, u.owner, signer, "AuthorizationUpdate")
  PROVE  Updated(s, u) \in Sound
<1>1. PICK o \in Address, a \in Address, K \in SUBSET Kind, status \in {"store", "remove"} :
        o = u.owner /\ a = u.actor /\ K = u.kinds /\ status = u.status
  BY DEF IsUpdate
<1>2. s \in AuthStore /\ Decided(s)
  BY DEF Sound
<1>3. PICK v : v = Updated(s, u)
  OBVIOUS
<1>4. PICK x : Changed(s, o, a, x, v)
  <2>1. Fits(Record(s, o, a), status, K)
    BY <1>1 DEF UpdateFits
  <2> QED BY <1>1, <1>2, <1>3, <2>1, ChangeChanges DEF Updated
<1>5. v \in AuthStore
  BY <1>4 DEF Changed
<1>6. ASSUME NEW p \in Address
      PROVE  HasRecord(v, p, p)
  BY <1>5, EntryType DEF HasRecord, Needed
<1>7. ASSUME NEW p \in Address
      PROVE  \E b \in Address : MaySign(v, p, b, "AuthorizationUpdate")
  <2>1. CASE p = o
    <3>1. Record(v, o, signer) = Record(s, o, signer)
      BY <1>1, <1>4 DEF Changed
    <3> QED BY <1>1, <2>1, <3>1 DEF MaySign
  <2>2. CASE p # o
    <3>1. PICK b \in Address : MaySign(s, p, b, "AuthorizationUpdate")
      BY <1>2 DEF Decided
    <3>2. Record(v, p, b) = Record(s, p, b)
      BY <1>4, <2>2 DEF Changed
    <3> QED BY <3>1, <3>2 DEF MaySign
  <2> QED BY <2>1, <2>2
<1> QED BY <1>3, <1>5, <1>6, <1>7 DEF Sound, Decided

\* At the genesis block everybody decides for themselves.
LEMMA SoundAtGenesis == <<>> \in Sound
<1>1. <<>> \in [{} -> AuthEntry] /\ DOMAIN <<>> = {}
  OBVIOUS
<1>2. <<>> \in AuthStore
  BY <1>1 DEF AuthStore
<1>3. ASSUME NEW o \in Address
      PROVE  HasRecord(<<>>, o, o) /\ MaySign(<<>>, o, o, "AuthorizationUpdate")
  <2>1. Record(<<>>, o, o) = Full
    BY <1>1 DEF Record, Default
  <2>2. Full.kinds = {} /\ Full.full
    BY DEF Full
  <2> QED BY <1>1, <2>1, <2>2 DEF HasRecord, MaySign
<1> QED BY <1>2, <1>3 DEF Sound, Decided

-----------------------------------------------------------------------------
(* Folds: what the handlers do to the stores for one transaction or block   *)
(* after the other, under one name                                          *)

Do(kind, p, v, x) ==
  CASE kind = "undo"    -> Undo(x, v)
    [] kind = "return"  -> IF x \in p[1] THEN v ELSE PutBack(v, x, p[2])
    [] kind = "try"     -> TryTransaction(v, x)
    [] kind = "unblock" -> Unblock(x, v)
    [] kind = "verify"  -> VerifyBlock(v, x)
    [] kind = "replay"  -> ReplayTx(v, x)
    [] kind = "replayblock" -> ReplayBlock(v, x)

\* f holds what comes of the elements of q at each set of places.
Table(f, S, c, kind, p, base, q) ==
  f = [s \in SUBSET S |-> IF s = {} THEN base ELSE Do(kind, p, f[s \ {c[s]}], q[c[s]])]

LEMMA DoExists ==
  ASSUME NEW S, IsFiniteSet(S), NEW c, Chooses(c, S), NEW kind, NEW p, NEW base, NEW q
  PROVE  \E f : Table(f, S, c, kind, p, base, q)
<1> DEFINE Small(m) == {s \in SUBSET S : Cardinality(s) <= m}
           Next1(g, s) == IF s = {} THEN base ELSE Do(kind, p, g[s \ {c[s]}], q[c[s]])
           Is(f, m) == f = [s \in Small(m) |-> Next1(f, s)]
           T == {m \in Nat : \E f : Is(f, m)}
<1>1. \A s \in SUBSET S : /\ IsFiniteSet(s) /\ Cardinality(s) \in Nat
                          /\ Cardinality(s) <= Cardinality(S)
                          /\ Cardinality(s) = 0 <=> s = {}
  BY FS_Subset, FS_CardinalityType, FS_EmptySet
<1>2. \A s \in SUBSET S : s # {} => /\ c[s] \in S /\ s \ {c[s]} \in SUBSET S
                                    /\ Cardinality(s \ {c[s]}) = Cardinality(s) - 1
  BY <1>1, FS_RemoveElement DEF Chooses
<1>3. 0 \in T
  <2> DEFINE g == [s \in Small(0) |-> base]
  <2>1. \A s \in Small(0) : s = {}
    BY <1>1
  <2>2. Is(g, 0)
    BY <2>1
  <2> QED BY <2>2
<1>4. \A m \in T : m + 1 \in T
  <2> SUFFICES ASSUME NEW m \in T
               PROVE  m + 1 \in T
    OBVIOUS
  <2>1. PICK f : Is(f, m)
    OBVIOUS
  <2> DEFINE g == [s \in Small(m + 1) |-> Next1(f, s)]
  <2>2. \A s \in Small(m + 1) : s # {} => s \ {c[s]} \in Small(m)
    BY <1>1, <1>2
  <2>3. Small(m) \subseteq Small(m + 1)
    BY <1>1
  <2>4. \A s \in Small(m) : f[s] = Next1(f, s)
    BY <2>1
  <2> HIDE DEF Small
  <2>5. \A s \in Small(m) : g[s] = f[s]
    BY <2>3, <2>4
  <2>6. \A s \in Small(m + 1) : Next1(f, s) = Next1(g, s)
    <3> HIDE DEF g
    <3> QED BY <2>2, <2>5
  <2>7. Is(g, m + 1)
    <3>1. PICK h : h = [s \in Small(m + 1) |-> Next1(f, s)]
      OBVIOUS
    <3>2. h = g /\ \A s \in Small(m + 1) : Next1(f, s) = Next1(h, s)
      BY <2>6, <3>1
    <3> HIDE DEF g, Next1
    <3>3. h = [s \in Small(m + 1) |-> Next1(h, s)]
      BY <3>1, <3>2
    <3> QED BY <3>2, <3>3
  <2>8. m + 1 \in Nat /\ \E h : Is(h, m + 1)
    <3> HIDE DEF g, Is
    <3> QED BY <2>7
  <2> QED BY <2>8
<1>5. T = Nat
  <2> HIDE DEF T
  <2>1. T \in SUBSET Nat
    BY DEF T
  <2> QED BY <1>3, <1>4, <2>1, InductionOnSet
<1>6. PICK f : Is(f, Cardinality(S))
  <2>1. Cardinality(S) \in T
    BY <1>1, <1>5
  <2> QED BY <2>1
<1>7. Small(Cardinality(S)) = SUBSET S
  BY <1>1
<1> QED BY <1>6, <1>7 DEF Table

\* f[n] is what comes of the first n elements of q, or of all but the first n.
LeftRun(f, kind, p, base, q) ==
  f[0] = base /\ \A n \in 1..Len(q) : f[n] = Do(kind, p, f[n - 1], q[n])
RightRun(f, kind, p, base, q) ==
  f[Len(q)] = base /\ \A n \in 1..Len(q) : f[n - 1] = Do(kind, p, f[n], q[n])

LEMMA LeftTable ==
  ASSUME NEW A, NEW q \in Seq(A), NEW kind, NEW p, NEW base, NEW iter,
         Table(iter, DOMAIN q, Lasts(DOMAIN q), kind, p, base, q)
  PROVE  \E f : LeftRun(f, kind, p, base, q) /\ iter[DOMAIN q] = f[Len(q)]
<1>1. PICK N \in Nat : N = Len(q) /\ DOMAIN q = 1..N
  OBVIOUS
<1>2. PICK f : f = [n \in 0..N |-> iter[1..n]]
  OBVIOUS
<1>3. iter[{}] = base
  BY DEF Table
<1>4. f[0] = base
  <2>1. 1..0 = {} /\ 0 \in 0..N
    BY <1>1
  <2> QED BY <1>2, <1>3, <2>1
<1>5. ASSUME NEW n \in 1..N
      PROVE  f[n] = Do(kind, p, f[n - 1], q[n])
  <2>1. PICK s \in SUBSET (1..N) : s = 1..n /\ n \in s
    BY <1>1
  <2>2. s # {} /\ s \in SUBSET (0..N)
    <3>1. s # {}
      BY <2>1
    <3>2. \A m \in s : m \in 0..N
      OBVIOUS
    <3> QED BY <3>1, <3>2
  <2>3. Max(s) = n
    <3>1. Max(s) \in s /\ \A m \in s : m <= Max(s)
      BY <2>2, GreatestNumber
    <3> QED BY <2>1, <3>1
  <2>4. s \ {n} = 1..(n - 1)
    BY <2>1
  <2>5. Lasts(DOMAIN q)[s] = n
    BY <1>1, <2>3 DEF Lasts
  <2>6. iter[s] = Do(kind, p, iter[s \ {n}], q[n])
    BY <1>1, <2>2, <2>5 DEF Table
  <2>7. f[n] = iter[s] /\ f[n - 1] = iter[s \ {n}]
    BY <1>2, <2>1, <2>4
  <2> QED BY <2>6, <2>7
<1>6. f[N] = iter[1..N]
  BY <1>1, <1>2
<1> QED BY <1>1, <1>4, <1>5, <1>6 DEF LeftRun

LEMMA RightTable ==
  ASSUME NEW A, NEW q \in Seq(A), NEW kind, NEW p, NEW base, NEW iter,
         Table(iter, DOMAIN q, Firsts(DOMAIN q), kind, p, base, q)
  PROVE  \E f : RightRun(f, kind, p, base, q) /\ iter[DOMAIN q] = f[0]
<1>1. PICK N \in Nat : N = Len(q) /\ DOMAIN q = 1..N
  OBVIOUS
<1>2. PICK f : f = [n \in 0..N |-> iter[(n + 1)..N]]
  OBVIOUS
<1>3. iter[{}] = base
  BY DEF Table
<1>4. f[N] = base
  <2>1. (N + 1)..N = {} /\ N \in 0..N
    BY <1>1
  <2> QED BY <1>2, <1>3, <2>1
<1>5. ASSUME NEW n \in 1..N
      PROVE  f[n - 1] = Do(kind, p, f[n], q[n])
  <2>1. PICK s \in SUBSET (1..N) : s = n..N /\ n \in s
    BY <1>1
  <2>2. s # {} /\ s \in SUBSET (0..N)
    <3>1. s # {}
      BY <2>1
    <3>2. \A m \in s : m \in 0..N
      OBVIOUS
    <3> QED BY <3>1, <3>2
  <2>3. Min(s) = n
    <3>1. Min(s) \in s /\ \A m \in s : Min(s) <= m
      BY <2>2, LeastOfRange
    <3> QED BY <2>1, <3>1
  <2>4. s \ {n} = (n + 1)..N
    BY <2>1
  <2>5. Firsts(DOMAIN q)[s] = n
    BY <1>1, <2>3 DEF Firsts
  <2>6. iter[s] = Do(kind, p, iter[s \ {n}], q[n])
    BY <1>1, <2>2, <2>5 DEF Table
  <2>7. f[n - 1] = iter[s] /\ f[n] = iter[s \ {n}]
    <3>1. n - 1 \in 0..N /\ (n - 1) + 1 = n /\ n \in 0..N
      BY <1>1
    <3> QED BY <1>2, <2>1, <2>4, <3>1
  <2> QED BY <2>6, <2>7
<1>6. f[0] = iter[1..N]
  BY <1>1, <1>2
<1> QED BY <1>1, <1>4, <1>5, <1>6 DEF RightRun

\* Transactions are undone from the last one.
LEMMA Undoing ==
  ASSUME NEW A, NEW q \in Seq(A), NEW w
  PROVE  \E f : /\ RightRun(f, "undo", <<>>, w, q)
                /\ FoldRight(Undo, q, w) = f[0]
<1> DEFINE D == DOMAIN q
           c == Firsts(D)
           step(g) == [s \in SUBSET DOMAIN q |->
                         IF s = {} THEN w
                         ELSE LET i == Min(s) IN Undo(q[i], g[s \ {i}])]
           iter == CHOOSE g : g = step(g)
<1>1. /\ IsFiniteSet(D) /\ Chooses(c, D)
      /\ \A s \in SUBSET D : c[s] = Min(s)
  BY FoldPlaces DEF Firsts
<1>2. FoldRight(Undo, q, w) = iter[D]
  BY DEF FoldRight, MapThenFoldSet
<1> HIDE DEF D, c
<1>3. \A v, x : Do("undo", <<>>, v, x) = Undo(x, v)
  BY DEF Do
<1>4. PICK f : Table(f, D, c, "undo", <<>>, w, q)
  BY <1>1, DoExists
<1>5. f = step(f)
  <2>1. \A s \in SUBSET D : s # {} => f[s] = Undo(q[Min(s)], f[s \ {Min(s)}])
    <3> TAKE s \in SUBSET D
    <3>1. s # {} => f[s] = Do("undo", <<>>, f[s \ {c[s]}], q[c[s]])
      BY <1>4 DEF Table
    <3>2. c[s] = Min(s)
      BY <1>1
    <3> QED BY <1>3, <3>1, <3>2
  <2>2. f = [s \in SUBSET D |-> f[s]] /\ f[{}] = w
    BY <1>4 DEF Table
  <2> QED BY <2>1, <2>2 DEF D
<1>6. iter = step(iter)
  <2> HIDE DEF step
  <2> QED BY <1>5
<1> HIDE DEF iter
<1>7. Table(iter, D, c, "undo", <<>>, w, q)
  <2>1. \A s \in SUBSET D : s # {} => iter[s] = Undo(q[c[s]], iter[s \ {c[s]}])
    BY <1>1, <1>6 DEF D
  <2>2. iter = [s \in SUBSET D |-> iter[s]] /\ iter[{}] = w
    BY <1>6 DEF D
  <2>3. \A s \in SUBSET D : s # {} => iter[s] = Do("undo", <<>>, iter[s \ {c[s]}], q[c[s]])
    BY <1>3, <2>1
  <2> QED BY <2>2, <2>3 DEF Table
<1> QED BY <1>2, <1>7, RightTable DEF D, c

\* Transactions are put back one after the other.
LEMMA Returning ==
  ASSUME NEW A, NEW q \in Seq(A), NEW w, NEW taken, NEW fresh
  PROVE  \E f : /\ LeftRun(f, "return", <<taken, fresh>>, w, q)
                /\ PutAllBack(w, q, taken, fresh) = f[Len(q)]
<1> DEFINE D == DOMAIN q
           c == Lasts(D)
           step(g) == [s \in SUBSET DOMAIN q |->
                         IF s = {} THEN w
                         ELSE LET i == Max(s)
                              IN  IF q[i] \in taken THEN g[s \ {i}]
                                  ELSE PutBack(g[s \ {i}], q[i], fresh)]
           iter == CHOOSE g : g = step(g)
<1>1. /\ IsFiniteSet(D) /\ Chooses(c, D)
      /\ \A s \in SUBSET D : c[s] = Max(s)
  BY FoldPlaces DEF Lasts
<1>2. PutAllBack(w, q, taken, fresh) = iter[D]
  BY DEF FoldLeft, MapThenFoldSet, PutAllBack
<1> HIDE DEF D, c
<1>3. \A v, x : Do("return", <<taken, fresh>>, v, x)
                  = IF x \in taken THEN v ELSE PutBack(v, x, fresh)
  BY DEF Do
<1>4. PICK f : Table(f, D, c, "return", <<taken, fresh>>, w, q)
  BY <1>1, DoExists
<1>5. f = step(f)
  <2>1. \A s \in SUBSET D : s # {} =>
          f[s] = IF q[Max(s)] \in taken THEN f[s \ {Max(s)}]
                 ELSE PutBack(f[s \ {Max(s)}], q[Max(s)], fresh)
    <3> TAKE s \in SUBSET D
    <3>1. s # {} => f[s] = Do("return", <<taken, fresh>>, f[s \ {c[s]}], q[c[s]])
      BY <1>4 DEF Table
    <3>2. c[s] = Max(s)
      BY <1>1
    <3> QED BY <1>3, <3>1, <3>2
  <2>2. f = [s \in SUBSET D |-> f[s]] /\ f[{}] = w
    BY <1>4 DEF Table
  <2> QED BY <2>1, <2>2 DEF D
<1>6. iter = step(iter)
  <2> HIDE DEF step
  <2> QED BY <1>5
<1> HIDE DEF iter
<1>7. Table(iter, D, c, "return", <<taken, fresh>>, w, q)
  <2>1. \A s \in SUBSET D : s # {} =>
          iter[s] = IF q[c[s]] \in taken THEN iter[s \ {c[s]}]
                    ELSE PutBack(iter[s \ {c[s]}], q[c[s]], fresh)
    BY <1>1, <1>6 DEF D
  <2>2. iter = [s \in SUBSET D |-> iter[s]] /\ iter[{}] = w
    BY <1>6 DEF D
  <2>3. \A s \in SUBSET D : s # {} =>
          iter[s] = Do("return", <<taken, fresh>>, iter[s \ {c[s]}], q[c[s]])
    BY <1>3, <2>1
  <2> QED BY <2>2, <2>3 DEF Table
<1> QED BY <1>2, <1>7, LeftTable DEF D, c

\* The transactions of a block are tried.
LEMMA Trying ==
  ASSUME NEW A, NEW q \in Seq(A), NEW w
  PROVE  \E f : /\ LeftRun(f, "try", <<>>, w, q)
                /\ FoldLeft(TryTransaction, w, q) = f[Len(q)]
<1> DEFINE D == DOMAIN q
           c == Lasts(D)
           step(g) == [s \in SUBSET DOMAIN q |->
                         IF s = {} THEN w
                         ELSE LET i == Max(s) IN TryTransaction(g[s \ {i}], q[i])]
           iter == CHOOSE g : g = step(g)
<1>1. /\ IsFiniteSet(D) /\ Chooses(c, D)
      /\ \A s \in SUBSET D : c[s] = Max(s)
  BY FoldPlaces DEF Lasts
<1>2. FoldLeft(TryTransaction, w, q) = iter[D]
  BY DEF FoldLeft, MapThenFoldSet
<1> HIDE DEF D, c
<1>3. \A v, x : Do("try", <<>>, v, x) = TryTransaction(v, x)
  BY DEF Do
<1>4. PICK f : Table(f, D, c, "try", <<>>, w, q)
  BY <1>1, DoExists
<1>5. f = step(f)
  <2>1. \A s \in SUBSET D : s # {} => f[s] = TryTransaction(f[s \ {Max(s)}], q[Max(s)])
    <3> TAKE s \in SUBSET D
    <3>1. s # {} => f[s] = Do("try", <<>>, f[s \ {c[s]}], q[c[s]])
      BY <1>4 DEF Table
    <3>2. c[s] = Max(s)
      BY <1>1
    <3> QED BY <1>3, <3>1, <3>2
  <2>2. f = [s \in SUBSET D |-> f[s]] /\ f[{}] = w
    BY <1>4 DEF Table
  <2> QED BY <2>1, <2>2 DEF D
<1>6. iter = step(iter)
  <2> HIDE DEF step
  <2> QED BY <1>5
<1> HIDE DEF iter
<1>7. Table(iter, D, c, "try", <<>>, w, q)
  <2>1. \A s \in SUBSET D : s # {} => iter[s] = TryTransaction(iter[s \ {c[s]}], q[c[s]])
    BY <1>1, <1>6 DEF D
  <2>2. iter = [s \in SUBSET D |-> iter[s]] /\ iter[{}] = w
    BY <1>6 DEF D
  <2>3. \A s \in SUBSET D : s # {} => iter[s] = Do("try", <<>>, iter[s \ {c[s]}], q[c[s]])
    BY <1>3, <2>1
  <2> QED BY <2>2, <2>3 DEF Table
<1> QED BY <1>2, <1>7, LeftTable DEF D, c

\* Blocks are taken off from the last one.
LEMMA Unblocking ==
  ASSUME NEW A, NEW q \in Seq(A), NEW w
  PROVE  \E f : /\ RightRun(f, "unblock", <<>>, w, q)
                /\ FoldRight(Unblock, q, w) = f[0]
<1> DEFINE D == DOMAIN q
           c == Firsts(D)
           step(g) == [s \in SUBSET DOMAIN q |->
                         IF s = {} THEN w
                         ELSE LET i == Min(s) IN Unblock(q[i], g[s \ {i}])]
           iter == CHOOSE g : g = step(g)
<1>1. /\ IsFiniteSet(D) /\ Chooses(c, D)
      /\ \A s \in SUBSET D : c[s] = Min(s)
  BY FoldPlaces DEF Firsts
<1>2. FoldRight(Unblock, q, w) = iter[D]
  BY DEF FoldRight, MapThenFoldSet
<1> HIDE DEF D, c
<1>3. \A v, x : Do("unblock", <<>>, v, x) = Unblock(x, v)
  BY DEF Do
<1>4. PICK f : Table(f, D, c, "unblock", <<>>, w, q)
  BY <1>1, DoExists
<1>5. f = step(f)
  <2>1. \A s \in SUBSET D : s # {} => f[s] = Unblock(q[Min(s)], f[s \ {Min(s)}])
    <3> TAKE s \in SUBSET D
    <3>1. s # {} => f[s] = Do("unblock", <<>>, f[s \ {c[s]}], q[c[s]])
      BY <1>4 DEF Table
    <3>2. c[s] = Min(s)
      BY <1>1
    <3> QED BY <1>3, <3>1, <3>2
  <2>2. f = [s \in SUBSET D |-> f[s]] /\ f[{}] = w
    BY <1>4 DEF Table
  <2> QED BY <2>1, <2>2 DEF D
<1>6. iter = step(iter)
  <2> HIDE DEF step
  <2> QED BY <1>5
<1> HIDE DEF iter
<1>7. Table(iter, D, c, "unblock", <<>>, w, q)
  <2>1. \A s \in SUBSET D : s # {} => iter[s] = Unblock(q[c[s]], iter[s \ {c[s]}])
    BY <1>1, <1>6 DEF D
  <2>2. iter = [s \in SUBSET D |-> iter[s]] /\ iter[{}] = w
    BY <1>6 DEF D
  <2>3. \A s \in SUBSET D : s # {} => iter[s] = Do("unblock", <<>>, iter[s \ {c[s]}], q[c[s]])
    BY <1>3, <2>1
  <2> QED BY <2>2, <2>3 DEF Table
<1> QED BY <1>2, <1>7, RightTable DEF D, c

\* Blocks are verified one after the other.
LEMMA Verifying ==
  ASSUME NEW A, NEW q \in Seq(A), NEW w
  PROVE  \E f : /\ LeftRun(f, "verify", <<>>, w, q)
                /\ FoldLeft(VerifyBlock, w, q) = f[Len(q)]
<1> DEFINE D == DOMAIN q
           c == Lasts(D)
           step(g) == [s \in SUBSET DOMAIN q |->
                         IF s = {} THEN w
                         ELSE LET i == Max(s) IN VerifyBlock(g[s \ {i}], q[i])]
           iter == CHOOSE g : g = step(g)
<1>1. /\ IsFiniteSet(D) /\ Chooses(c, D)
      /\ \A s \in SUBSET D : c[s] = Max(s)
  BY FoldPlaces DEF Lasts
<1>2. FoldLeft(VerifyBlock, w, q) = iter[D]
  BY DEF FoldLeft, MapThenFoldSet
<1> HIDE DEF D, c
<1>3. \A v, x : Do("verify", <<>>, v, x) = VerifyBlock(v, x)
  BY DEF Do
<1>4. PICK f : Table(f, D, c, "verify", <<>>, w, q)
  BY <1>1, DoExists
<1>5. f = step(f)
  <2>1. \A s \in SUBSET D : s # {} => f[s] = VerifyBlock(f[s \ {Max(s)}], q[Max(s)])
    <3> TAKE s \in SUBSET D
    <3>1. s # {} => f[s] = Do("verify", <<>>, f[s \ {c[s]}], q[c[s]])
      BY <1>4 DEF Table
    <3>2. c[s] = Max(s)
      BY <1>1
    <3> QED BY <1>3, <3>1, <3>2
  <2>2. f = [s \in SUBSET D |-> f[s]] /\ f[{}] = w
    BY <1>4 DEF Table
  <2> QED BY <2>1, <2>2 DEF D
<1>6. iter = step(iter)
  <2> HIDE DEF step
  <2> QED BY <1>5
<1> HIDE DEF iter
<1>7. Table(iter, D, c, "verify", <<>>, w, q)
  <2>1. \A s \in SUBSET D : s # {} => iter[s] = VerifyBlock(iter[s \ {c[s]}], q[c[s]])
    BY <1>1, <1>6 DEF D
  <2>2. iter = [s \in SUBSET D |-> iter[s]] /\ iter[{}] = w
    BY <1>6 DEF D
  <2>3. \A s \in SUBSET D : s # {} => iter[s] = Do("verify", <<>>, iter[s \ {c[s]}], q[c[s]])
    BY <1>3, <2>1
  <2> QED BY <2>2, <2>3 DEF Table
<1> QED BY <1>2, <1>7, LeftTable DEF D, c

\* Transactions are applied anew, one after the other.
LEMMA Replaying ==
  ASSUME NEW A, NEW q \in Seq(A), NEW w
  PROVE  \E f : /\ LeftRun(f, "replay", <<>>, w, q)
                /\ FoldLeft(ReplayTx, w, q) = f[Len(q)]
<1> DEFINE D == DOMAIN q
           c == Lasts(D)
           step(g) == [s \in SUBSET DOMAIN q |->
                         IF s = {} THEN w
                         ELSE LET i == Max(s) IN ReplayTx(g[s \ {i}], q[i])]
           iter == CHOOSE g : g = step(g)
<1>1. /\ IsFiniteSet(D) /\ Chooses(c, D)
      /\ \A s \in SUBSET D : c[s] = Max(s)
  BY FoldPlaces DEF Lasts
<1>2. FoldLeft(ReplayTx, w, q) = iter[D]
  BY DEF FoldLeft, MapThenFoldSet
<1> HIDE DEF D, c
<1>3. \A v, x : Do("replay", <<>>, v, x) = ReplayTx(v, x)
  BY DEF Do
<1>4. PICK f : Table(f, D, c, "replay", <<>>, w, q)
  BY <1>1, DoExists
<1>5. f = step(f)
  <2>1. \A s \in SUBSET D : s # {} => f[s] = ReplayTx(f[s \ {Max(s)}], q[Max(s)])
    <3> TAKE s \in SUBSET D
    <3>1. s # {} => f[s] = Do("replay", <<>>, f[s \ {c[s]}], q[c[s]])
      BY <1>4 DEF Table
    <3>2. c[s] = Max(s)
      BY <1>1
    <3> QED BY <1>3, <3>1, <3>2
  <2>2. f = [s \in SUBSET D |-> f[s]] /\ f[{}] = w
    BY <1>4 DEF Table
  <2> QED BY <2>1, <2>2 DEF D
<1>6. iter = step(iter)
  <2> HIDE DEF step
  <2> QED BY <1>5
<1> HIDE DEF iter
<1>7. Table(iter, D, c, "replay", <<>>, w, q)
  <2>1. \A s \in SUBSET D : s # {} => iter[s] = ReplayTx(iter[s \ {c[s]}], q[c[s]])
    BY <1>1, <1>6 DEF D
  <2>2. iter = [s \in SUBSET D |-> iter[s]] /\ iter[{}] = w
    BY <1>6 DEF D
  <2>3. \A s \in SUBSET D : s # {} => iter[s] = Do("replay", <<>>, iter[s \ {c[s]}], q[c[s]])
    BY <1>3, <2>1
  <2> QED BY <2>2, <2>3 DEF Table
<1> QED BY <1>2, <1>7, LeftTable DEF D, c

\* Blocks are applied anew.
LEMMA ReplayingBlocks ==
  ASSUME NEW A, NEW q \in Seq(A), NEW w
  PROVE  \E f : /\ LeftRun(f, "replayblock", <<>>, w, q)
                /\ FoldLeft(ReplayBlock, w, q) = f[Len(q)]
<1> DEFINE D == DOMAIN q
           c == Lasts(D)
           step(g) == [s \in SUBSET DOMAIN q |->
                         IF s = {} THEN w
                         ELSE LET i == Max(s) IN ReplayBlock(g[s \ {i}], q[i])]
           iter == CHOOSE g : g = step(g)
<1>1. /\ IsFiniteSet(D) /\ Chooses(c, D)
      /\ \A s \in SUBSET D : c[s] = Max(s)
  BY FoldPlaces DEF Lasts
<1>2. FoldLeft(ReplayBlock, w, q) = iter[D]
  BY DEF FoldLeft, MapThenFoldSet
<1> HIDE DEF D, c
<1>3. \A v, x : Do("replayblock", <<>>, v, x) = ReplayBlock(v, x)
  BY DEF Do
<1>4. PICK f : Table(f, D, c, "replayblock", <<>>, w, q)
  BY <1>1, DoExists
<1>5. f = step(f)
  <2>1. \A s \in SUBSET D : s # {} => f[s] = ReplayBlock(f[s \ {Max(s)}], q[Max(s)])
    <3> TAKE s \in SUBSET D
    <3>1. s # {} => f[s] = Do("replayblock", <<>>, f[s \ {c[s]}], q[c[s]])
      BY <1>4 DEF Table
    <3>2. c[s] = Max(s)
      BY <1>1
    <3> QED BY <1>3, <3>1, <3>2
  <2>2. f = [s \in SUBSET D |-> f[s]] /\ f[{}] = w
    BY <1>4 DEF Table
  <2> QED BY <2>1, <2>2 DEF D
<1>6. iter = step(iter)
  <2> HIDE DEF step
  <2> QED BY <1>5
<1> HIDE DEF iter
<1>7. Table(iter, D, c, "replayblock", <<>>, w, q)
  <2>1. \A s \in SUBSET D : s # {} => iter[s] = ReplayBlock(iter[s \ {c[s]}], q[c[s]])
    BY <1>1, <1>6 DEF D
  <2>2. iter = [s \in SUBSET D |-> iter[s]] /\ iter[{}] = w
    BY <1>6 DEF D
  <2>3. \A s \in SUBSET D : s # {} => iter[s] = Do("replayblock", <<>>, iter[s \ {c[s]}], q[c[s]])
    BY <1>3, <2>1
  <2> QED BY <2>2, <2>3 DEF Table
<1> QED BY <1>2, <1>7, LeftTable DEF D, c

-----------------------------------------------------------------------------
(* Orders by creation *)

LEMMA InsertedAre ==
  ASSUME NEW X, NEW q \in Seq(X), NEW n \in 1..(Len(q) + 1), NEW t \in X
  PROVE  InsertAt(q, n, t) \in Seq(X)
<1>1. PICK m \in Nat : m = Len(q) /\ n \in 1..(m + 1)
  OBVIOUS
<1>2. PICK u \in Seq(X) : u = SubSeq(q, 1, n - 1)
  <2>1. SubSeq(q, 1, n - 1) \in Seq(X)
    BY <1>1
  <2> QED BY <2>1
<1>3. PICK v \in Seq(X) : v = SubSeq(q, n, m)
  <2>1. SubSeq(q, n, m) \in Seq(X)
    BY <1>1
  <2> QED BY <2>1
<1>4. PICK x \in Seq(X) : x = u \o <<t>>
  <2>1. PICK y \in Seq(X) : y = <<t>>
    <3>1. <<t>> \in Seq(X)
      OBVIOUS
    <3> QED BY <3>1
  <2>2. u \o y \in Seq(X)
    BY ConcatProperties
  <2> QED BY <2>1, <2>2
<1>5. x \o v \in Seq(X)
  BY ConcatProperties
<1>6. InsertAt(q, n, t) = x \o v
  <2>1. InsertAt(q, n, t) = (SubSeq(q, 1, n - 1) \o <<t>>) \o SubSeq(q, n, m)
    BY <1>1 DEF InsertAt
  <2> QED BY <1>2, <1>3, <1>4, <2>1
<1> QED BY <1>5, <1>6

LEMMA SortedAre ==
  ASSUME NEW X, NEW S \in SUBSET X, IsFiniteSet(S), NEW q \in Sorted(S)
  PROVE  q \in Seq(X)
<1> DEFINE Places(p, t) == {n \in 1..(Len(p) + 1) :
                              /\ \A m \in 1..(n - 1) : Creation[p[m]] <= Creation[t]
                              /\ \A m \in n..Len(p) : Creation[t] <= Creation[p[m]]}
           Extend(t, orders) == UNION {{InsertAt(p, n, t) : n \in Places(p, t)} : p \in orders}
           V == SUBSET Seq(X)
<1>1. ASSUME NEW t \in X, NEW orders \in V
      PROVE  Extend(t, orders) \in V
  <2>1. ASSUME NEW p \in orders, NEW n \in Places(p, t)
        PROVE  InsertAt(p, n, t) \in Seq(X)
    <3>1. p \in Seq(X) /\ n \in 1..(Len(p) + 1)
      OBVIOUS
    <3> HIDE DEF Places
    <3> QED BY <3>1, InsertedAre
  <2> HIDE DEF Places
  <2> QED BY <2>1
<1> HIDE DEF Extend
<1>2. PICK c : c = Order(S)
  OBVIOUS
<1>3. PICK G : G = [p \in S \X V |-> Extend(p[1], p[2])]
  OBVIOUS
<1>4. /\ Chooses(c, S)
      /\ G \in [S \X V -> V]
      /\ \A s \in SUBSET S : c[s] = CHOOSE x \in s : TRUE
  <2> HIDE DEF V
  <2> QED BY <1>1, <1>2, <1>3 DEF Chooses, Order
<1>5. PICK base \in V : base = {<<>>}
  <2>1. <<>> \in Seq(X)
    OBVIOUS
  <2>2. {<<>>} \in V
    BY <2>1
  <2> QED BY <2>2
<1>6. PICK f \in [SUBSET S -> V] : Unfolds(f, S, c, base, G)
  <2> HIDE DEF V
  <2> QED BY <1>4, RecursionOnSubsets
<1> DEFINE step(g) == [s \in SUBSET S |-> IF s = {} THEN {<<>>}
                                          ELSE LET x == CHOOSE x \in s : TRUE
                                               IN  Extend(x, g[s \ {x}])]
           iter == CHOOSE g : g = step(g)
<1>7. \A s \in SUBSET S : s # {} => /\ c[s] \in S /\ f[s \ {c[s]}] \in V
                                    /\ G[<<c[s], f[s \ {c[s]}]>>] = Extend(c[s], f[s \ {c[s]}])
  <2> HIDE DEF V
  <2> QED BY <1>3, <1>4, <1>6 DEF Chooses
<1>8. f = step(f)
  <2>1. f = [s \in SUBSET S |-> IF s = {} THEN {<<>>} ELSE G[<<c[s], f[s \ {c[s]}]>>]]
    BY <1>5, <1>6 DEF Unfolds
  <2>2. \A s \in SUBSET S :
          (IF s = {} THEN {<<>>} ELSE G[<<c[s], f[s \ {c[s]}]>>])
            = IF s = {} THEN {<<>>} ELSE LET x == CHOOSE x \in s : TRUE IN Extend(x, f[s \ {x}])
    <3> HIDE DEF V
    <3> QED BY <1>4, <1>7
  <2> QED BY <2>1, <2>2
<1>9. iter = step(iter)
  <2> HIDE DEF step
  <2> QED BY <1>8
<1>10. Sorted(S) = iter[S]
  BY DEF Sorted, FoldSet, MapThenFoldSet, Extend
<1> HIDE DEF iter
<1>11. /\ iter[{}] \in V
       /\ \A s \in SUBSET S : s # {} => iter[s] = Extend(c[s], iter[s \ {c[s]}])
  <2>1. \A s \in SUBSET S :
          iter[s] = IF s = {} THEN {<<>>} ELSE LET x == CHOOSE x \in s : TRUE
                                                IN  Extend(x, iter[s \ {x}])
    BY <1>9
  <2>2. iter[{}] = {<<>>}
    BY <2>1
  <2>3. \A s \in SUBSET S : s # {} => iter[s] = Extend(c[s], iter[s \ {c[s]}])
    BY <1>4, <2>1
  <2> QED BY <1>5, <2>2, <2>3
<1> HIDE DEF V
<1>12. ASSUME NEW s \in SUBSET S, s # {}, iter[s \ {c[s]}] \in V
       PROVE  iter[s] \in V
  <2>1. c[s] \in X
    BY <1>4, <1>12 DEF Chooses
  <2> QED BY <1>1, <1>11, <1>12, <2>1
<1>13. iter[S] \in V
  <2>1. Chooses(c, S) /\ iter[{}] \in V
    BY <1>4, <1>11
  <2>2. \A s \in SUBSET S : s # {} /\ iter[s \ {c[s]}] \in V => iter[s] \in V
    BY <1>12
  <2> QED BY <2>1, <2>2, FoldStays
<1> QED BY <1>10, <1>13 DEF V

\* The transactions of blocks and of the pool, in one sequence.
LEMMA RemovedAre ==
  ASSUME NEW A, NEW N \in Nat, NEW f, \A n \in 1..N : f[n] \in Seq(A)
  PROVE  FlattenSeq([n \in 1..N |-> f[n]]) \in Seq(A)
<1>1. PICK q : q = [n \in 1..N |-> f[n]]
  OBVIOUS
<1>2. q \in Seq(Seq(A))
  <2>1. q \in [1..N -> Seq(A)]
    BY <1>1
  <2> QED BY <2>1
<1> QED BY <1>1, <1>2, FlattenedHold

-----------------------------------------------------------------------------
(* What a block pays *)

LEMMA Floor ==
  ASSUME NEW x \in Nat, NEW d \in Nat \ {0}
  PROVE  /\ x \div d \in Nat
         /\ d * (x \div d) <= x
OBVIOUS

\* What each share of an amount gives, rounded down.
Quota(shares, amount) == [x \in shares |-> (amount * x.num) \div x.den]

AreShares(shares) ==
  /\ IsFiniteSet(shares) /\ shares # {}
  /\ \A x \in shares : x.to \in Address /\ x.num \in Nat /\ x.den \in Nat \ {0}

\* What is paid to each account, nothing to those that are not named.
Part(r) == [a \in Address |-> IF a \in DOMAIN r THEN r[a] ELSE 0]

LEMMA QuotaType ==
  ASSUME NEW shares, AreShares(shares), NEW amount \in Nat
  PROVE  \A x \in shares : Quota(shares, amount)[x] \in Nat
<1> SUFFICES ASSUME NEW x \in shares
             PROVE  (amount * x.num) \div x.den \in Nat
  BY DEF Quota
<1>1. x.num \in Nat /\ x.den \in Nat \ {0}
  BY DEF AreShares
<1>2. PICK m \in Nat : m = amount * x.num
  BY <1>1
<1> QED BY <1>1, <1>2, Floor

\* An amount is given out whole, however it is rounded; and nobody pays, if the
\* rounded shares are not more than the amount.
LEMMA DistributeGives ==
  ASSUME NEW shares, AreShares(shares), NEW amount \in Nat,
         NEW r, r = Distribute(shares, amount)
  PROVE  /\ \A a \in Address : Part(r)[a] \in Int
         /\ SumOver(Part(r), Address) = amount
         /\ SumOver(Quota(shares, amount), shares) <= amount
              => \A a \in Address : Part(r)[a] \in Nat
<1>0. IsFiniteSet(Address)
  BY MessageAssumption
<1>1. CASE amount = 0
  <2>1. r = <<>>
    BY <1>1 DEF Distribute
  <2>2. \A a \in Address : Part(r)[a] = 0
    BY <2>1 DEF Part
  <2>3. SumOver(Part(r), Address) = Cardinality(Address) * 0
    BY <1>0, <2>2, SumOfEquals
  <2>4. Cardinality(Address) \in Nat
    BY <1>0, FS_CardinalityType
  <2> QED BY <1>1, <2>2, <2>3, <2>4
<1>2. CASE amount # 0
  <2>1. PICK q : q = Quota(shares, amount)
    OBVIOUS
  <2>2. PICK to : to = [x \in shares |-> x.to]
    OBVIOUS
  <2>3. PICK paid : paid = {x.to : x \in shares}
    OBVIOUS
  <2>4. /\ paid \in SUBSET Address /\ paid # {} /\ IsFiniteSet(paid) /\ IsFiniteSet(shares)
        /\ \A x \in shares : to[x] \in paid /\ q[x] \in Nat
    <3>1. paid \in SUBSET Address /\ paid # {} /\ IsFiniteSet(shares)
      BY <2>3 DEF AreShares
    <3>2. IsFiniteSet(paid)
      BY <1>0, <3>1, FS_Subset
    <3>3. \A x \in shares : to[x] \in paid /\ q[x] \in Nat
      BY <2>1, <2>2, <2>3, QuotaType
    <3> QED BY <3>1, <3>2, <3>3
  <2>5. PICK ofs : ofs = [a \in Address |-> SumOver(q, {x \in shares : to[x] = a})]
    OBVIOUS
  <2>6. \A a \in Address : ofs[a] \in Nat /\ (a \notin paid => ofs[a] = 0)
    <3> TAKE a \in Address
    <3>1. PICK S : S = {x \in shares : to[x] = a}
      OBVIOUS
    <3>2. IsFiniteSet(S) /\ \A x \in S : q[x] \in Nat
      BY <2>4, <3>1, FS_Subset
    <3>3. SumOver(q, S) \in Nat
      BY <3>2, SumOfNumbers
    <3>4. a \notin paid => S = {}
      BY <2>4, <3>1
    <3> QED BY <2>5, <3>1, <3>3, <3>4, SumOfNothing
  <2>7. PICK all \in Nat : all = SumOver(q, shares)
    BY <2>4, SumOfNumbers
  <2>8. SumOver(ofs, Address) = all
    <3>1. SumOver([a \in Address |-> SumOver(q, {x \in shares : to[x] = a})], Address)
            = SumOver(q, shares)
      BY <1>0, <2>4, SumFibers
    <3> QED BY <2>5, <2>7, <3>1
  <2>9. SumOver(ofs, paid) = all
    <3>1. PICK d : d = [a \in paid |-> SumOver(q, {x \in shares : to[x] = a})]
      OBVIOUS
    <3>2. SumOver(d, paid) = SumOver(q, shares)
      BY <2>4, <3>1, SumFibers
    <3>3. \A a \in paid : d[a] \in Int /\ d[a] = ofs[a]
      BY <2>4, <2>5, <2>6, <3>1
    <3>4. SumOver(d, paid) = SumOver(ofs, paid)
      BY <2>4, <3>3, SumSame
    <3> QED BY <2>7, <3>2, <3>4
  <2>10. PICK last \in paid : \A b \in paid : Rank[b] <= Rank[last]
    <3>1. PICK R : R = {Rank[a] : a \in paid}
      OBVIOUS
    <3>2. R \in SUBSET Int /\ R # {}
      BY <2>4, <3>1, MessageAssumption
    <3>3. IsFiniteSet(R)
      BY <2>4, <3>1, ImageIsFinite
    <3>4. Max(R) \in R /\ \A n \in R : n <= Max(R)
      BY <3>2, <3>3, GreatestOfFinite
    <3> QED BY <3>1, <3>4
  <2>11. \A a \in paid : (\A b \in paid : Rank[b] <= Rank[a]) <=> a = last
    <3> TAKE a \in paid
    <3>1. Rank[a] \in Int /\ Rank[last] \in Int /\ (a # last => Rank[a] # Rank[last])
      BY <2>4, MessageAssumption, CatalogueAssumption
    <3> QED BY <2>10, <3>1
  <2>12. r = [a \in paid |-> ofs[a] + IF a = last THEN amount - all ELSE 0]
    <3> DEFINE Of(a) == SumFunction([s \in {x \in shares : x.to = a} |-> (amount * s.num) \div s.den])
               rest == amount - SumFunction([a \in paid |-> Of(a)])
    <3>1. r = [a \in paid |-> Of(a) + IF \A b \in paid : Rank[b] <= Rank[a] THEN rest ELSE 0]
      BY <1>2, <2>3 DEF Distribute
    <3>2. \A a \in paid : Of(a) = ofs[a]
      <4> TAKE a \in paid
      <4>1. PICK S : S = {x \in shares : x.to = a}
        OBVIOUS
      <4>2. PICK d : d = [s \in S |-> (amount * s.num) \div s.den]
        OBVIOUS
      <4>3. Of(a) = SumFunction(d)
        BY <4>1, <4>2
      <4>4. SumFunction(d) = SumOver(d, S)
        BY <4>2, FunctionSum
      <4>5. IsFiniteSet(S) /\ \A s \in S : d[s] \in Int /\ d[s] = q[s]
        <5>1. IsFiniteSet(S) /\ S \in SUBSET shares
          BY <2>4, <4>1, FS_Subset
        <5>2. \A s \in S : d[s] = q[s]
          BY <2>1, <4>1, <4>2 DEF Quota
        <5> QED BY <2>4, <5>1, <5>2
      <4>6. SumOver(d, S) = SumOver(q, S)
        BY <4>5, SumSame
      <4>7. S = {x \in shares : to[x] = a}
        BY <2>2, <4>1
      <4>8. ofs[a] = SumOver(q, S)
        BY <2>4, <2>5, <4>7
      <4> HIDE DEF Of
      <4> QED BY <4>3, <4>4, <4>6, <4>8
    <3>3. rest = amount - all
      <4>1. PICK d : d = [a \in paid |-> Of(a)]
        OBVIOUS
      <4>2. rest = amount - SumFunction(d)
        BY <4>1
      <4> HIDE DEF Of, rest
      <4>3. SumFunction(d) = SumOver(d, paid)
        BY <4>1, FunctionSum
      <4>4. \A a \in paid : d[a] \in Int /\ d[a] = ofs[a]
        BY <2>4, <2>6, <3>2, <4>1
      <4>5. SumOver(d, paid) = SumOver(ofs, paid)
        BY <2>4, <4>4, SumSame
      <4> QED BY <2>9, <4>2, <4>3, <4>5
    <3> HIDE DEF Of, rest
    <3> QED BY <2>11, <3>1, <3>2, <3>3
  <2>13. \A a \in Address : Part(r)[a] = ofs[a] + IF a = last THEN amount - all ELSE 0
    <3> TAKE a \in Address
    <3>1. CASE a \in paid
      BY <2>12, <3>1 DEF Part
    <3>2. CASE a \notin paid
      BY <2>6, <2>10, <2>12, <3>2 DEF Part
    <3> QED BY <3>1, <3>2
  <2>14. SumOver(Part(r), Address) = all + (amount - all)
    <3>1. PICK e : e = Part(r)
      OBVIOUS
    <3>2. PICK x \in Int : x = amount - all
      OBVIOUS
    <3>3. ofs \in [Address -> Int]
      BY <2>5, <2>6
    <3>4. e \in [Address -> Int] /\ e[last] = ofs[last] + x
          /\ \A b \in Address : b # last => e[b] = ofs[b]
      <4>1. \A b \in Address : e[b] = ofs[b] + (IF b = last THEN x ELSE 0) /\ ofs[b] \in Nat
        BY <2>6, <2>13, <3>1, <3>2
      <4>2. e = [b \in Address |-> e[b]]
        BY <3>1 DEF Part
      <4> QED BY <2>4, <2>10, <4>1, <4>2
    <3>5. SumOver(e, Address) = SumOver(ofs, Address) + x
      BY <1>0, <2>4, <2>10, <3>3, <3>4, SumChanges
    <3> QED BY <2>8, <3>1, <3>2, <3>5
  <2>15. SumOver(Part(r), Address) = amount
    BY <2>14
  <2>16. SumOver(Quota(shares, amount), shares) = all
    BY <2>1, <2>7
  <2> QED BY <2>6, <2>13, <2>15, <2>16
<1> QED BY <1>1, <1>2


LEMMA Cancels ==
  ASSUME NEW d \in Nat \ {0}, NEW x \in Nat, NEW y \in Nat, d * x <= d * y
  PROVE  x <= y
<1> SUFFICES ASSUME x >= y + 1
             PROVE  FALSE
  OBVIOUS
<1>1. d * x >= d * (y + 1)
  OBVIOUS
<1>2. d * (y + 1) = d * y + d
  OBVIOUS
<1> QED BY <1>1, <1>2

\* Shares of one denominator that are together not more than the whole.
LEMMA QuotasFit ==
  ASSUME NEW shares, AreShares(shares), NEW amount \in Nat, NEW d \in Nat \ {0},
         \A x \in shares : x.den = d,
         NEW num, \A x \in shares : num[x] = x.num, SumOver(num, shares) <= d
  PROVE  SumOver(Quota(shares, amount), shares) <= amount
<1>1. PICK q : q = Quota(shares, amount)
  OBVIOUS
<1>2. PICK p : p = [x \in shares |-> d * q[x]]
  OBVIOUS
<1>3. PICK r : r = [x \in shares |-> amount * num[x]]
  OBVIOUS
<1>4. IsFiniteSet(shares) /\ \A x \in shares : num[x] \in Nat /\ q[x] \in Nat
  <2>1. \A x \in shares : q[x] \in Nat
    BY <1>1, QuotaType
  <2> QED BY <2>1 DEF AreShares
<1>5. \A x \in shares : p[x] \in Int /\ r[x] \in Int /\ p[x] <= r[x]
  <2> TAKE x \in shares
  <2>1. q[x] = (amount * num[x]) \div d
    BY <1>1 DEF Quota
  <2>2. PICK m \in Nat : m = amount * num[x]
    BY <1>4
  <2>3. d * q[x] <= m
    BY <2>1, <2>2, Floor
  <2>4. d * q[x] \in Int
    BY <1>4
  <2> QED BY <1>2, <1>3, <2>2, <2>3, <2>4
<1>6. SumOver(p, shares) <= SumOver(r, shares)
  BY <1>4, <1>5, SumAtMost
<1>7. SumOver(p, shares) = d * SumOver(q, shares)
  BY <1>2, <1>4, SumScales
<1>8. SumOver(r, shares) = amount * SumOver(num, shares)
  BY <1>3, <1>4, SumScales
<1>9. PICK n \in Nat : n = SumOver(num, shares) /\ n <= d
  BY <1>4, SumOfNumbers
<1>10. PICK s \in Nat : s = SumOver(q, shares)
  BY <1>4, SumOfNumbers
<1>11. amount * n <= amount * d
  BY <1>9
<1>12. d * s <= d * amount
  BY <1>6, <1>7, <1>8, <1>9, <1>10, <1>11
<1>13. s <= amount
  BY <1>10, <1>12, Cancels
<1> QED BY <1>1, <1>10, <1>13

\* Shares of authors: those of a unit are split evenly among its files, and those of a
\* file among its authors.
SplitAmong(x, units, U, files, len, total) ==
  \E u \in units : \E f \in files[u] : \E n \in 1..len[f] :
    /\ x.num = U[u]
    /\ x.den = Cardinality(files[u]) * len[f] * total
    /\ x.item = <<u, f, n>>

LEMMA FileQuotasFit ==
  ASSUME NEW A \in Nat, NEW U \in Nat, NEW F \in Nat \ {0}, NEW L \in Nat \ {0},
         NEW T \in Nat \ {0}, NEW k \in Nat, NEW s \in Nat,
         (F * L * T) * k <= A * U, s <= L * k
  PROVE  (F * T) * s <= A * U
<1>1. PICK c \in Nat : c = F * T
  OBVIOUS
<1>2. c * s <= c * (L * k)
  <2>1. PICK y \in Nat : y = L * k
    OBVIOUS
  <2>2. c * s <= c * y
    BY <2>1
  <2> QED BY <2>1, <2>2
<1>3. c * (L * k) = (F * L * T) * k
  BY <1>1
<1>4. c * s \in Int /\ c * (L * k) \in Int /\ A * U \in Int
  OBVIOUS
<1> QED BY <1>1, <1>2, <1>3, <1>4

\* What is scaled and summed in each place at most as given there.
LEMMA FibersAtMost ==
  ASSUME NEW S, IsFiniteSet(S), NEW d, \A x \in S : d[x] \in Nat,
         NEW G, IsFiniteSet(G), NEW g, \A x \in S : g[x] \in G,
         NEW k \in Nat, NEW e,
         \A y \in G : e[y] \in Nat /\ k * SumOver(d, {x \in S : g[x] = y}) <= e[y]
  PROVE  k * SumOver(d, S) <= SumOver(e, G)
<1>1. PICK h : h = [y \in G |-> SumOver(d, {x \in S : g[x] = y})]
  OBVIOUS
<1>2. SumOver(h, G) = SumOver(d, S)
  <2>1. \A x \in S : d[x] \in Int
    OBVIOUS
  <2> QED BY <1>1, <2>1, SumFibers
<1>3. \A y \in G : h[y] \in Nat
  <2> TAKE y \in G
  <2>1. PICK F : F = {x \in S : g[x] = y}
    OBVIOUS
  <2>2. IsFiniteSet(F) /\ \A x \in F : d[x] \in Nat
    BY <2>1, FS_Subset
  <2>3. SumOver(d, F) \in Nat
    BY <2>2, SumOfNumbers
  <2> QED BY <1>1, <2>1, <2>3
<1>4. PICK m : m = [y \in G |-> k * h[y]]
  OBVIOUS
<1>5. \A y \in G : m[y] \in Int /\ e[y] \in Int /\ m[y] <= e[y]
  BY <1>1, <1>3, <1>4
<1>6. SumOver(m, G) <= SumOver(e, G)
  BY <1>5, SumAtMost
<1>7. SumOver(m, G) = k * SumOver(h, G)
  <2>1. k \in Int /\ \A y \in G : h[y] \in Int /\ m[y] = k * h[y]
    BY <1>3, <1>4
  <2> QED BY <2>1, SumScales
<1> QED BY <1>2, <1>6, <1>7

\* The shares in one file.
LEMMA ShareOfFile ==
  ASSUME NEW S, IsFiniteSet(S), NEW q, NEW k \in Nat, \A x \in S : q[x] = k,
         NEW L \in Nat, NEW g, \A x \in S : g[x] \in 1..L,
         \A x, y \in S : g[x] = g[y] => x = y
  PROVE  SumOver(q, S) \in Nat /\ SumOver(q, S) <= L * k
<1>1. PICK G : G = {g[x] : x \in S}
  OBVIOUS
<1>2. IsFiniteSet(1..L) /\ Cardinality(1..L) = L
  BY FS_Interval
<1>3. G \in SUBSET (1..L)
  BY <1>1
<1>4. Cardinality(G) \in Nat /\ Cardinality(G) <= L /\ IsFiniteSet(G)
  <2>1. IsFiniteSet(G) /\ Cardinality(G) <= Cardinality(1..L)
    BY <1>2, <1>3, FS_Subset
  <2>2. Cardinality(G) \in Nat
    BY <2>1, FS_CardinalityType
  <2> QED BY <1>2, <2>1, <2>2
<1>5. PICK c : c = [y \in G |-> CHOOSE x \in S : g[x] = y]
  OBVIOUS
<1>6. \A x \in S : c[g[x]] = x
  <2> TAKE x \in S
  <2>1. \E z \in S : g[z] = g[x]
    OBVIOUS
  <2>2. c[g[x]] = CHOOSE z \in S : g[z] = g[x]
    BY <1>1, <1>5
  <2>3. c[g[x]] \in S /\ g[c[g[x]]] = g[x]
    BY <2>1, <2>2
  <2> QED BY <2>3
<1>7. S = {c[y] : y \in G}
  BY <1>1, <1>6
<1>8. Cardinality(S) <= Cardinality(G)
  BY <1>4, <1>7, ImageIsFinite
<1>9. SumOver(q, S) = Cardinality(S) * k
  BY SumOfEquals
<1>10. PICK n \in Nat : n = Cardinality(S) /\ n <= L
  BY <1>4, <1>8, FS_CardinalityType
<1>11. n * k <= L * k
  BY <1>10
<1> QED BY <1>9, <1>10, <1>11

LEMMA OneFile ==
  ASSUME NEW S, IsFiniteSet(S), NEW A \in Nat, NEW q,
         NEW U \in Nat, NEW F \in Nat \ {0}, NEW L \in Nat \ {0}, NEW T \in Nat \ {0},
         \A x \in S : q[x] = (A * U) \div (F * L * T),
         NEW g, \A x \in S : g[x] \in 1..L,
         \A x, y \in S : g[x] = g[y] => x = y
  PROVE  (F * T) * SumOver(q, S) <= A * U
<1>1. PICK m \in Nat : m = A * U
  OBVIOUS
<1>2. PICK D \in Nat \ {0} : D = F * L * T
  <2>1. PICK e \in Nat \ {0} : e = F * L
    OBVIOUS
  <2>2. e * T \in Nat \ {0}
    OBVIOUS
  <2> QED BY <2>1, <2>2
<1>3. PICK k \in Nat : k = m \div D /\ D * k <= m
  BY Floor
<1>4. \A x \in S : q[x] = k
  BY <1>1, <1>2, <1>3
<1>5. SumOver(q, S) \in Nat /\ SumOver(q, S) <= L * k
  BY <1>4, ShareOfFile
<1>6. PICK s \in Nat : s = SumOver(q, S)
  BY <1>5
<1>7. (F * L * T) * k <= A * U
  BY <1>1, <1>2, <1>3
<1> QED BY <1>5, <1>6, <1>7, FileQuotasFit

LEMMA AuthorQuotasFit ==
  ASSUME NEW shares, AreShares(shares), NEW A \in Nat,
         NEW units, IsFiniteSet(units), NEW U, \A u \in units : U[u] \in Nat \ {0},
         NEW files, \A u \in units : IsFiniteSet(files[u]) /\ files[u] # {},
         NEW len, \A u \in units : \A f \in files[u] : len[f] \in Nat \ {0},
         NEW T \in Nat \ {0}, T = SumOver(U, units),
         \A x \in shares : SplitAmong(x, units, U, files, len, T),
         \A x, y \in shares : x.item = y.item => x = y
  PROVE  SumOver(Quota(shares, A), shares) <= A
<1>1. PICK q : q = Quota(shares, A)
  OBVIOUS
<1>2. IsFiniteSet(shares) /\ \A x \in shares : q[x] \in Nat
  BY <1>1, QuotaType DEF AreShares
<1>3. PICK g : g = [x \in shares |-> x.item[1]]
  OBVIOUS
<1>4. \A x \in shares : g[x] \in units
  BY <1>3 DEF SplitAmong
<1>5. PICK e : e = [u \in units |-> A * U[u]]
  OBVIOUS
<1>6. ASSUME NEW u \in units
      PROVE  e[u] \in Nat /\ T * SumOver(q, {x \in shares : g[x] = u}) <= e[u]
  <2>1. PICK S : S = {x \in shares : g[x] = u}
    OBVIOUS
  <2>2. IsFiniteSet(S) /\ S \in SUBSET shares
    BY <1>2, <2>1, FS_Subset
  <2>3. PICK G : G = files[u] /\ IsFiniteSet(G) /\ G # {}
    OBVIOUS
  <2>4. PICK F \in Nat \ {0} : F = Cardinality(G)
    <3>1. Cardinality(G) \in Nat
      BY <2>3, FS_CardinalityType
    <3>2. Cardinality(G) # 0
      BY <2>3, FS_EmptySet
    <3> QED BY <3>1, <3>2
  <2>5. PICK c \in Nat \ {0} : c = U[u]
    OBVIOUS
  <2>6. PICK m \in Nat : m = A * c /\ e[u] = m
    BY <1>5, <2>5
  <2>7. PICK h : h = [x \in S |-> x.item[2]]
    OBVIOUS
  <2>8. \A x \in S : \E f \in G : \E n \in 1..len[f] :
          x.item = <<u, f, n>> /\ x.num = c /\ x.den = F * len[f] * T
    <3> TAKE x \in S
    <3>1. SplitAmong(x, units, U, files, len, T) /\ x.item[1] = u
      BY <1>3, <2>1
    <3>2. PICK v \in units : \E f \in files[v] : \E n \in 1..len[f] :
            /\ x.num = U[v] /\ x.den = Cardinality(files[v]) * len[f] * T
            /\ x.item = <<v, f, n>>
      BY <3>1 DEF SplitAmong
    <3>3. v = u
      BY <3>1, <3>2
    <3> QED BY <2>3, <2>4, <2>5, <3>2, <3>3
  <2>9. \A x \in S : h[x] \in G
    BY <2>7, <2>8
  <2>10. ASSUME NEW f \in G
         PROVE  (F * T) * SumOver(q, {x \in S : h[x] = f}) <= m
    <3>1. PICK R : R = {x \in S : h[x] = f}
      OBVIOUS
    <3>2. IsFiniteSet(R) /\ R \in SUBSET S
      BY <2>2, <3>1, FS_Subset
    <3>3. PICK L \in Nat \ {0} : L = len[f]
      BY <2>3
    <3>4. PICK p : p = [x \in R |-> x.item[3]]
      OBVIOUS
    <3>5. ASSUME NEW x \in R
          PROVE  /\ x.item = <<u, f, p[x]>> /\ p[x] \in 1..L
                 /\ q[x] = (A * c) \div (F * L * T)
      <4>1. PICK y \in G : \E n \in 1..len[y] :
              x.item = <<u, y, n>> /\ x.num = c /\ x.den = F * len[y] * T
        BY <2>8, <3>2
      <4>2. y = f
        BY <2>7, <3>1, <3>2, <4>1
      <4>3. /\ p[x] \in 1..L /\ x.item = <<u, f, p[x]>>
            /\ x.num = c /\ x.den = F * L * T
        BY <3>3, <3>4, <4>1, <4>2
      <4>4. q[x] = (A * x.num) \div x.den
        BY <1>1, <2>2, <3>2 DEF Quota
      <4> QED BY <4>3, <4>4
    <3>6. \A x, y \in R : p[x] = p[y] => x = y
      BY <2>2, <3>2, <3>5
    <3>7. (F * T) * SumOver(q, R) <= A * c
      BY <3>2, <3>5, <3>6, OneFile
    <3> QED BY <2>6, <3>1, <3>7
  <2>11. PICK b : b = [f \in G |-> m]
    OBVIOUS
  <2>12. PICK k \in Nat : k = F * T
    OBVIOUS
  <2>13. \A f \in G : b[f] \in Nat /\ k * SumOver(q, {x \in S : h[x] = f}) <= b[f]
    BY <2>6, <2>10, <2>11, <2>12
  <2>14. \A x \in S : q[x] \in Nat
    BY <1>2, <2>2
  <2>15. k * SumOver(q, S) <= SumOver(b, G)
    BY <2>2, <2>3, <2>9, <2>13, <2>14, FibersAtMost
  <2>16. SumOver(b, G) = F * m
    BY <2>3, <2>4, <2>11, SumOfEquals
  <2>17. PICK s \in Nat : s = SumOver(q, S)
    BY <2>2, <2>14, SumOfNumbers
  <2>18. F * (T * s) <= F * m
    BY <2>12, <2>15, <2>16, <2>17
  <2>19. T * s <= m
    <3>1. T * s \in Nat
      OBVIOUS
    <3> QED BY <2>18, <3>1, Cancels
  <2> QED BY <2>1, <2>6, <2>17, <2>19
<1>7. T * SumOver(q, shares) <= SumOver(e, units)
  BY <1>2, <1>4, <1>6, FibersAtMost
<1>8. SumOver(e, units) = A * T
  <2>1. \A u \in units : U[u] \in Int /\ e[u] = A * U[u]
    BY <1>5
  <2> QED BY <2>1, SumScales
<1>9. PICK s \in Nat : s = SumOver(q, shares)
  BY <1>2, SumOfNumbers
<1>10. T * s <= T * A
  BY <1>7, <1>8, <1>9
<1>11. s <= A
  BY <1>10, Cancels
<1> QED BY <1>1, <1>9, <1>11

-----------------------------------------------------------------------------
(* The views that are paid for *)

\* What servers report.
AreReports(reports) ==
  /\ IsFiniteSet(DOMAIN reports)
  /\ \A c \in DOMAIN reports :
       IsFiniteSet(reports[c]) /\ \A i \in reports[c] : i.count \in Nat \ {0}

\* A view is what a channel reports of a storage.
Viewed(v, channels, storages) ==
  \E c \in DOMAIN channels : \E i \in channels[c] : v = View(c, i) /\ i.peer \in DOMAIN storages

LEMMA ViewsAre ==
  ASSUME NEW channels, NEW storages, AreReports(channels)
  PROVE  /\ IsFiniteSet(VerifiedViews(channels, storages))
         /\ \A v \in VerifiedViews(channels, storages) : Viewed(v, channels, storages)
<1> DEFINE Reported(c, f, s) == Sum({i \in channels[c] : i.file = f /\ i.peer = s})
           Confirmed(c, i) ==
             /\ i.peer \in DOMAIN storages
             /\ \E j \in storages[i.peer] :
                  j.peer = c /\ j.file = i.file /\ Agree(Reported(c, i.file, i.peer), j.count)
           Of(c) == {View(c, i) : i \in {j \in channels[c] : Confirmed(c, j)}}
<1>1. VerifiedViews(channels, storages) = UNION {Of(c) : c \in DOMAIN channels}
  BY DEF VerifiedViews
<1>2. ASSUME NEW c, NEW i, Confirmed(c, i)
      PROVE  i.peer \in DOMAIN storages
  BY <1>2
<1> HIDE DEF Confirmed
<1>3. ASSUME NEW c \in DOMAIN channels
      PROVE  /\ IsFiniteSet(Of(c))
             /\ \A v \in Of(c) : Viewed(v, channels, storages)
  <2>1. PICK S : S = {j \in channels[c] : Confirmed(c, j)}
    OBVIOUS
  <2>2. IsFiniteSet(S) /\ S \in SUBSET channels[c]
    BY <2>1, FS_Subset DEF AreReports
  <2>3. PICK g : g = [i \in S |-> View(c, i)]
    OBVIOUS
  <2>4. Of(c) = {g[i] : i \in S}
    BY <2>1, <2>3
  <2>5. IsFiniteSet(Of(c))
    BY <2>2, <2>4, ImageIsFinite
  <2>6. \A i \in S : i.peer \in DOMAIN storages
    BY <1>2, <2>1
  <2>7. \A v \in Of(c) : \E i \in S : v = View(c, i)
    BY <2>1
  <2> QED BY <2>2, <2>5, <2>6, <2>7 DEF Viewed
<1> HIDE DEF Of
<1>4. PICK F : F = [c \in DOMAIN channels |-> Of(c)]
  OBVIOUS
<1>5. PICK G : G = {F[c] : c \in DOMAIN channels}
  OBVIOUS
<1>6. IsFiniteSet(G)
  BY <1>5, ImageIsFinite DEF AreReports
<1>7. \A X \in G : \E c \in DOMAIN channels : X = Of(c)
  BY <1>4, <1>5
<1>8. {Of(c) : c \in DOMAIN channels} = G
  BY <1>4, <1>5
<1>9. IsFiniteSet(UNION G)
  BY <1>3, <1>6, <1>7, FS_UNION
<1> QED BY <1>1, <1>3, <1>8, <1>9

\* What the shares are made of: views of files of units that are there.
AreViews(w, views) ==
  /\ IsFiniteSet(views) /\ views # {}
  /\ \A v \in views :
       /\ v.count \in Nat \ {0}
       /\ v.peer \in Address /\ v.channel \in Address
       /\ w.units[v.unit].channel \in Address
       /\ w.files[v.file] \in Seq(Address) /\ w.files[v.file] # <<>>

LEMMA SumOfViews ==
  ASSUME NEW views, IsFiniteSet(views), \A v \in views : v.count \in Nat \ {0}
  PROVE  /\ Sum(views) = SumOver([v \in views |-> v.count], views)
         /\ Sum(views) \in Nat
         /\ views # {} => Sum(views) \in Nat \ {0}
         /\ Cardinality(views) \in Nat /\ Cardinality(views) <= Sum(views)
<1>1. PICK d : d = [v \in views |-> v.count]
  OBVIOUS
<1>2. Sum(views) = SumFunction(d)
  BY <1>1 DEF Sum
<1>3. SumFunction(d) = SumOver(d, views)
  BY <1>1, FunctionSum
<1>4. \A v \in views : d[v] \in Nat \ {0}
  BY <1>1
<1>5. /\ Cardinality(views) \in Nat /\ SumOver(d, views) \in Nat
      /\ Cardinality(views) <= SumOver(d, views)
      /\ views # {} => Cardinality(views) >= 1
  BY <1>4, SumCounts
<1> QED BY <1>1, <1>2, <1>3, <1>5

-----------------------------------------------------------------------------
(* The shares *)

LEMMA SumOfOne ==
  ASSUME NEW d, NEW a, d[a] \in Int
  PROVE  SumOver(d, {a}) = d[a]
<1>1. IsFiniteSet({a}) /\ Cardinality({a}) = 1
  BY FS_Singleton
<1>2. SumOver(d, {a}) = Cardinality({a}) * d[a]
  BY <1>1, SumOfEquals
<1> QED BY <1>1, <1>2

\* Shares that are told apart by their item are summed over the items.
LEMMA SumOfItems ==
  ASSUME NEW I, IsFiniteSet(I), NEW share,
         \A i \in I : share[i].item = i /\ share[i].num \in Nat,
         NEW shares, \A x : x \in shares <=> \E i \in I : x = share[i]
  PROVE  /\ IsFiniteSet(shares)
         /\ SumOver([x \in shares |-> x.num], shares) = SumOver([i \in I |-> share[i].num], I)
<1>1. IsFiniteSet(shares)
  <2>1. IsFiniteSet({share[i] : i \in I})
    BY ImageIsFinite
  <2>2. shares = {share[i] : i \in I}
    OBVIOUS
  <2> QED BY <2>1, <2>2
<1>2. PICK d : d = [i \in I |-> share[i].num]
  OBVIOUS
<1>3. PICK g : g = [i \in I |-> share[i]]
  OBVIOUS
<1>4. PICK h : h = [y \in shares |-> SumOver(d, {i \in I : g[i] = y})]
  OBVIOUS
<1>5. SumOver(h, shares) = SumOver(d, I)
  <2>1. \A i \in I : d[i] \in Int /\ g[i] \in shares
    BY <1>2, <1>3
  <2> QED BY <1>1, <1>4, <2>1, SumFibers
<1>6. PICK e : e = [x \in shares |-> x.num]
  OBVIOUS
<1>7. \A y \in shares : e[y] \in Int /\ e[y] = h[y]
  <2> TAKE y \in shares
  <2>1. PICK i \in I : y = share[i]
    OBVIOUS
  <2>2. {j \in I : g[j] = y} = {i}
    BY <1>3, <2>1
  <2>3. SumOver(d, {i}) = d[i]
    <3>1. d[i] \in Int
      BY <1>2
    <3> QED BY <3>1, SumOfOne
  <2>4. h[y] = d[i]
    BY <1>4, <2>2, <2>3
  <2> QED BY <1>2, <1>6, <2>1, <2>4
<1>8. SumOver(e, shares) = SumOver(h, shares)
  BY <1>1, <1>7, SumSame
<1> QED BY <1>1, <1>2, <1>5, <1>6, <1>8

\* Shares that may be given out: none is paid more than there is.
Fair(shares) ==
  /\ AreShares(shares)
  /\ \A amount \in Nat : SumOver(Quota(shares, amount), shares) <= amount

LEMMA StorageSharesAre ==
  ASSUME NEW w, NEW views, AreViews(w, views)
  PROVE  Fair(StorageShares(views))
<1>1. PICK I : I = {v.peer : v \in views}
  OBVIOUS
<1>2. PICK peer : peer = [v \in views |-> v.peer]
  OBVIOUS
<1>3. /\ IsFiniteSet(views) /\ views # {} /\ \A v \in views : v.count \in Nat \ {0}
      /\ I \in SUBSET Address /\ I # {}
  BY <1>1 DEF AreViews
<1>4. IsFiniteSet(I)
  <2>1. I = {peer[v] : v \in views}
    BY <1>1, <1>2
  <2> QED BY <1>3, <2>1, ImageIsFinite
<1>5. PICK D : D \in Nat \ {0} /\ D = Sum(views)
  BY <1>3, SumOfViews
<1>6. PICK share : share = [s \in I |-> [to |-> s, num |-> Sum({v \in views : v.peer = s}),
                                         den |-> D, item |-> s]]
  OBVIOUS
<1>7. PICK shares : shares = StorageShares(views)
  OBVIOUS
<1>8. \A x : x \in shares <=> \E s \in I : x = share[s]
  BY <1>1, <1>5, <1>6, <1>7 DEF StorageShares
<1>9. PICK d : d = [v \in views |-> v.count]
  OBVIOUS
<1>10. ASSUME NEW s \in I
       PROVE  /\ share[s].to = s /\ share[s].item = s /\ share[s].den = D
              /\ share[s].num \in Nat
              /\ share[s].num = SumOver(d, {v \in views : peer[v] = s})
  <2>1. PICK S : S = {v \in views : v.peer = s}
    OBVIOUS
  <2>2. IsFiniteSet(S) /\ \A v \in S : v.count \in Nat \ {0}
    BY <1>3, <2>1, FS_Subset
  <2>3. PICK e : e = [v \in S |-> v.count]
    OBVIOUS
  <2>4. Sum(S) = SumOver(e, S) /\ Sum(S) \in Nat
    BY <2>2, <2>3, SumOfViews
  <2>5. \A v \in S : e[v] \in Int /\ e[v] = d[v]
    BY <1>9, <2>1, <2>2, <2>3
  <2>6. SumOver(e, S) = SumOver(d, S)
    BY <2>2, <2>5, SumSame
  <2>7. S = {v \in views : peer[v] = s}
    BY <1>2, <2>1
  <2>8. /\ share[s].to = s /\ share[s].item = s /\ share[s].den = D
        /\ share[s].num = Sum(S)
    BY <1>6, <2>1
  <2> QED BY <2>4, <2>6, <2>7, <2>8
<1>20. \A i \in I : share[i].item = i /\ share[i].num \in Nat
  BY <1>10
<1>21. \A x \in shares : x.to \in I /\ x.den = D /\ x.num \in Nat
  <2> TAKE x \in shares
  <2>1. PICK s \in I : x = share[s]
    BY <1>8
  <2>2. share[s].to = s /\ share[s].den = D /\ share[s].num \in Nat
    BY <1>10
  <2> QED BY <2>1, <2>2
<1>22. shares # {}
  BY <1>3, <1>8
<1>11. IsFiniteSet(shares)
       /\ SumOver([x \in shares |-> x.num], shares) = SumOver([i \in I |-> share[i].num], I)
  BY <1>4, <1>8, <1>20, SumOfItems
<1>12. SumOver([i \in I |-> share[i].num], I) = D
  <2>1. PICK h : h = [y \in I |-> SumOver(d, {v \in views : peer[v] = y})]
    OBVIOUS
  <2>2. SumOver(h, I) = SumOver(d, views)
    <3>1. \A v \in views : d[v] \in Int /\ peer[v] \in I
      BY <1>1, <1>2, <1>3, <1>9
    <3> QED BY <1>3, <1>4, <2>1, <3>1, SumFibers
  <2>3. [i \in I |-> share[i].num] = h
    BY <1>10, <2>1
  <2>4. Sum(views) = SumOver(d, views)
    BY <1>3, <1>9, SumOfViews
  <2> QED BY <1>5, <2>2, <2>3, <2>4
<1>13. AreShares(shares)
  BY <1>3, <1>5, <1>11, <1>21, <1>22 DEF AreShares
<1>14. PICK num : num = [x \in shares |-> x.num]
  OBVIOUS
<1>15. \A x \in shares : x.den = D /\ num[x] = x.num
  BY <1>14, <1>21
<1>16. SumOver(num, shares) <= D
  BY <1>5, <1>11, <1>12, <1>14
<1>17. \A amount \in Nat : SumOver(Quota(shares, amount), shares) <= amount
  BY <1>5, <1>13, <1>15, <1>16, QuotasFit
<1> QED BY <1>7, <1>13, <1>17 DEF Fair

LEMMA ChannelCountIs ==
  ASSUME NEW w, NEW views, IsFiniteSet(views), views # {},
         \A v \in views : v.count \in Nat \ {0}
  PROVE  ChannelCount(w, views) \in Nat \ {0}
<1> DEFINE Of(x) == Sum({v \in views : v.unit = x.unit /\ v.file = x.file})
           In(c) == {y \in views : w.units[y.unit].content = c}
           OfContent(c) == Max({Of(x) : x \in In(c)})
<1>1. PICK of : of = [x \in views |-> Of(x)]
  OBVIOUS
<1>2. \A x \in views : of[x] \in Nat \ {0}
  <2> TAKE x \in views
  <2>1. PICK S : S = {v \in views : v.unit = x.unit /\ v.file = x.file}
    OBVIOUS
  <2>2. IsFiniteSet(S) /\ S # {} /\ \A v \in S : v.count \in Nat \ {0}
    <3>1. S \in SUBSET views /\ x \in S
      BY <2>1
    <3> QED BY <3>1, FS_Subset
  <2>3. Sum(S) \in Nat \ {0}
    BY <2>2, SumOfViews
  <2> QED BY <1>1, <2>1, <2>3
<1>3. PICK content : content = [v \in views |-> w.units[v.unit].content]
  OBVIOUS
<1>4. PICK C : C = {w.units[v.unit].content : v \in views}
  OBVIOUS
<1>5. IsFiniteSet(C) /\ C # {}
  <2>1. C = {content[v] : v \in views}
    BY <1>3, <1>4
  <2> QED BY <2>1, ImageIsFinite
<1>6. PICK d : d = [c \in C |-> OfContent(c)]
  OBVIOUS
<1>7. \A c \in C : d[c] \in Nat \ {0}
  <2> TAKE c \in C
  <2>1. PICK R : R = {Of(x) : x \in In(c)}
    OBVIOUS
  <2>2. d[c] = Max(R)
    BY <1>6, <2>1
  <2>3. PICK X : X = In(c)
    OBVIOUS
  <2>4. X \in SUBSET views /\ X # {}
    BY <1>4, <2>3
  <2>5. R = {of[x] : x \in X}
    BY <1>1, <2>1, <2>3, <2>4
  <2> HIDE DEF Of, In, OfContent
  <2>6. IsFiniteSet(X)
    BY <2>4, FS_Subset
  <2>7. IsFiniteSet(R)
    BY <2>5, <2>6, ImageIsFinite
  <2>8. R # {} /\ R \in SUBSET Int /\ \A r \in R : r \in Nat \ {0}
    BY <1>2, <2>4, <2>5
  <2>9. Max(R) \in R
    BY <2>7, <2>8, GreatestOfFinite
  <2> QED BY <2>2, <2>8, <2>9
<1>8. ChannelCount(w, views) = SumFunction(d)
  BY <1>4, <1>6 DEF ChannelCount
<1>9. SumFunction(d) = SumOver(d, C)
  BY <1>6, FunctionSum
<1>10. /\ Cardinality(C) <= SumOver(d, C) /\ Cardinality(C) >= 1
       /\ SumOver(d, C) \in Nat /\ Cardinality(C) \in Nat
  BY <1>5, <1>7, SumCounts
<1> QED BY <1>8, <1>9, <1>10

LEMMA WithPlaces ==
  ASSUME NEW P, IsFiniteSet(P), P # {}
  PROVE  IsFiniteSet(P \X (1..2)) /\ P \X (1..2) # {}
<1>1. IsFiniteSet(1..2)
  <2>1. PICK n \in Nat : n = 2
    OBVIOUS
  <2>2. IsFiniteSet(1..n)
    BY FS_Interval
  <2> QED BY <2>1, <2>2
<1>2. IsFiniteSet(P \X (1..2))
  BY <1>1, FS_Product
<1>3. PICK p : p \in P
  OBVIOUS
<1>4. <<p, 1>> \in P \X (1..2)
  BY <1>3
<1> QED BY <1>2, <1>4

LEMMA TwoElements ==
  ASSUME NEW a, NEW b, a # b
  PROVE  IsFiniteSet({a, b}) /\ Cardinality({a, b}) = 2
<1>1. IsFiniteSet({a}) /\ Cardinality({a}) = 1
  BY FS_Singleton
<1>2. IsFiniteSet({a} \union {b}) /\ Cardinality({a} \union {b}) = Cardinality({a}) + 1
  BY <1>1, FS_AddElement
<1>3. {a, b} = {a} \union {b}
  OBVIOUS
<1> QED BY <1>1, <1>2, <1>3

LEMMA ChannelSharesAre ==
  ASSUME NEW w, NEW views, AreViews(w, views)
  PROVE  Fair(ChannelShares(w, views))
<1> DEFINE Owner(v) == w.units[v.unit].channel
           Count(p) == ChannelCount(w, {v \in views : v.channel = p[1] /\ Owner(v) = p[2]})
           Places(p) == IF p[1] = p[2] THEN {1} ELSE {1, 2}
           Weight(p) == IF p[1] = p[2] THEN 2 * Count(p) ELSE Count(p)
           P == {<<v.channel, Owner(v)>> : v \in views}
           T == SumFunction([p \in P |-> Count(p)])
<1>1. PICK count : count = [p \in P |-> Count(p)]
  OBVIOUS
<1>2. /\ IsFiniteSet(views) /\ views # {}
      /\ \A v \in views : /\ v.count \in Nat \ {0} /\ v.channel \in Address
                          /\ Owner(v) \in Address
  BY DEF AreViews
<1>3. IsFiniteSet(P) /\ P # {} /\ P \in SUBSET (Address \X Address)
  <2>1. PICK pair : pair = [v \in views |-> <<v.channel, Owner(v)>>]
    OBVIOUS
  <2>8. PICK R : R = {pair[v] : v \in views}
    OBVIOUS
  <2>9. IsFiniteSet(R)
    BY <1>2, <2>8, ImageIsFinite
  <2>2. P = R
    BY <2>1, <2>8
  <2>3. IsFiniteSet(P)
    BY <2>2, <2>9
  <2>4. \A p \in P : \E v \in views : p = <<v.channel, Owner(v)>>
    OBVIOUS
  <2>5. P \in SUBSET (Address \X Address)
    <3> SUFFICES ASSUME NEW p \in P PROVE p \in Address \X Address
      OBVIOUS
    <3>1. PICK v \in views : p = <<v.channel, Owner(v)>>
      BY <2>4
    <3>2. v.channel \in Address /\ Owner(v) \in Address
      BY <1>2
    <3> HIDE DEF Owner
    <3> QED BY <3>1, <3>2
  <2>6. P # {}
    BY <1>2
  <2> QED BY <2>3, <2>5, <2>6
<1>4. \A p \in P : count[p] \in Nat \ {0}
  <2> TAKE p \in P
  <2>1. PICK S : S = {v \in views : v.channel = p[1] /\ Owner(v) = p[2]}
    OBVIOUS
  <2>2. S # {} /\ S \in SUBSET views
    BY <2>1
  <2>3. IsFiniteSet(S) /\ \A v \in S : v.count \in Nat \ {0}
    BY <1>2, <2>2, FS_Subset
  <2>4. ChannelCount(w, S) \in Nat \ {0}
    BY <2>2, <2>3, ChannelCountIs
  <2> QED BY <1>1, <2>1, <2>4
<1>5. T \in Nat \ {0} /\ T = SumOver(count, P)
  <2>1. /\ Cardinality(P) <= SumOver(count, P) /\ Cardinality(P) >= 1
        /\ SumOver(count, P) \in Nat /\ Cardinality(P) \in Nat
    BY <1>3, <1>4, SumCounts
  <2>2. SumFunction(count) = SumOver(count, P)
    BY <1>1, FunctionSum
  <2>3. T = SumFunction(count)
    BY <1>1
  <2> HIDE DEF T, P
  <2> QED BY <2>1, <2>2, <2>3
<1>6. PICK weight : weight = [p \in P |-> IF p[1] = p[2] THEN 2 * count[p] ELSE count[p]]
  OBVIOUS
<1>7. \A p \in P : weight[p] \in Nat /\ weight[p] = Weight(p)
  <2> HIDE DEF Count, P
  <2> QED BY <1>1, <1>4, <1>6
<1>8. PICK I : I = {i \in P \X (1..2) : i[2] \in Places(i[1])}
  OBVIOUS
<1>9. PICK share : share = [i \in I |-> [to |-> i[1][i[2]], num |-> weight[i[1]], den |-> 2 * T,
                                         item |-> i]]
  OBVIOUS
<1>10. PICK shares : shares = ChannelShares(w, views)
  OBVIOUS
<1>11. shares = UNION {{[to |-> p[n], num |-> Weight(p), den |-> 2 * T, item |-> <<p, n>>] :
                           n \in Places(p)} : p \in P}
  BY <1>10 DEF ChannelShares
<1>12. \A p, n : n \in Places(p) => n \in 1..2
  OBVIOUS
<1> HIDE DEF Count, Owner, P, T, Weight, Places
<1>13. \A x : x \in shares <=> \E i \in I : x = share[i]
  <2>1. ASSUME NEW x \in shares
        PROVE  \E i \in I : x = share[i]
    <3>1. PICK p \in P : \E n \in Places(p) :
            x = [to |-> p[n], num |-> Weight(p), den |-> 2 * T, item |-> <<p, n>>]
      BY <1>11
    <3>2. PICK n \in Places(p) :
            x = [to |-> p[n], num |-> Weight(p), den |-> 2 * T, item |-> <<p, n>>]
      BY <3>1
    <3>3. PICK i \in I : i = <<p, n>>
      BY <1>8, <1>12
    <3>4. share[i] = [to |-> p[n], num |-> weight[p], den |-> 2 * T, item |-> i]
      BY <1>9, <3>3
    <3>5. weight[p] = Weight(p)
      BY <1>7
    <3> QED BY <3>2, <3>3, <3>4, <3>5
  <2>2. ASSUME NEW i \in I
        PROVE  share[i] \in shares
    <3>1. PICK p \in P, n \in 1..2 : i = <<p, n>> /\ n \in Places(p)
      BY <1>8
    <3>2. share[i] = [to |-> p[n], num |-> weight[p], den |-> 2 * T, item |-> i]
      BY <1>9, <3>1
    <3>3. weight[p] = Weight(p)
      BY <1>7
    <3>4. PICK y : y = [to |-> p[n], num |-> Weight(p), den |-> 2 * T, item |-> <<p, n>>]
      OBVIOUS
    <3>5. y \in {[to |-> p[m], num |-> Weight(p), den |-> 2 * T, item |-> <<p, m>>] : m \in Places(p)}
      BY <3>1, <3>4
    <3>6. y \in shares
      BY <1>11, <3>1, <3>5
    <3> QED BY <3>1, <3>2, <3>3, <3>4, <3>6
  <2> QED BY <2>1, <2>2
<1>14. \A i \in I : /\ share[i].item = i /\ share[i].num = weight[i[1]] /\ share[i].num \in Nat
                    /\ share[i].den = 2 * T /\ share[i].to \in Address
  <2> TAKE i \in I
  <2>1. PICK p \in P, n \in 1..2 : i = <<p, n>>
    BY <1>8
  <2>2. p[n] \in Address
    BY <1>3
  <2> QED BY <1>9, <1>7, <2>1, <2>2
<1>15. IsFiniteSet(I) /\ I # {}
  <2>1. IsFiniteSet(P \X (1..2)) /\ P \X (1..2) # {}
    BY <1>3, WithPlaces
  <2>2. IsFiniteSet(I)
    BY <1>8, <2>1, FS_Subset
  <2>3. PICK p : p \in P
    BY <1>3
  <2>4. <<p, 1>> \in I
    BY <1>8, <2>3 DEF Places
  <2> QED BY <2>2, <2>4
<1>16. PICK num : num = [x \in shares |-> x.num]
  OBVIOUS
<1>17. IsFiniteSet(shares)
       /\ SumOver(num, shares) = SumOver([i \in I |-> share[i].num], I)
  BY <1>13, <1>14, <1>15, <1>16, SumOfItems
<1>18. SumOver([i \in I |-> share[i].num], I) = 2 * T
  <2>1. PICK d : d = [i \in I |-> share[i].num]
    OBVIOUS
  <2>2. PICK g : g = [i \in I |-> i[1]]
    OBVIOUS
  <2>3. PICK h : h = [p \in P |-> SumOver(d, {i \in I : g[i] = p})]
    OBVIOUS
  <2>4. SumOver(h, P) = SumOver(d, I)
    <3>1. \A i \in I : d[i] \in Int /\ g[i] \in P
      <4> TAKE i \in I
      <4>1. i[1] \in P
        BY <1>8
      <4>2. share[i].num \in Nat
        BY <1>14
      <4> QED BY <2>1, <2>2, <4>1, <4>2
    <3>2. IsFiniteSet(I) /\ IsFiniteSet(P)
      BY <1>3, <1>15
    <3>3. SumOver([p \in P |-> SumOver(d, {i \in I : g[i] = p})], P) = SumOver(d, I)
      BY <3>1, <3>2, SumFibers
    <3> QED BY <2>3, <3>3
  <2>5. \A p \in P : count[p] \in Int /\ h[p] = 2 * count[p]
    <3> TAKE p \in P
    <3>1. PICK F : F = {i \in I : g[i] = p}
      OBVIOUS
    <3>2. \A i \in F : d[i] = weight[p]
      BY <1>14, <2>1, <2>2, <3>1
    <3>3. count[p] \in Nat /\ weight[p] \in Int
      BY <1>4, <1>7
    <3>4. CASE p[1] = p[2]
      <4>1. F = {<<p, 1>>}
        BY <1>8, <2>2, <3>1, <3>4 DEF Places
      <4>2. d[<<p, 1>>] = weight[p]
        BY <3>2, <4>1
      <4>3. SumOver(d, F) = weight[p]
        BY <3>3, <4>1, <4>2, SumOfOne
      <4>4. weight[p] = 2 * count[p]
        BY <1>6, <3>4
      <4> QED BY <2>3, <3>1, <3>3, <4>3, <4>4
    <3>5. CASE p[1] # p[2]
      <4>1. PICK a, b : a = <<p, 1>> /\ b = <<p, 2>>
        OBVIOUS
      <4>2. a # b
        BY <4>1
      <4>3. F = {a, b}
        BY <1>8, <2>2, <3>1, <3>5, <4>1 DEF Places
      <4>4. IsFiniteSet(F) /\ Cardinality(F) = 2
        BY <4>2, <4>3, TwoElements
      <4>5. SumOver(d, F) = Cardinality(F) * weight[p]
        BY <3>2, <3>3, <4>4, SumOfEquals
      <4>6. weight[p] = count[p]
        BY <1>6, <3>5
      <4> QED BY <2>3, <3>1, <3>3, <4>4, <4>5, <4>6
    <3> QED BY <3>4, <3>5
  <2>6. SumOver(h, P) = 2 * SumOver(count, P)
    BY <1>3, <2>5, SumScales
  <2> QED BY <1>5, <2>1, <2>4, <2>6
<1>19. \A x \in shares : x.to \in Address /\ x.num \in Nat /\ x.den = 2 * T /\ num[x] = x.num
  BY <1>13, <1>14, <1>16
<1>20. shares # {}
  BY <1>13, <1>15
<1>21. PICK D \in Nat \ {0} : D = 2 * T
  BY <1>5
<1>22. AreShares(shares)
  BY <1>17, <1>19, <1>20, <1>21 DEF AreShares
<1>23. \A amount \in Nat : SumOver(Quota(shares, amount), shares) <= amount
  <2>1. SumOver(num, shares) <= D
    BY <1>17, <1>18, <1>21
  <2> QED BY <1>19, <1>21, <1>22, <2>1, QuotasFit
<1> QED BY <1>10, <1>22, <1>23 DEF Fair

LEMMA QuotientIsPositive ==
  ASSUME NEW d \in Nat \ {0}, NEW x \in Nat, d <= x
  PROVE  x \div d \in Nat \ {0}
OBVIOUS

LEMMA FiniteTable ==
  ASSUME NEW S, IsFiniteSet(S), NEW T, \A x \in S : IsFiniteSet(T[x])
  PROVE  IsFiniteSet(UNION {T[x] : x \in S})
<1>1. PICK G : G = {T[x] : x \in S}
  OBVIOUS
<1>2. IsFiniteSet(G)
  BY <1>1, ImageIsFinite
<1>3. \A X \in G : IsFiniteSet(X)
  BY <1>1
<1>4. IsFiniteSet(UNION G)
  BY <1>2, <1>3, FS_UNION
<1> QED BY <1>1, <1>4

LEMMA AuthorSharesAre ==
  ASSUME NEW w, NEW views, AreViews(w, views)
  PROVE  Fair(AuthorShares(w, views))
<1> DEFINE FilesOf(u) == {v.file : v \in {x \in views : x.unit = u}}
           Used(u) == Sum({v \in views : v.unit = u}) \div Cardinality(FilesOf(u))
           units == {v.unit : v \in views}
           T == SumFunction([x \in units |-> Used(x)])
           Share(u, f, n) ==
             [to   |-> w.files[f][n],
              num  |-> Used(u),
              den  |-> Cardinality(FilesOf(u)) * Len(w.files[f]) * T,
              item |-> <<u, f, n>>]
<1>1. PICK shares : shares = AuthorShares(w, views)
  OBVIOUS
<1>2. shares = UNION {UNION {{Share(u, f, n) : n \in DOMAIN w.files[f]} : f \in FilesOf(u)} : u \in units}
  BY <1>1 DEF AuthorShares
<1>3. /\ IsFiniteSet(views) /\ views # {}
      /\ \A v \in views : /\ v.count \in Nat \ {0}
                          /\ w.files[v.file] \in Seq(Address) /\ w.files[v.file] # <<>>
  BY DEF AreViews
<1>4. IsFiniteSet(units) /\ units # {}
  <2>1. PICK unit : unit = [v \in views |-> v.unit]
    OBVIOUS
  <2>2. PICK R : R = {unit[v] : v \in views}
    OBVIOUS
  <2>3. IsFiniteSet(R)
    BY <1>3, <2>2, ImageIsFinite
  <2>4. units = R
    BY <2>1, <2>2
  <2>5. units # {}
    BY <1>3
  <2> HIDE DEF units
  <2> QED BY <2>3, <2>4, <2>5
<1>5. PICK files : files = [u \in units |-> FilesOf(u)]
  OBVIOUS
<1>6. PICK U : U = [u \in units |-> Used(u)]
  OBVIOUS
<1>7. ASSUME NEW u \in units
      PROVE  /\ IsFiniteSet(files[u]) /\ files[u] # {} /\ U[u] \in Nat \ {0}
             /\ Cardinality(files[u]) \in Nat \ {0}
             /\ \A f \in files[u] : w.files[f] \in Seq(Address) /\ w.files[f] # <<>>
  <2>1. PICK S : S = {v \in views : v.unit = u}
    OBVIOUS
  <2>2. S \in SUBSET views /\ S # {}
    BY <2>1
  <2>3. IsFiniteSet(S) /\ \A v \in S : v.count \in Nat \ {0}
    BY <1>3, <2>2, FS_Subset
  <2>4. PICK file : file = [v \in S |-> v.file]
    OBVIOUS
  <2>5. PICK R : R = {file[v] : v \in S}
    OBVIOUS
  <2>6. IsFiniteSet(R) /\ Cardinality(R) <= Cardinality(S)
    BY <2>3, <2>5, ImageIsFinite
  <2>7. FilesOf(u) = R
    BY <2>1, <2>4, <2>5
  <2>8. files[u] = R /\ U[u] = Sum(S) \div Cardinality(R)
    BY <1>5, <1>6, <2>1, <2>7
  <2>9. R # {}
    BY <2>2, <2>5
  <2>10. /\ Sum(S) \in Nat /\ Cardinality(S) \in Nat /\ Cardinality(S) <= Sum(S)
    BY <2>3, SumOfViews
  <2>11. Cardinality(R) \in Nat /\ Cardinality(R) # 0
    BY <2>6, <2>9, FS_CardinalityType, FS_EmptySet
  <2>12. Sum(S) \div Cardinality(R) \in Nat \ {0}
    <3>1. PICK c \in Nat \ {0} : c = Cardinality(R)
      BY <2>11
    <3>2. PICK s \in Nat : s = Sum(S) /\ c <= s
      BY <2>6, <2>10, <3>1
    <3> QED BY <3>1, <3>2, QuotientIsPositive
  <2>13. \A f \in R : w.files[f] \in Seq(Address) /\ w.files[f] # <<>>
    BY <1>3, <2>2, <2>4, <2>5
  <2> HIDE DEF FilesOf, Used, units
  <2> QED BY <2>6, <2>8, <2>9, <2>11, <2>12, <2>13
<1>8. T \in Nat \ {0} /\ T = SumOver(U, units)
  <2>1. \A u \in units : U[u] \in Nat \ {0}
    BY <1>7
  <2>2. T = SumFunction(U) /\ DOMAIN U = units
    BY <1>6
  <2> HIDE DEF T, units
  <2>3. /\ Cardinality(units) <= SumOver(U, units) /\ Cardinality(units) >= 1
        /\ SumOver(U, units) \in Nat /\ Cardinality(units) \in Nat
    BY <1>4, <2>1, SumCounts
  <2>4. SumFunction(U) = SumOver(U, units)
    BY <2>2, FunctionSum
  <2> QED BY <2>2, <2>3, <2>4
<1>9. PICK len : len = [f \in {v.file : v \in views} |-> Len(w.files[f])]
  OBVIOUS
<1>10. ASSUME NEW u \in units, NEW f \in files[u]
       PROVE  len[f] = Len(w.files[f]) /\ len[f] \in Nat \ {0} /\ DOMAIN w.files[f] = 1..len[f]
  <2>1. f \in {v.file : v \in views}
    BY <1>5
  <2>2. len[f] = Len(w.files[f])
    BY <1>9, <2>1
  <2>3. PICK q \in Seq(Address) : q = w.files[f] /\ q # <<>>
    BY <1>7
  <2>4. Len(q) \in Nat /\ Len(q) # 0 /\ DOMAIN q = 1..Len(q)
    BY <2>3
  <2> QED BY <2>2, <2>3, <2>4
<1>11. ASSUME NEW u \in units
       PROVE  files[u] = FilesOf(u) /\ U[u] = Used(u)
  BY <1>5, <1>6
<1>12. \A x \in shares : \E u \in units : \E f \in files[u] : \E n \in 1..len[f] :
          x = [to |-> w.files[f][n], num |-> U[u],
               den |-> Cardinality(files[u]) * len[f] * T, item |-> <<u, f, n>>]
  <2> SUFFICES ASSUME NEW x \in shares
               PROVE  \E u \in units : \E f \in files[u] : \E n \in 1..len[f] :
                        x = [to |-> w.files[f][n], num |-> U[u],
                             den |-> Cardinality(files[u]) * len[f] * T, item |-> <<u, f, n>>]
    OBVIOUS
  <2>1. PICK u \in units : \E f \in FilesOf(u) : \E n \in DOMAIN w.files[f] : x = Share(u, f, n)
    <3> HIDE DEF FilesOf, Used, units, T, Share
    <3> QED BY <1>2
  <2>2. PICK f \in files[u] : \E n \in DOMAIN w.files[f] : x = Share(u, f, n)
    BY <1>11, <2>1
  <2>3. PICK n \in DOMAIN w.files[f] : x = Share(u, f, n)
    BY <2>2
  <2>4. x = [to |-> w.files[f][n], num |-> U[u],
             den |-> Cardinality(files[u]) * len[f] * T, item |-> <<u, f, n>>]
    <3> HIDE DEF FilesOf, Used, T, units
    <3> QED BY <1>10, <1>11, <2>3
  <2>5. n \in 1..len[f]
    BY <1>10
  <2> HIDE DEF FilesOf, Used, T, units
  <2> QED BY <2>4, <2>5
<1> HIDE DEF FilesOf, Used, units, T, Share
<1> DEFINE X(u, f, n) == [to |-> w.files[f][n], num |-> U[u],
                          den |-> Cardinality(files[u]) * len[f] * T, item |-> <<u, f, n>>]
<1>13. IsFiniteSet(shares)
  <2>1. PICK row : row = [u \in units |-> [f \in files[u] |-> {X(u, f, n) : n \in 1..len[f]}]]
    OBVIOUS
  <2>2. PICK tab : tab = [u \in units |-> UNION {row[u][f] : f \in files[u]}]
    OBVIOUS
  <2>3. ASSUME NEW u \in units
        PROVE  IsFiniteSet(tab[u])
    <3>1. ASSUME NEW f \in files[u]
          PROVE  IsFiniteSet(row[u][f])
      <4>1. PICK L \in Nat : L = len[f]
        BY <1>10
      <4>2. PICK g : g = [n \in 1..L |-> X(u, f, n)]
        OBVIOUS
      <4>3. PICK R : R = {g[n] : n \in 1..L}
        OBVIOUS
      <4>4. IsFiniteSet(1..L)
        BY FS_Interval
      <4>5. IsFiniteSet(R)
        BY <4>3, <4>4, ImageIsFinite
      <4>6. row[u][f] = R
        BY <2>1, <4>1, <4>2, <4>3
      <4> QED BY <4>5, <4>6
    <3>2. PICK r : r = row[u]
      OBVIOUS
    <3>3. \A f \in files[u] : IsFiniteSet(r[f])
      BY <3>1, <3>2
    <3>4. IsFiniteSet(UNION {r[f] : f \in files[u]})
      BY <1>7, <3>3, FiniteTable
    <3> QED BY <2>2, <3>2, <3>4
  <2>4. IsFiniteSet(UNION {tab[u] : u \in units})
    BY <1>4, <2>3, FiniteTable
  <2>5. ASSUME NEW x \in shares
        PROVE  x \in UNION {tab[u] : u \in units}
    <3>1. PICK u \in units : \E f \in files[u] : \E n \in 1..len[f] : x = X(u, f, n)
      BY <1>12
    <3>4. PICK f \in files[u] : \E n \in 1..len[f] : x = X(u, f, n)
      BY <3>1
    <3>2. x \in row[u][f]
      BY <2>1, <3>4
    <3>3. x \in tab[u]
      BY <2>2, <3>2
    <3> QED BY <3>3
  <2> QED BY <2>4, <2>5, FS_Subset
<1>14. shares # {}
  <2>1. PICK u \in units : TRUE
    BY <1>4
  <2>2. PICK f \in files[u] : TRUE
    BY <1>7
  <2>3. 1 \in DOMAIN w.files[f] /\ f \in FilesOf(u)
    BY <1>10, <1>11
  <2>4. Share(u, f, 1) \in {Share(u, f, n) : n \in DOMAIN w.files[f]}
    BY <2>3
  <2>5. Share(u, f, 1) \in shares
    BY <1>2, <2>3, <2>4
  <2> QED BY <2>5
<1>15. ASSUME NEW x \in shares
       PROVE  /\ x.to \in Address /\ x.num \in Nat /\ x.den \in Nat \ {0}
              /\ SplitAmong(x, units, U, files, len, T)
  <2>1. PICK u \in units : \E f \in files[u] : \E n \in 1..len[f] : x = X(u, f, n)
    BY <1>12
  <2>2. PICK f \in files[u] : \E n \in 1..len[f] : x = X(u, f, n)
    BY <2>1
  <2>3. PICK n \in 1..len[f] : x = X(u, f, n)
    BY <2>2
  <2>4. PICK F \in Nat \ {0} : F = Cardinality(files[u])
    BY <1>7
  <2>5. PICK L \in Nat \ {0} : L = len[f]
    BY <1>10
  <2>6. PICK c \in Nat \ {0} : c = U[u]
    BY <1>7
  <2>7. w.files[f][n] \in Address
    <3>1. PICK q \in Seq(Address) : q = w.files[f]
      BY <1>7
    <3>2. n \in DOMAIN q
      BY <1>10, <3>1
    <3>3. q[n] \in Address
      BY <3>1, <3>2
    <3> QED BY <3>1, <3>3
  <2>8. F * L * T \in Nat \ {0}
    <3>1. PICK e \in Nat \ {0} : e = F * L
      OBVIOUS
    <3>2. e * T \in Nat \ {0}
      BY <1>8
    <3> QED BY <3>1, <3>2
  <2>9. x.to = w.files[f][n] /\ x.num = c /\ x.den = F * L * T /\ x.item = <<u, f, n>>
    BY <2>3, <2>4, <2>5, <2>6
  <2>10. SplitAmong(x, units, U, files, len, T)
    BY <2>3 DEF SplitAmong
  <2> QED BY <2>6, <2>7, <2>8, <2>9, <2>10
<1>16. AreShares(shares)
  BY <1>13, <1>14, <1>15 DEF AreShares
<1>17. \A x, y \in shares : x.item = y.item => x = y
  <2> SUFFICES ASSUME NEW x \in shares, NEW y \in shares, x.item = y.item
               PROVE  x = y
    OBVIOUS
  <2>1. PICK u \in units : \E f \in files[u] : \E n \in 1..len[f] : x = X(u, f, n)
    BY <1>12
  <2>7. PICK f \in files[u] : \E n \in 1..len[f] : x = X(u, f, n)
    BY <2>1
  <2>2. PICK n \in 1..len[f] : x = X(u, f, n)
    BY <2>7
  <2>3. PICK v \in units : \E g \in files[v] : \E m \in 1..len[g] : y = X(v, g, m)
    BY <1>12
  <2>8. PICK g \in files[v] : \E m \in 1..len[g] : y = X(v, g, m)
    BY <2>3
  <2>4. PICK m \in 1..len[g] : y = X(v, g, m)
    BY <2>8
  <2>5. <<u, f, n>> = <<v, g, m>>
    BY <2>2, <2>4
  <2>6. u = v /\ f = g /\ n = m
    BY <2>5
  <2> QED BY <2>2, <2>4, <2>6
<1>18. ASSUME NEW amount \in Nat
       PROVE  SumOver(Quota(shares, amount), shares) <= amount
  <2>1. \A u \in units : U[u] \in Nat \ {0}
    BY <1>7
  <2>2. \A u \in units : IsFiniteSet(files[u]) /\ files[u] # {}
    BY <1>7
  <2>3. \A u \in units : \A f \in files[u] : len[f] \in Nat \ {0}
    BY <1>10
  <2>4. \A x \in shares : SplitAmong(x, units, U, files, len, T)
    BY <1>15
  <2> QED BY <1>4, <1>8, <1>16, <1>17, <2>1, <2>2, <2>3, <2>4, AuthorQuotasFit
<1> QED BY <1>1, <1>16, <1>18 DEF Fair

-----------------------------------------------------------------------------
(* What a block pays is its emission *)

\* A part of the emission that pays nobody less than nothing, and n in all.
Gives(r, n) ==
  /\ \A a \in Address : Part(r)[a] \in Nat
  /\ SumOver(Part(r), Address) = n

LEMMA ShareGives ==
  ASSUME NEW shares, Fair(shares), NEW n \in Nat
  PROVE  Gives(Distribute(shares, n), n)
BY DistributeGives DEF Fair, Gives

LEMMA NothingGives == Gives(<<>>, 0)
<1>1. IsFiniteSet(Address)
  BY MessageAssumption
<1>2. PICK p : p = Part(<<>>)
  OBVIOUS
<1>3. \A a \in Address : p[a] = 0
  BY <1>2 DEF Part
<1>4. SumOver(p, Address) = Cardinality(Address) * 0 /\ Cardinality(Address) \in Nat
  BY <1>1, <1>3, SumOfEquals, FS_CardinalityType
<1> QED BY <1>2, <1>3, <1>4 DEF Gives

LEMMA MinerGives ==
  ASSUME NEW miner \in Address, NEW n \in Nat
  PROVE  Gives([a \in {miner} |-> n], n)
<1>1. IsFiniteSet(Address)
  BY MessageAssumption
<1>2. PICK z : z = [a \in Address |-> 0]
  OBVIOUS
<1>3. SumOver(z, Address) = 0
  <2>1. SumOver(z, Address) = Cardinality(Address) * 0 /\ Cardinality(Address) \in Nat
    BY <1>1, <1>2, SumOfEquals, FS_CardinalityType
  <2> QED BY <2>1
<1>4. PICK p : p = Part([a \in {miner} |-> n])
  OBVIOUS
<1>5. p = [a \in Address |-> IF a = miner THEN n ELSE 0]
  BY <1>4 DEF Part
<1>6. SumOver(p, Address) = SumOver(z, Address) + n
  <2>1. z \in [Address -> Int] /\ p \in [Address -> Int] /\ n \in Int
    BY <1>2, <1>5
  <2>2. p[miner] = z[miner] + n /\ \A b \in Address : b # miner => p[b] = z[b]
    BY <1>2, <1>5
  <2> QED BY <1>1, <2>1, <2>2, SumChanges
<1> QED BY <1>3, <1>4, <1>5, <1>6 DEF Gives

LEMMA SumOfFour ==
  ASSUME NEW d, \A x \in {"author", "channel", "storage", "miner"} : d[x] \in Int
  PROVE  /\ IsFiniteSet({"author", "channel", "storage", "miner"})
         /\ SumOver(d, {"author", "channel", "storage", "miner"})
              = d["author"] + d["channel"] + d["storage"] + d["miner"]
<1>1. IsFiniteSet({"miner"}) /\ SumOver(d, {"miner"}) = d["miner"]
  BY SumOfOne, FS_Singleton
<1>2. PICK A : A = {"miner"} \union {"storage"}
  OBVIOUS
<1>3. IsFiniteSet(A) /\ SumOver(d, A) = d["storage"] + d["miner"]
  BY <1>1, <1>2, SumNext
<1>4. PICK B : B = A \union {"channel"}
  OBVIOUS
<1>5. IsFiniteSet(B) /\ SumOver(d, B) = d["channel"] + (d["storage"] + d["miner"])
  BY <1>2, <1>3, <1>4, SumNext
<1>6. PICK C : C = B \union {"author"}
  OBVIOUS
<1>7. IsFiniteSet(C) /\ SumOver(d, C) = d["author"] + (d["channel"] + (d["storage"] + d["miner"]))
  BY <1>2, <1>4, <1>5, <1>6, SumNext
<1>8. C = {"author", "channel", "storage", "miner"}
  BY <1>2, <1>4, <1>6
<1> QED BY <1>7, <1>8

\* Parts that give the emission in all.
LEMMA PartsPay ==
  ASSUME NEW R, IsFiniteSet(R), NEW r, DOMAIN r = R, NEW amount,
         \A x \in R : amount[x] \in Nat /\ Gives(r[x], amount[x]),
         NEW n \in Nat, SumOver(amount, R) = n
  PROVE  /\ \A a \in Address : Paid(r, a) \in Nat
         /\ SumFunction([a \in Address |-> Paid(r, a)]) = n
<1>1. IsFiniteSet(Address)
  BY MessageAssumption
<1>2. PICK m : m = [x \in R |-> Part(r[x])]
  OBVIOUS
<1>3. \A x \in R : \A a \in Address :
        m[x][a] \in Nat /\ m[x][a] = IF a \in DOMAIN r[x] THEN r[x][a] ELSE 0
  BY <1>2 DEF Gives, Part
<1>4. \A x \in R, a \in Address : m[x][a] \in Int
  BY <1>3
<1>5. PICK p : p = [a \in Address |-> SumOver([x \in R |-> m[x][a]], R)]
  OBVIOUS
<1>6. ASSUME NEW a \in Address
      PROVE  p[a] \in Nat /\ Paid(r, a) = p[a]
  <2>1. PICK d : d = [x \in R |-> m[x][a]]
    OBVIOUS
  <2>2. \A x \in R : d[x] \in Nat
    BY <1>3, <2>1
  <2>3. SumOver(d, R) \in Nat
    BY <2>2, SumOfNumbers
  <2>4. d = [x \in DOMAIN r |-> IF a \in DOMAIN r[x] THEN r[x][a] ELSE 0]
    BY <1>3, <2>1
  <2>5. Paid(r, a) = SumFunction(d)
    BY <2>4 DEF Paid
  <2>6. SumFunction(d) = SumOver(d, R)
    BY <2>1, FunctionSum
  <2> QED BY <1>5, <2>1, <2>3, <2>5, <2>6
<1>7. [a \in Address |-> Paid(r, a)] = p
  BY <1>5, <1>6
<1>8. SumFunction(p) = SumOver(p, Address)
  BY <1>5, FunctionSum
<1>9. PICK s : s = [x \in R |-> SumOver(m[x], Address)]
  OBVIOUS
<1>10. SumOver(p, Address) = SumOver(s, R)
  <2>1. SumOver(ColumnSums(m, R, Address), Address) = SumOver(RowSums(m, R, Address), R)
    BY <1>1, <1>4, SumSwaps
  <2>2. p = ColumnSums(m, R, Address) /\ s = RowSums(m, R, Address)
    BY <1>5, <1>9 DEF ColumnSums, RowSums
  <2> QED BY <2>1, <2>2
<1>11. \A x \in R : s[x] \in Int /\ s[x] = amount[x]
  BY <1>2, <1>9 DEF Gives
<1>12. SumOver(s, R) = SumOver(amount, R)
  BY <1>11, SumSame
<1> QED BY <1>6, <1>7, <1>8, <1>10, <1>12

\* What documents and reports rest on is there.
Documented(w) ==
  /\ DOMAIN w.roles \in SUBSET Address
  /\ \A f \in DOMAIN w.files : w.files[f] \in Seq(Address) /\ w.files[f] # <<>>
  /\ \A u \in DOMAIN w.units : /\ w.units[u].channel \in Address
                               /\ ToSet(w.units[u].files) \subseteq DOMAIN w.files

ReportStands(w, t) ==
  Action[t].type = "ServiceStatistics" =>
    LET kind == RoleOf(w, Action[t].server)
    IN  /\ kind # "none" /\ IsFiniteSet(Action[t].items)
        /\ \A i \in Action[t].items : i.count \in Nat \ {0} /\ ItemFits(w, kind, i)

LEMMA ReportsAre ==
  ASSUME NEW w, NEW A, NEW txs \in Seq(A), \A n \in DOMAIN txs : ReportStands(w, txs[n]),
         NEW kind, NEW reports, reports = Reports(w, txs, kind)
  PROVE  /\ AreReports(reports)
         /\ \A s \in DOMAIN reports :
              /\ RoleOf(w, s) = kind /\ kind # "none"
              /\ \A i \in reports[s] : ItemFits(w, kind, i)
<1> DEFINE rs == {n \in DOMAIN txs : Action[txs[n]].type = "ServiceStatistics"}
           By(s) == {n \in rs : Action[txs[n]].server = s}
           servers == {s \in {Action[txs[n]].server : n \in rs} : RoleOf(w, s) = kind}
<1>1. reports = [s \in servers |-> Action[txs[Max(By(s))]].items]
  BY DEF Reports
<1>2. PICK L \in Nat : L = Len(txs) /\ DOMAIN txs = 1..L
  OBVIOUS
<1>3. IsFiniteSet(servers)
  <2>1. IsFiniteSet(1..L)
    BY FS_Interval
  <2>2. PICK D : D = rs
    OBVIOUS
  <2>3. IsFiniteSet(D)
    BY <1>2, <2>1, <2>2, FS_Subset
  <2>4. PICK g : g = [n \in D |-> Action[txs[n]].server]
    OBVIOUS
  <2>5. PICK R : R = {g[n] : n \in D}
    OBVIOUS
  <2>6. IsFiniteSet(R)
    BY <2>3, <2>5, ImageIsFinite
  <2>7. servers \in SUBSET R
    BY <2>2, <2>4, <2>5
  <2> HIDE DEF servers
  <2> QED BY <2>6, <2>7, FS_Subset
<1>4. ASSUME NEW s \in servers
      PROVE  \E n \in DOMAIN txs : /\ Action[txs[n]].type = "ServiceStatistics"
                                   /\ Action[txs[n]].server = s /\ RoleOf(w, s) = kind
                                   /\ reports[s] = Action[txs[n]].items
  <2>1. PICK S : S = By(s)
    OBVIOUS
  <2>2. S \in SUBSET (0..L) /\ S # {}
    <3>1. PICK n \in rs : Action[txs[n]].server = s
      OBVIOUS
    <3>2. n \in S
      BY <2>1, <3>1
    <3>3. S \in SUBSET DOMAIN txs
      BY <2>1
    <3> QED BY <1>2, <3>2, <3>3
  <2>3. Max(S) \in S
    BY <2>2, GreatestNumber
  <2>4. reports[s] = Action[txs[Max(S)]].items
    BY <1>1, <2>1
  <2>5. PICK n \in S : n = Max(S)
    BY <2>3
  <2>6. n \in DOMAIN txs /\ Action[txs[n]].type = "ServiceStatistics" /\ Action[txs[n]].server = s
    BY <2>1, <2>5
  <2> QED BY <2>4, <2>5, <2>6
<1>5. ASSUME NEW s \in servers
      PROVE  /\ RoleOf(w, s) = kind /\ kind # "none" /\ IsFiniteSet(reports[s])
             /\ \A i \in reports[s] : i.count \in Nat \ {0} /\ ItemFits(w, kind, i)
  <2>1. PICK n \in DOMAIN txs : /\ Action[txs[n]].type = "ServiceStatistics"
                                /\ Action[txs[n]].server = s /\ RoleOf(w, s) = kind
                                /\ reports[s] = Action[txs[n]].items
    BY <1>4
  <2>2. ReportStands(w, txs[n])
    OBVIOUS
  <2> HIDE DEF servers
  <2> QED BY <2>1, <2>2 DEF ReportStands
<1>6. DOMAIN reports = servers
  BY <1>1
<1> HIDE DEF servers
<1> QED BY <1>3, <1>5, <1>6 DEF AreReports

LEMMA PaidViewsAre ==
  ASSUME NEW w, Documented(w), NEW A, NEW txs \in Seq(A),
         \A n \in DOMAIN txs : ReportStands(w, txs[n]),
         NEW views, views = VerifiedViews(Reports(w, txs, "channel"), Reports(w, txs, "storage")),
         views # {}
  PROVE  AreViews(w, views)
<1>1. PICK channels : channels = Reports(w, txs, "channel")
  OBVIOUS
<1>2. PICK storages : storages = Reports(w, txs, "storage")
  OBVIOUS
<1>3. /\ AreReports(channels)
      /\ \A s \in DOMAIN channels : /\ RoleOf(w, s) = "channel"
                                    /\ \A i \in channels[s] : ItemFits(w, "channel", i)
  BY <1>1, ReportsAre
<1>4. \A s \in DOMAIN storages : RoleOf(w, s) = "storage"
  BY <1>2, ReportsAre
<1>5. IsFiniteSet(views) /\ \A v \in views : Viewed(v, channels, storages)
  <2>1. views = VerifiedViews(channels, storages)
    BY <1>1, <1>2
  <2> QED BY <1>3, <2>1, ViewsAre
<1>6. ASSUME NEW s, RoleOf(w, s) \in {"channel", "storage"}
      PROVE  s \in Address
  BY <1>6 DEF RoleOf, Documented
<1>7. ASSUME NEW v \in views
      PROVE  /\ v.count \in Nat \ {0}
             /\ v.peer \in Address /\ v.channel \in Address
             /\ w.units[v.unit].channel \in Address
             /\ w.files[v.file] \in Seq(Address) /\ w.files[v.file] # <<>>
  <2>1. PICK c \in DOMAIN channels : \E i \in channels[c] :
               v = View(c, i) /\ i.peer \in DOMAIN storages
    BY <1>5 DEF Viewed
  <2>2. PICK i \in channels[c] : v = View(c, i) /\ i.peer \in DOMAIN storages
    BY <2>1
  <2>3. /\ v.channel = c /\ v.unit = i.unit /\ v.file = i.file /\ v.peer = i.peer
        /\ v.count = i.count
    BY <2>2 DEF View
  <2>4. i.count \in Nat \ {0} /\ ItemFits(w, "channel", i)
    BY <1>3 DEF AreReports
  <2>5. c \in Address /\ i.peer \in Address
    BY <1>3, <1>4, <1>6, <2>2
  <2>6. i.unit \in DOMAIN w.units /\ i.file \in ToSet(w.units[i.unit].files)
    BY <2>4 DEF ItemFits
  <2>7. w.units[i.unit].channel \in Address /\ i.file \in DOMAIN w.files
    BY <2>6 DEF Documented
  <2>8. w.files[i.file] \in Seq(Address) /\ w.files[i.file] # <<>>
    BY <2>7 DEF Documented
  <2> QED BY <2>3, <2>4, <2>5, <2>7, <2>8
<1> QED BY <1>5, <1>7 DEF AreViews

\* The rewards of a block are its emission, and nobody is paid less than nothing.
LEMMA RewardsPay ==
  ASSUME NEW w, Documented(w), NEW A, NEW txs \in Seq(A),
         \A n \in DOMAIN txs : ReportStands(w, txs[n]),
         NEW miner \in Address, NEW r, r = Rewards(w, txs, miner)
  PROVE  /\ \A a \in Address : Paid(r, a) \in Nat
         /\ SumFunction([a \in Address |-> Paid(r, a)]) = Emission
<1>1. PICK views : views = VerifiedViews(Reports(w, txs, "channel"), Reports(w, txs, "storage"))
  OBVIOUS
<1>2. Emission \in Nat
  BY CatalogueAssumption
<1>3. CASE views = {}
  <2>1. r = [miner |-> [a \in {miner} |-> Emission]]
    BY <1>1, <1>3 DEF Rewards
  <2>2. PICK R : R = {"miner"}
    OBVIOUS
  <2>3. PICK amount : amount = [x \in R |-> Emission]
    OBVIOUS
  <2>4. IsFiniteSet(R) /\ SumOver(amount, R) = Emission
    <3>1. PICK m : m = "miner" /\ R = {m}
      BY <2>2
    <3>2. amount[m] = Emission
      BY <2>3, <3>1
    <3>3. amount[m] \in Int
      BY <1>2, <3>2
    <3>4. SumOver(amount, {m}) = amount[m] /\ IsFiniteSet({m})
      BY <3>3, SumOfOne, FS_Singleton
    <3> QED BY <3>1, <3>2, <3>4
  <2>5. DOMAIN r = R
    BY <2>1, <2>2
  <2>6. \A x \in R : amount[x] \in Nat /\ Gives(r[x], amount[x])
    <3>4. PICK g : g = [a \in {miner} |-> Emission]
      OBVIOUS
    <3>5. Gives(g, Emission)
      BY <1>2, <3>4, MinerGives
    <3>6. r.miner = g
      BY <2>1, <3>4
    <3>1. Gives(r.miner, Emission)
      BY <3>5, <3>6
    <3>2. amount["miner"] = Emission
      BY <2>2, <2>3
    <3>3. r["miner"] = r.miner
      OBVIOUS
    <3> QED BY <1>2, <2>2, <3>1, <3>2, <3>3
  <2> QED BY <1>2, <2>4, <2>5, <2>6, PartsPay
<1>4. CASE views # {}
  <2>1. AreViews(w, views)
    BY <1>1, <1>4, PaidViewsAre
  <2>2. PICK author, channel, ofMiner, storage :
          /\ author  = (Emission * 40) \div 100
          /\ channel = (Emission * 30) \div 100
          /\ ofMiner = (Emission * 10) \div 100
          /\ storage = Emission - author - channel - ofMiner
    OBVIOUS
  <2>3. /\ author \in Nat /\ channel \in Nat /\ ofMiner \in Nat /\ storage \in Nat
        /\ author + channel + storage + ofMiner = Emission
    BY <1>2, <2>2
  <2>4. PICK last : last = IF ofMiner = 0 THEN <<>> ELSE [a \in {miner} |-> ofMiner]
    OBVIOUS
  <2>5. r = [author  |-> Distribute(AuthorShares(w, views), author),
             channel |-> Distribute(ChannelShares(w, views), channel),
             storage |-> Distribute(StorageShares(views), storage),
             miner   |-> last]
    BY <1>1, <1>4, <2>2, <2>4 DEF Rewards
  <2>6. PICK R : R = {"author", "channel", "storage", "miner"}
    OBVIOUS
  <2>7. PICK amount : amount = [x \in R |-> CASE x = "author" -> author [] x = "channel" -> channel
                                              [] x = "storage" -> storage [] x = "miner" -> ofMiner]
    OBVIOUS
  <2>8. /\ amount["author"] = author /\ amount["channel"] = channel
        /\ amount["storage"] = storage /\ amount["miner"] = ofMiner
    BY <2>6, <2>7
  <2>9. IsFiniteSet(R) /\ SumOver(amount, R) = Emission
    BY <2>3, <2>6, <2>8, SumOfFour
  <2>10. DOMAIN r = R
    BY <2>5, <2>6
  <2>11. Gives(r["author"], author)
    BY <2>1, <2>3, <2>5, AuthorSharesAre, ShareGives
  <2>12. Gives(r["channel"], channel)
    BY <2>1, <2>3, <2>5, ChannelSharesAre, ShareGives
  <2>13. Gives(r["storage"], storage)
    BY <2>1, <2>3, <2>5, StorageSharesAre, ShareGives
  <2>14. Gives(r["miner"], ofMiner)
    <3>1. r["miner"] = last
      BY <2>5
    <3>2. CASE ofMiner = 0
      BY <2>4, <3>1, <3>2, NothingGives
    <3>3. CASE ofMiner # 0
      BY <2>3, <2>4, <3>1, <3>3, MinerGives
    <3> QED BY <3>2, <3>3
  <2>15. \A x \in R : amount[x] \in Nat /\ Gives(r[x], amount[x])
    BY <2>3, <2>6, <2>8, <2>11, <2>12, <2>13, <2>14
  <2> QED BY <1>2, <2>9, <2>10, <2>15, PartsPay
<1> QED BY <1>3, <1>4

\* Rewards depend on roles and documents alone.
LEMMA SameRewards ==
  ASSUME NEW w, NEW v, w.roles = v.roles, w.files = v.files, w.units = v.units,
         NEW txs, NEW miner
  PROVE  Rewards(w, txs, miner) = Rewards(v, txs, miner)
<1>1. \A kind : Reports(w, txs, kind) = Reports(v, txs, kind)
  BY DEF Reports, RoleOf
<1>2. \A views : AuthorShares(w, views) = AuthorShares(v, views)
  BY DEF AuthorShares
<1>3. \A views : ChannelShares(w, views) = ChannelShares(v, views)
  BY DEF ChannelShares, ChannelCount
<1> QED BY <1>1, <1>2, <1>3 DEF Rewards

-----------------------------------------------------------------------------
(* Books: the stores as transactions leave them, with no requests and no     *)
(* pool, and without failure                                                 *)

StoreFields ==
  {"balance", "auth", "roles", "files", "units", "holders", "requests", "pool", "length", "ok"}

\* Transactions that are in a block or in the pool.
ValidTx == {t \in Tx : IsValid(t)}

IsTable(f) == f = [x \in DOMAIN f |-> f[x]]

HoldersStand(s) ==
  s.holders \subseteq (DOMAIN s.files) \X {a \in Address : RoleOf(s, a) = "storage"}

\* "free" holds accounts that have no role: this node, unless it is a channel or a
\* storage.
Book(s, free) ==
  /\ s = [x \in StoreFields |-> s[x]]
  /\ s.requests = <<>> /\ s.pool = <<>> /\ s.ok = TRUE
  /\ s.balance \in [Address -> Nat] /\ s.auth \in Sound /\ s.length \in Nat
  /\ IsTable(s.roles) /\ IsTable(s.files) /\ IsTable(s.units)
  /\ Documented(s)
  /\ DOMAIN s.roles \intersect free = {}
  /\ HoldersStand(s)

\* What a transaction asks of a book, and the book after it.
Allowed(s, t, free) ==
  LET a == Action[t]
  IN  /\ Authorised(s, t)
      /\ a.type = "AuthorizationUpdate" => UpdateFits(s.auth, a)
      /\ a.type = "Transfer" => s.balance[a.from] >= a.amount
      /\ a.type = "Role" => a.node \notin DOMAIN s.roles \union free
      /\ a.type = "File" => a.uri \notin DOMAIN s.files
      /\ a.type = "ContentUnit" => UnitFits(s, a)
      /\ a.type = "StorageUpdate" => StorageUpdateFits(s, a)
      /\ ReportStands(s, t)

Booked(s, t) ==
  LET a == Action[t]
  IN  CASE a.type = "AuthorizationUpdate" -> [s EXCEPT !.auth = Updated(@, a)]
        [] a.type = "Transfer" -> Transferred(s, a)
        [] a.type = "Role" -> RoleApply(s, a)
        [] a.type = "File" -> FileApply(s, a)
        [] a.type = "ContentUnit" -> UnitApply(s, a)
        [] a.type = "StorageUpdate" -> StorageUpdateApply(s, a)
        [] a.type \in {"Content", "ServiceStatistics"} -> s

\* Stores that say what a book says.
Keeps(w, s) ==
  /\ DOMAIN w = StoreFields /\ w.ok = TRUE
  /\ w.balance = s.balance /\ w.auth = s.auth /\ w.roles = s.roles /\ w.files = s.files
  /\ w.units = s.units /\ w.holders = s.holders /\ w.length = s.length

Failed(w) == DOMAIN w = StoreFields /\ w.ok = FALSE

LEMMA TxIs ==
  ASSUME NEW t \in ValidTx
  PROVE  LET a == Action[t]
         IN  /\ t \in Tx /\ a.type \in ActionType
             /\ a.type = "AuthorizationUpdate" =>
                  /\ IsUpdate(a) /\ Len(Signers[t]) = 1
                  /\ Signers[t][1] \in Address /\ Signers[t][1] # a.actor
             /\ a.type = "Transfer" =>
                  a.from \in Address /\ a.to \in Address /\ a.from # a.to /\ a.amount \in Nat
             /\ a.type = "Role" => a.node \in Address /\ a.kind \in {"channel", "storage"}
             /\ a.type = "File" => a.authors \in Seq(Address) /\ a.authors # <<>>
             /\ a.type = "ContentUnit" => a.channel \in Address
             /\ a.type = "StorageUpdate" => a.status \in {"store", "remove"}
             /\ a.type = "ServiceStatistics" =>
                  IsFiniteSet(a.items) /\ \A i \in a.items : i.count \in Nat \ {0}
<1>1. PICK a : a = Action[t]
  OBVIOUS
<1>2. t \in Tx /\ IsValid(t)
  BY DEF ValidTx
<1>3. a.type \in ActionType /\ Signers[t] \in Seq(Address) \ {<<>>}
  BY <1>1, <1>2, CatalogueAssumption
<1>4. CASE a.type = "AuthorizationUpdate"
  <2>1. UpdateIsValid(Signers[t], a)
    BY <1>1, <1>2, <1>4 DEF IsValid
  <2>2. IsUpdate(a)
    BY <1>1, <1>2, <1>4, CatalogueAssumption DEF IsUpdate
  <2>3. Len(Signers[t]) = 1 /\ Signers[t][1] # a.actor
    BY <2>1 DEF UpdateIsValid
  <2>4. Signers[t][1] \in Address
    BY <1>3, <2>3
  <2> QED BY <1>1, <1>2, <1>3, <1>4, <2>2, <2>3, <2>4
<1>5. CASE a.type = "Transfer"
  <2>1. TransferIsValid(t)
    BY <1>1, <1>2, <1>5 DEF IsValid
  <2>2. a.from # a.to
    BY <1>1, <2>1 DEF TransferIsValid
  <2>3. a.from \in Address /\ a.to \in Address /\ a.amount \in Nat
    BY <1>1, <1>2, <1>5, MessageAssumption
  <2> QED BY <1>1, <1>2, <1>3, <1>5, <2>2, <2>3
<1>6. CASE a.type = "Role"
  <2>1. RoleIsValid(t)
    BY <1>1, <1>2, <1>6 DEF IsValid
  <2>2. a.node \in Address
    BY <1>1, <1>2, <1>6, MessageAssumption
  <2> QED BY <1>1, <1>2, <1>3, <1>6, <2>1, <2>2 DEF RoleIsValid
<1>7. CASE a.type = "File"
  <2>1. FileIsValid(t)
    BY <1>1, <1>2, <1>7 DEF IsValid
  <2>2. a.authors \in Seq(Address)
    BY <1>1, <1>2, <1>7, MessageAssumption
  <2> QED BY <1>1, <1>2, <1>3, <1>7, <2>1, <2>2 DEF FileIsValid, AuthorsSign
<1>8. CASE a.type = "ContentUnit"
  <2>1. a.channel \in Address
    BY <1>1, <1>2, <1>8, MessageAssumption
  <2> QED BY <1>1, <1>2, <1>3, <1>8, <2>1
<1>9. CASE a.type = "StorageUpdate"
  <2>1. a.status \in {"store", "remove"}
    BY <1>1, <1>2, <1>9, MessageAssumption
  <2> QED BY <1>1, <1>2, <1>3, <1>9, <2>1
<1>10. CASE a.type = "ServiceStatistics"
  <2>1. ReportIsValid(t)
    BY <1>1, <1>2, <1>10 DEF IsValid
  <2>2. IsFiniteSet(a.items) /\ \A i \in a.items : i.count \in Nat
    BY <1>1, <1>2, <1>10, MessageAssumption
  <2>3. \A i \in a.items : i.count > 0
    BY <1>1, <2>1 DEF ReportIsValid
  <2>4. \A i \in a.items : i.count \in Nat \ {0}
    BY <2>2, <2>3
  <2> QED BY <1>1, <1>2, <1>3, <1>10, <2>2, <2>4
<1>11. CASE a.type = "Content"
  BY <1>1, <1>2, <1>3, <1>11
<1> QED BY <1>3, <1>4, <1>5, <1>6, <1>7, <1>8, <1>9, <1>10, <1>11 DEF ActionType

\* The account that this node's role leaves without one.
Free == IF setting.kind \in {"channel", "storage"} THEN {} ELSE {setting.address}

\* What an action asks of stores, it asks of the book they keep.
LEMMA MayApply ==
  ASSUME NEW w, NEW s, Keeps(w, s), NEW free, free = Free,
         NEW t \in ValidTx, NEW layer, NEW fresh, CanApply(w, t, layer, fresh)
  PROVE  Allowed(s, t, free)
<1>1. PICK a : a = Action[t]
  OBVIOUS
<1>2. Authorised(s, t)
  <2>1. Authorised(w, t)
    BY DEF CanApply
  <2> QED BY <2>1 DEF Keeps, Authorised
<1>3. a.type = "AuthorizationUpdate" => UpdateFits(s.auth, a)
  BY <1>1 DEF CanApply, Keeps
<1>4. a.type = "Transfer" => s.balance[a.from] >= a.amount
  BY <1>1 DEF CanApply, Keeps
<1>5. a.type = "Role" => a.node \notin DOMAIN s.roles \union free
  <2> SUFFICES ASSUME a.type = "Role" PROVE a.node \notin DOMAIN s.roles \union free
    OBVIOUS
  <2>1. RoleFits(w, a)
    BY <1>1 DEF CanApply
  <2>2. a.kind \in {"channel", "storage"}
    BY <1>1, TxIs
  <2> QED BY <2>1, <2>2 DEF RoleFits, Keeps, Free
<1>6. a.type = "File" => a.uri \notin DOMAIN s.files
  BY <1>1 DEF CanApply, Keeps
<1>7. a.type = "ContentUnit" => UnitFits(s, a)
  <2>1. a.type = "ContentUnit" => UnitFits(w, a)
    BY <1>1 DEF CanApply
  <2> QED BY <2>1 DEF UnitFits, Keeps
<1>8. a.type = "StorageUpdate" => StorageUpdateFits(s, a)
  <2>1. a.type = "StorageUpdate" => StorageUpdateFits(w, a)
    BY <1>1 DEF CanApply
  <2> QED BY <2>1 DEF StorageUpdateFits, RoleOf, Keeps
<1>9. ReportStands(s, t)
  <2> SUFFICES ASSUME a.type = "ServiceStatistics"
               PROVE  /\ RoleOf(s, a.server) # "none" /\ IsFiniteSet(a.items)
                      /\ \A i \in a.items : i.count \in Nat \ {0} /\ ItemFits(s, RoleOf(s, a.server), i)
    BY <1>1 DEF ReportStands
  <2>1. StatisticsFit(w, a, layer, fresh)
    BY <1>1 DEF CanApply
  <2>2. IsFiniteSet(a.items) /\ \A i \in a.items : i.count \in Nat \ {0}
    BY <1>1, TxIs
  <2>3. PICK kind : kind = RoleOf(w, a.server)
    OBVIOUS
  <2>4. kind # "none" /\ \A i \in a.items : ItemFits(w, kind, i)
    BY <2>1, <2>3 DEF StatisticsFit
  <2>5. \A x : RoleOf(w, x) = RoleOf(s, x)
    BY DEF RoleOf, Keeps
  <2>6. \A i \in a.items : ItemFits(s, kind, i)
    BY <2>4, <2>5 DEF ItemFits, Keeps
  <2> QED BY <2>2, <2>3, <2>4, <2>5, <2>6
<1> QED BY <1>1, <1>2, <1>3, <1>4, <1>5, <1>6, <1>7, <1>8, <1>9 DEF Allowed

\* Nothing that a report rests on is taken back.
Grows(s, v) ==
  /\ DOMAIN s.roles \subseteq DOMAIN v.roles /\ \A x \in DOMAIN s.roles : v.roles[x] = s.roles[x]
  /\ DOMAIN s.files \subseteq DOMAIN v.files
  /\ DOMAIN s.units \subseteq DOMAIN v.units /\ \A x \in DOMAIN s.units : v.units[x] = s.units[x]

LEMMA StillStands ==
  ASSUME NEW s, NEW v, Grows(s, v), NEW t, ReportStands(s, t)
  PROVE  ReportStands(v, t)
<1> SUFFICES ASSUME Action[t].type = "ServiceStatistics"
             PROVE  /\ RoleOf(v, Action[t].server) # "none" /\ IsFiniteSet(Action[t].items)
                    /\ \A i \in Action[t].items :
                         /\ i.count \in Nat \ {0}
                         /\ ItemFits(v, RoleOf(v, Action[t].server), i)
  BY DEF ReportStands
<1>1. PICK a, kind : a = Action[t] /\ kind = RoleOf(s, a.server)
  OBVIOUS
<1>2. /\ kind # "none" /\ IsFiniteSet(a.items)
      /\ \A i \in a.items : i.count \in Nat \ {0} /\ ItemFits(s, kind, i)
  BY <1>1 DEF ReportStands
<1>3. \A x : RoleOf(s, x) # "none" => RoleOf(v, x) = RoleOf(s, x)
  BY DEF RoleOf, Grows
<1>4. \A i \in a.items : ItemFits(v, kind, i)
  <2> TAKE i \in a.items
  <2>1. ItemFits(s, kind, i)
    BY <1>2
  <2>2. i.file \in DOMAIN v.files
    BY <2>1 DEF ItemFits, Grows
  <2>3. IF kind = "storage" THEN i.unit = None
        ELSE i.unit \in DOMAIN v.units /\ i.file \in ToSet(v.units[i.unit].files)
    BY <2>1 DEF ItemFits, Grows
  <2>4. RoleOf(v, i.peer) \notin {"none", kind}
    BY <1>3, <2>1 DEF ItemFits
  <2> QED BY <2>2, <2>3, <2>4 DEF ItemFits
<1> QED BY <1>1, <1>2, <1>3, <1>4

Extended(g, f, x, y) ==
  /\ IsTable(g) /\ DOMAIN g = DOMAIN f \union {x} /\ g[x] = y
  /\ \A z \in DOMAIN f : g[z] = f[z]
  /\ IsTable(f) => Without(g, x) = f

LEMMA TableGrows ==
  ASSUME NEW f, NEW x, NEW y, x \notin DOMAIN f, NEW g, g = With(f, x, y)
  PROVE  Extended(g, f, x, y)
<1>2. g = [z \in DOMAIN f \union {x} |-> IF z = x THEN y ELSE f[z]]
  BY DEF With
<1>3. /\ DOMAIN g = DOMAIN f \union {x} /\ g[x] = y
      /\ \A z \in DOMAIN f : g[z] = f[z]
  BY <1>2
<1>4. IsTable(g)
  BY <1>2, <1>3 DEF IsTable
<1>5. Without(g, x) = [z \in DOMAIN f |-> f[z]]
  <2>1. Without(g, x) = [z \in DOMAIN g \ {x} |-> g[z]]
    BY DEF Without
  <2>2. DOMAIN g \ {x} = DOMAIN f
    BY <1>3
  <2> QED BY <1>3, <2>1, <2>2
<1> QED BY <1>3, <1>4, <1>5 DEF IsTable, Extended

LEMMA HoldersStay ==
  ASSUME NEW s, NEW v, Grows(s, v), HoldersStand(s), NEW N, v.holders \subseteq s.holders \union N,
         \A h \in N : \E f \in DOMAIN v.files, x \in Address :
                        h = <<f, x>> /\ RoleOf(v, x) = "storage"
  PROVE  HoldersStand(v)
<1>1. PICK D, F, A, B : /\ D = DOMAIN s.files /\ F = DOMAIN v.files
                        /\ A = {a \in Address : RoleOf(s, a) = "storage"}
                        /\ B = {a \in Address : RoleOf(v, a) = "storage"}
  OBVIOUS
<1>2. \A x : RoleOf(s, x) = "storage" => RoleOf(v, x) = "storage"
  BY DEF RoleOf, Grows
<1>3. D \subseteq F /\ A \subseteq B
  BY <1>1, <1>2 DEF Grows
<1>4. \A h \in s.holders : h \in D \X A
  BY <1>1 DEF HoldersStand
<1>5. \A h \in N : h \in F \X B
  BY <1>1
<1>6. \A h \in v.holders : h \in F \X B
  BY <1>3, <1>4, <1>5
<1> QED BY <1>1, <1>6 DEF HoldersStand

LEMMA TransferredIs ==
  ASSUME NEW w, DOMAIN w = StoreFields, w.balance \in [Address -> Int], NEW a,
         a.from \in Address, a.to \in Address, a.from # a.to, a.amount \in Nat
  PROVE  LET v == Transferred(w, a)
         IN  /\ v = [x \in StoreFields |-> v[x]]
             /\ v.auth = w.auth /\ v.roles = w.roles /\ v.files = w.files
             /\ v.units = w.units /\ v.holders = w.holders /\ v.requests = w.requests
             /\ v.pool = w.pool /\ v.length = w.length /\ v.ok = w.ok
             /\ v.balance = [b \in Address |-> CASE b = a.to   -> w.balance[b] + a.amount
                                                 [] b = a.from -> w.balance[b] - a.amount
                                                 [] OTHER -> w.balance[b]]
<1>1. PICK b : b = w.balance
  OBVIOUS
<1>2. PICK x : x = [b EXCEPT ![a.to] = @ + a.amount]
  OBVIOUS
<1>3. PICK y : y = [x EXCEPT ![a.from] = @ - a.amount]
  OBVIOUS
<1>4. y = [c \in Address |-> CASE c = a.to   -> b[c] + a.amount
                                [] c = a.from -> b[c] - a.amount
                                [] OTHER -> b[c]]
  BY <1>1, <1>2, <1>3
<1>5. PICK u : u = [w EXCEPT !.balance = x]
  OBVIOUS
<1>6. u.balance = x /\ DOMAIN u = StoreFields
  BY <1>5 DEF StoreFields
<1>7. PICK v : v = [u EXCEPT !.balance = y]
  OBVIOUS
<1>8. Transferred(w, a) = v
  BY <1>1, <1>2, <1>3, <1>5, <1>6, <1>7 DEF Transferred
<1>9. v.balance = y
  BY <1>6, <1>7 DEF StoreFields
<1>10. /\ v.auth = w.auth /\ v.roles = w.roles /\ v.files = w.files
       /\ v.units = w.units /\ v.holders = w.holders /\ v.requests = w.requests
       /\ v.pool = w.pool /\ v.length = w.length /\ v.ok = w.ok
  BY <1>5, <1>7 DEF StoreFields
<1>11. v = [z \in StoreFields |-> v[z]]
  BY <1>6, <1>7
<1> QED BY <1>1, <1>4, <1>8, <1>9, <1>10, <1>11

\* A transaction that is allowed leaves a book.
LEMMA BookedIs ==
  ASSUME NEW s, NEW free, Book(s, free), NEW t \in ValidTx, Allowed(s, t, free)
  PROVE  Book(Booked(s, t), free) /\ Grows(s, Booked(s, t))
<1>1. PICK a : a = Action[t]
  OBVIOUS
<1>2. PICK v : v = Booked(s, t)
  OBVIOUS
<1>3. DOMAIN s = StoreFields
  BY DEF Book
<1>4. CASE a.type = "AuthorizationUpdate"
  <2>1. IsUpdate(a) /\ Signers[t][1] \in Address /\ Signers[t][1] # a.actor /\ Len(Signers[t]) = 1
    BY <1>1, <1>4, TxIs
  <2>2. UpdateFits(s.auth, a) /\ Authorised(s, t)
    BY <1>1, <1>4 DEF Allowed
  <2>3. MaySign(s.auth, a.owner, Signers[t][1], "AuthorizationUpdate")
    <3>1. 1 \in DOMAIN Signers[t]
      <4>1. t \in Tx /\ Signers[t] \in Seq(Address)
        BY CatalogueAssumption DEF ValidTx
      <4> QED BY <2>1, <4>1
    <3>2. Owners(t)[1] = a.owner
      BY <1>1, <1>4 DEF Owners
    <3> QED BY <1>1, <1>4, <2>2, <3>1, <3>2 DEF Authorised
  <2>4. PICK x : x = Updated(s.auth, a)
    OBVIOUS
  <2>5. x \in Sound
    <3>1. s.auth \in Sound
      BY DEF Book
    <3> QED BY <2>1, <2>2, <2>3, <2>4, <3>1, UpdateStaysSound
  <2>6. v = [s EXCEPT !.auth = x]
    BY <1>1, <1>2, <1>4, <2>4 DEF Booked
  <2>7. /\ v = [z \in StoreFields |-> v[z]] /\ v.auth = x
        /\ v.requests = s.requests /\ v.pool = s.pool /\ v.ok = s.ok /\ v.balance = s.balance
        /\ v.length = s.length /\ v.roles = s.roles /\ v.files = s.files /\ v.units = s.units
        /\ v.holders = s.holders
    BY <1>3, <2>6 DEF StoreFields
  <2>8. Book(v, free)
    <3>1. Grows(s, v)
      BY <2>7 DEF Grows
    <3>2. HoldersStand(s)
      BY DEF Book
    <3>4. PICK N : N = {}
      OBVIOUS
    <3>5. /\ v.holders \subseteq s.holders \union N
          /\ \A h \in N : \E f \in DOMAIN v.files, b \in Address :
                             h = <<f, b>> /\ RoleOf(v, b) = "storage"
      BY <2>7, <3>4
    <3>3. HoldersStand(v)
      BY <3>1, <3>2, <3>5, HoldersStay
    <3> QED BY <2>5, <2>7, <3>3 DEF Book, Documented
  <2> QED BY <1>2, <2>7, <2>8 DEF Grows
<1>5. CASE a.type = "Transfer"
  <2>1. a.from \in Address /\ a.to \in Address /\ a.from # a.to /\ a.amount \in Nat
    BY <1>1, <1>5, TxIs
  <2>2. s.balance \in [Address -> Nat] /\ s.balance[a.from] >= a.amount
    BY <1>1, <1>5 DEF Allowed, Book
  <2>3. v = Transferred(s, a)
    BY <1>1, <1>2, <1>5 DEF Booked
  <2>4. /\ v = [z \in StoreFields |-> v[z]] /\ v.auth = s.auth
        /\ v.requests = s.requests /\ v.pool = s.pool /\ v.ok = s.ok
        /\ v.length = s.length /\ v.roles = s.roles /\ v.files = s.files /\ v.units = s.units
        /\ v.holders = s.holders
        /\ v.balance = [b \in Address |-> CASE b = a.to   -> s.balance[b] + a.amount
                                            [] b = a.from -> s.balance[b] - a.amount
                                            [] OTHER -> s.balance[b]]
    <3>1. s.balance \in [Address -> Int]
      BY <2>2
    <3> QED BY <1>3, <2>1, <2>3, <3>1, TransferredIs
  <2>5. v.balance \in [Address -> Nat]
    BY <2>1, <2>2, <2>4
  <2>6. Book(v, free)
    <3>1. Grows(s, v)
      BY <2>4 DEF Grows
    <3>2. HoldersStand(s)
      BY DEF Book
    <3>4. PICK N : N = {}
      OBVIOUS
    <3>5. /\ v.holders \subseteq s.holders \union N
          /\ \A h \in N : \E f \in DOMAIN v.files, b \in Address :
                             h = <<f, b>> /\ RoleOf(v, b) = "storage"
      BY <2>4, <3>4
    <3>3. HoldersStand(v)
      BY <3>1, <3>2, <3>5, HoldersStay
    <3> QED BY <2>4, <2>5, <3>3, ZenonT(30) DEF Book, Documented
  <2> QED BY <1>2, <2>4, <2>6 DEF Grows
<1>6. CASE a.type = "Role"
  <2>1. a.node \in Address /\ a.node \notin DOMAIN s.roles \union free
    BY <1>1, <1>6, TxIs DEF Allowed
  <2>2. PICK r : r = With(s.roles, a.node, a.kind)
    OBVIOUS
  <2>3. v = [s EXCEPT !.roles = r]
    BY <1>1, <1>2, <1>6, <2>2 DEF Booked, RoleApply
  <2>4. /\ v = [z \in StoreFields |-> v[z]] /\ v.roles = r
        /\ v.requests = s.requests /\ v.pool = s.pool /\ v.ok = s.ok /\ v.balance = s.balance
        /\ v.length = s.length /\ v.auth = s.auth /\ v.files = s.files /\ v.units = s.units
        /\ v.holders = s.holders
    BY <1>3, <2>3 DEF StoreFields
  <2>5. /\ IsTable(r) /\ DOMAIN r = DOMAIN s.roles \union {a.node}
        /\ \A x \in DOMAIN s.roles : r[x] = s.roles[x]
    <3>1. PICK f, x, y : f = s.roles /\ x = a.node /\ y = a.kind
      OBVIOUS
    <3>2. x \notin DOMAIN f /\ r = With(f, x, y)
      BY <2>1, <2>2, <3>1
    <3>3. Extended(r, f, x, y)
      BY <3>2, TableGrows, Zenon
    <3> QED BY <3>1, <3>3 DEF Extended
  <2>6. Documented(v)
    BY <2>1, <2>4, <2>5, ZenonT(30) DEF Book, Documented
  <2>7. Grows(s, v) /\ HoldersStand(v)
    <3>1. Grows(s, v)
      BY <2>4, <2>5 DEF Grows
    <3>2. HoldersStand(s)
      BY DEF Book
    <3>4. PICK N : N = {}
      OBVIOUS
    <3>5. /\ v.holders \subseteq s.holders \union N
          /\ \A h \in N : \E f \in DOMAIN v.files, b \in Address :
                             h = <<f, b>> /\ RoleOf(v, b) = "storage"
      BY <2>4, <3>4
    <3> QED BY <3>1, <3>2, <3>5, HoldersStay
  <2>8. Book(v, free)
    BY <2>1, <2>4, <2>5, <2>6, <2>7 DEF Book
  <2> QED BY <1>2, <2>7, <2>8
<1>7. CASE a.type = "File"
  <2>1. a.authors \in Seq(Address) /\ a.authors # <<>> /\ a.uri \notin DOMAIN s.files
    BY <1>1, <1>7, TxIs DEF Allowed
  <2>2. PICK r : r = With(s.files, a.uri, a.authors)
    OBVIOUS
  <2>3. v = [s EXCEPT !.files = r]
    BY <1>1, <1>2, <1>7, <2>2 DEF Booked, FileApply
  <2>4. /\ v = [z \in StoreFields |-> v[z]] /\ v.files = r
        /\ v.requests = s.requests /\ v.pool = s.pool /\ v.ok = s.ok /\ v.balance = s.balance
        /\ v.length = s.length /\ v.auth = s.auth /\ v.roles = s.roles /\ v.units = s.units
        /\ v.holders = s.holders
    BY <1>3, <2>3 DEF StoreFields
  <2>5. /\ IsTable(r) /\ DOMAIN r = DOMAIN s.files \union {a.uri} /\ r[a.uri] = a.authors
        /\ \A x \in DOMAIN s.files : r[x] = s.files[x]
    <3>1. PICK f, x, y : f = s.files /\ x = a.uri /\ y = a.authors
      OBVIOUS
    <3>2. x \notin DOMAIN f /\ r = With(f, x, y)
      BY <2>1, <2>2, <3>1
    <3>3. Extended(r, f, x, y)
      BY <3>2, TableGrows, Zenon
    <3> QED BY <3>1, <3>3 DEF Extended
  <2>6. Documented(v)
    <3>1. Documented(s)
      BY DEF Book
    <3>2. \A x \in DOMAIN r : r[x] \in Seq(Address) /\ r[x] # <<>>
      BY <2>1, <2>5, <3>1 DEF Documented
    <3>3. DOMAIN s.files \subseteq DOMAIN r
      BY <2>5
    <3> QED BY <2>4, <3>1, <3>2, <3>3 DEF Documented
  <2>7. Grows(s, v) /\ HoldersStand(v)
    <3>1. Grows(s, v)
      BY <2>4, <2>5 DEF Grows
    <3>2. HoldersStand(s)
      BY DEF Book
    <3>4. PICK N : N = {}
      OBVIOUS
    <3>5. /\ v.holders \subseteq s.holders \union N
          /\ \A h \in N : \E f \in DOMAIN v.files, b \in Address :
                             h = <<f, b>> /\ RoleOf(v, b) = "storage"
      BY <2>4, <3>4
    <3> QED BY <3>1, <3>2, <3>5, HoldersStay
  <2>8. Book(v, free)
    BY <2>4, <2>5, <2>6, <2>7 DEF Book
  <2> QED BY <1>2, <2>7, <2>8
<1>8. CASE a.type = "ContentUnit"
  <2>1. a.channel \in Address /\ a.uri \notin DOMAIN s.units /\ ToSet(a.files) \subseteq DOMAIN s.files
    BY <1>1, <1>8, TxIs DEF Allowed, UnitFits
  <2>2. PICK r : r = With(s.units, a.uri, a)
    OBVIOUS
  <2>3. v = [s EXCEPT !.units = r]
    BY <1>1, <1>2, <1>8, <2>2 DEF Booked, UnitApply
  <2>4. /\ v = [z \in StoreFields |-> v[z]] /\ v.units = r
        /\ v.requests = s.requests /\ v.pool = s.pool /\ v.ok = s.ok /\ v.balance = s.balance
        /\ v.length = s.length /\ v.auth = s.auth /\ v.roles = s.roles /\ v.files = s.files
        /\ v.holders = s.holders
    BY <1>3, <2>3 DEF StoreFields
  <2>5. /\ IsTable(r) /\ DOMAIN r = DOMAIN s.units \union {a.uri} /\ r[a.uri] = a
        /\ \A x \in DOMAIN s.units : r[x] = s.units[x]
    <3>1. PICK f, x, y : f = s.units /\ x = a.uri /\ y = a
      OBVIOUS
    <3>2. x \notin DOMAIN f /\ r = With(f, x, y)
      BY <2>1, <2>2, <3>1
    <3>3. Extended(r, f, x, y)
      BY <3>2, TableGrows, Zenon
    <3> QED BY <3>1, <3>3 DEF Extended
  <2>6. Documented(v)
    <3>1. Documented(s)
      BY DEF Book
    <3>2. \A x \in DOMAIN r : /\ r[x].channel \in Address
                              /\ ToSet(r[x].files) \subseteq DOMAIN s.files
      <4> TAKE x \in DOMAIN r
      <4>1. x = a.uri \/ x \in DOMAIN s.units
        BY <2>5
      <4>2. CASE x = a.uri
        <5>1. r[x] = a
          BY <2>5, <4>2
        <5> QED BY <2>1, <5>1
      <4>3. CASE x \in DOMAIN s.units
        <5>1. r[x] = s.units[x]
          BY <2>5, <4>3
        <5> QED BY <3>1, <4>3, <5>1 DEF Documented
      <4> QED BY <4>1, <4>2, <4>3
    <3> QED BY <2>4, <3>1, <3>2 DEF Documented
  <2>7. Grows(s, v) /\ HoldersStand(v)
    <3>1. Grows(s, v)
      BY <2>4, <2>5 DEF Grows
    <3>2. HoldersStand(s)
      BY DEF Book
    <3>4. PICK N : N = {}
      OBVIOUS
    <3>5. /\ v.holders \subseteq s.holders \union N
          /\ \A h \in N : \E f \in DOMAIN v.files, b \in Address :
                             h = <<f, b>> /\ RoleOf(v, b) = "storage"
      BY <2>4, <3>4
    <3> QED BY <3>1, <3>2, <3>5, HoldersStay
  <2>8. Book(v, free)
    BY <2>4, <2>5, <2>6, <2>7 DEF Book
  <2> QED BY <1>2, <2>7, <2>8
<1>9. CASE a.type = "StorageUpdate"
  <2>1. /\ a.status \in {"store", "remove"} /\ RoleOf(s, a.storage) = "storage"
        /\ a.uri \in DOMAIN s.files
    BY <1>1, <1>9, TxIs DEF Allowed, StorageUpdateFits
  <2>2. a.storage \in Address
    BY <2>1 DEF RoleOf, Book, Documented
  <2>3. PICK r : r = Holding(s.holders, a, a.status)
    OBVIOUS
  <2>4. v = [s EXCEPT !.holders = r]
    BY <1>1, <1>2, <1>9, <2>3 DEF Booked, StorageUpdateApply
  <2>5. /\ v = [z \in StoreFields |-> v[z]] /\ v.holders = r
        /\ v.requests = s.requests /\ v.pool = s.pool /\ v.ok = s.ok /\ v.balance = s.balance
        /\ v.length = s.length /\ v.auth = s.auth /\ v.roles = s.roles /\ v.files = s.files
        /\ v.units = s.units
    BY <1>3, <2>4 DEF StoreFields
  <2>6. r \subseteq s.holders \union {<<a.uri, a.storage>>}
    BY <2>3 DEF Holding
  <2>7. HoldersStand(v)
    <3>1. Grows(s, v)
      BY <2>5 DEF Grows
    <3>2. HoldersStand(s)
      BY DEF Book
    <3>3. PICK N : N = {<<a.uri, a.storage>>}
      OBVIOUS
    <3>4. v.holders \subseteq s.holders \union N
      BY <2>5, <2>6, <3>3
    <3>5. \A h \in N : \E f \in DOMAIN v.files, b \in Address :
                          h = <<f, b>> /\ RoleOf(v, b) = "storage"
      BY <2>1, <2>2, <2>5, <3>3 DEF RoleOf
    <3> QED BY <3>1, <3>2, <3>4, <3>5, HoldersStay
  <2>8. Book(v, free)
    BY <2>5, <2>7 DEF Book, Documented
  <2> QED BY <1>2, <2>5, <2>8 DEF Grows
<1>10. CASE a.type \in {"Content", "ServiceStatistics"}
  <2>1. v = s
    BY <1>1, <1>2, <1>10 DEF Booked
  <2> QED BY <1>2, <2>1 DEF Grows
<1>11. a.type \in ActionType
  BY <1>1, TxIs
<1> QED BY <1>4, <1>5, <1>6, <1>7, <1>8, <1>9, <1>10, <1>11 DEF ActionType

\* Stores that keep a book keep the one after the transaction.
LEMMA ApplyKeeps ==
  ASSUME NEW s, NEW free, Book(s, free), NEW w, Keeps(w, s), NEW t \in ValidTx, NEW layer
  PROVE  LET v == ActionApply(w, t, layer)
         IN  Keeps(v, Booked(s, t)) /\ v.pool = w.pool
<1>1. PICK a : a = Action[t]
  OBVIOUS
<1>2. PICK v, u : v = ActionApply(w, t, layer) /\ u = Booked(s, t)
  OBVIOUS
<1>3. DOMAIN s = StoreFields /\ DOMAIN w = StoreFields
  BY DEF Book, Keeps
<1>4. CASE a.type = "AuthorizationUpdate"
  <2>1. PICK x : x = Updated(s.auth, a)
    OBVIOUS
  <2>2. u = [s EXCEPT !.auth = x] /\ v = [w EXCEPT !.auth = x]
    BY <1>1, <1>2, <1>4, <2>1 DEF Booked, ActionApply, Keeps
  <2> QED BY <1>2, <1>3, <2>2 DEF Keeps, StoreFields
<1>5. CASE a.type = "Transfer"
  <2>1. a.from \in Address /\ a.to \in Address /\ a.from # a.to /\ a.amount \in Nat
    BY <1>1, <1>5, TxIs
  <2>2. s.balance \in [Address -> Int] /\ w.balance = s.balance
    BY DEF Book, Keeps
  <2>3. u = Transferred(s, a) /\ v = Transferred(w, a)
    BY <1>1, <1>2, <1>5 DEF Booked, ActionApply
  <2>4. PICK b : b = [c \in Address |-> CASE c = a.to   -> s.balance[c] + a.amount
                                          [] c = a.from -> s.balance[c] - a.amount
                                          [] OTHER -> s.balance[c]]
    OBVIOUS
  <2>5. /\ u.balance = b /\ u.auth = s.auth /\ u.roles = s.roles /\ u.files = s.files
        /\ u.units = s.units /\ u.holders = s.holders /\ u.length = s.length
    BY <1>3, <2>1, <2>2, <2>3, <2>4, TransferredIs
  <2>6. /\ DOMAIN v = StoreFields /\ v.ok = w.ok /\ v.pool = w.pool
        /\ v.balance = b /\ v.auth = w.auth /\ v.roles = w.roles /\ v.files = w.files
        /\ v.units = w.units /\ v.holders = w.holders /\ v.length = w.length
    BY <1>3, <2>1, <2>2, <2>3, <2>4, TransferredIs
  <2> QED BY <1>2, <2>5, <2>6 DEF Keeps
<1>6. CASE a.type = "Role"
  <2>1. PICK x : x = With(s.roles, a.node, a.kind)
    OBVIOUS
  <2>2. u = [s EXCEPT !.roles = x] /\ v = [w EXCEPT !.roles = x]
    BY <1>1, <1>2, <1>6, <2>1 DEF Booked, ActionApply, RoleApply, Keeps
  <2> QED BY <1>2, <1>3, <2>2 DEF Keeps, StoreFields
<1>7. CASE a.type = "File"
  <2>1. PICK x : x = With(s.files, a.uri, a.authors)
    OBVIOUS
  <2>2. u = [s EXCEPT !.files = x] /\ v = [w EXCEPT !.files = x]
    BY <1>1, <1>2, <1>7, <2>1 DEF Booked, ActionApply, FileApply, Keeps
  <2> QED BY <1>2, <1>3, <2>2 DEF Keeps, StoreFields
<1>8. CASE a.type = "ContentUnit"
  <2>1. PICK x : x = With(s.units, a.uri, a)
    OBVIOUS
  <2>2. u = [s EXCEPT !.units = x] /\ v = [w EXCEPT !.units = x]
    BY <1>1, <1>2, <1>8, <2>1 DEF Booked, ActionApply, UnitApply, Keeps
  <2> QED BY <1>2, <1>3, <2>2 DEF Keeps, StoreFields
<1>9. CASE a.type = "Content"
  <2>1. u = s
    BY <1>1, <1>2, <1>9 DEF Booked
  <2>2. v = w \/ \E x : v = [w EXCEPT !.requests = x]
    BY <1>1, <1>2, <1>9 DEF ActionApply, ContentApply
  <2> QED BY <1>2, <1>3, <2>1, <2>2 DEF Keeps, StoreFields
<1>10. CASE a.type = "StorageUpdate"
  <2>1. PICK x : x = Holding(s.holders, a, a.status)
    OBVIOUS
  <2>2. u = [s EXCEPT !.holders = x] /\ v = [w EXCEPT !.holders = x]
    BY <1>1, <1>2, <1>10, <2>1 DEF Booked, ActionApply, StorageUpdateApply, Keeps
  <2> QED BY <1>2, <1>3, <2>2 DEF Keeps, StoreFields
<1>11. CASE a.type = "ServiceStatistics"
  <2>1. u = s /\ v = w
    BY <1>1, <1>2, <1>11 DEF Booked, ActionApply, ReportApply
  <2> QED BY <1>2, <2>1
<1>12. a.type \in ActionType
  BY <1>1, TxIs
<1> QED BY <1>4, <1>5, <1>6, <1>7, <1>8, <1>9, <1>10, <1>11, <1>12 DEF ActionType

\* A transaction that was allowed can be undone, and then the book before is kept.
LEMMA RevertKeeps ==
  ASSUME NEW s, NEW free, Book(s, free), NEW t \in ValidTx, Allowed(s, t, free),
         NEW w, Keeps(w, Booked(s, t))
  PROVE  LET v == ActionRevert(w, t)
         IN  Keeps(v, s) /\ v.pool = w.pool
<1>1. PICK a : a = Action[t]
  OBVIOUS
<1>2. PICK v, u : v = ActionRevert(w, t) /\ u = Booked(s, t)
  OBVIOUS
<1>3. DOMAIN s = StoreFields /\ DOMAIN w = StoreFields /\ w.ok = TRUE
  BY DEF Book, Keeps
<1>4. a.type # "AuthorizationUpdate" /\ u.auth = s.auth => Authorised(w, t)
  <2>1. Authorised(s, t)
    BY DEF Allowed
  <2> QED BY <1>2, <2>1 DEF Authorised, Keeps
<1>5. CASE a.type = "AuthorizationUpdate"
  <2>1. IsUpdate(a) /\ UpdateFits(s.auth, a) /\ s.auth \in AuthStore
    BY <1>1, <1>5, TxIs DEF Allowed, Book, Sound
  <2>2. PICK x : x = Updated(s.auth, a)
    OBVIOUS
  <2>3. CanUndo(x, a) /\ Undone(x, a) = s.auth
    BY <2>1, <2>2, UndoneUpdateIsGone
  <2>4. u = [s EXCEPT !.auth = x]
    BY <1>1, <1>2, <1>5, <2>2 DEF Booked
  <2>5. w.auth = x
    BY <1>2, <1>3, <2>4 DEF Keeps, StoreFields
  <2>6. PICK ok : ok = CanUndo(x, a) /\ ok = TRUE
    <3>1. CanUndo(x, a) = TRUE
      BY <2>3 DEF CanUndo, Fits
    <3> QED BY <3>1
  <2>7. v = [w EXCEPT !.ok = ok, !.auth = s.auth]
    BY <1>1, <1>2, <1>5, <2>3, <2>5, <2>6 DEF ActionRevert, UpdateRevert
  <2> QED BY <1>2, <1>3, <2>4, <2>6, <2>7 DEF Keeps, StoreFields
<1>6. CASE a.type = "Transfer"
  <2>1. a.from \in Address /\ a.to \in Address /\ a.from # a.to /\ a.amount \in Nat
    BY <1>1, <1>6, TxIs
  <2>2. s.balance \in [Address -> Nat] /\ s.balance \in [Address -> Int]
    BY DEF Book
  <2>3. u = Transferred(s, a)
    BY <1>1, <1>2, <1>6 DEF Booked
  <2>4. /\ u.balance = [c \in Address |-> CASE c = a.to   -> s.balance[c] + a.amount
                                            [] c = a.from -> s.balance[c] - a.amount
                                            [] OTHER -> s.balance[c]]
        /\ u.auth = s.auth /\ u.roles = s.roles /\ u.files = s.files
        /\ u.units = s.units /\ u.holders = s.holders /\ u.length = s.length
    BY <1>3, <2>1, <2>2, <2>3, TransferredIs
  <2>5. PICK b : b = w.balance /\ b = u.balance
    BY <1>2 DEF Keeps
  <2>6. PICK c : c = [b EXCEPT ![a.to] = @ - a.amount]
    OBVIOUS
  <2>7. PICK d : d = [c EXCEPT ![a.from] = @ + a.amount]
    OBVIOUS
  <2>8. d = s.balance
    BY <2>1, <2>2, <2>4, <2>5, <2>6, <2>7
  <2>9. PICK x : x = [w EXCEPT !.balance = c]
    OBVIOUS
  <2>10. PICK y : y = [x EXCEPT !.balance = d]
    OBVIOUS
  <2>11. x.balance = c /\ y.balance = d /\ DOMAIN x = StoreFields
    BY <1>3, <2>9, <2>10 DEF StoreFields
  <2>12. [w EXCEPT !.balance[a.to] = @ - a.amount, !.balance[a.from] = @ + a.amount] = y
    <3>1. b = w.balance
      BY <2>5
    <3>2. x.balance = c /\ DOMAIN x = StoreFields
      BY <2>11
    <3>3. PICK z : z = [w EXCEPT !.balance[a.to] = @ - a.amount]
      OBVIOUS
    <3>4. z = x
      BY <2>6, <2>9, <3>1, <3>3
    <3>5. [z EXCEPT !.balance[a.from] = @ + a.amount] = y
      BY <2>7, <2>10, <3>2, <3>4
    <3> QED BY <2>1, <3>3, <3>5
  <2>13. PICK ok : ok = (y.balance[a.to] >= 0) /\ ok = TRUE
    <3>1. y.balance[a.to] >= 0
      BY <2>1, <2>2, <2>8, <2>11
    <3> QED BY <3>1
  <2>14. TransferRevert(w, a) = [y EXCEPT !.ok = ok]
    BY <2>12, <2>13 DEF TransferRevert
  <2>15. v = [y EXCEPT !.ok = ok]
    BY <1>1, <1>2, <1>4, <1>6, <2>4, <2>14 DEF ActionRevert
  <2>16. DOMAIN v = StoreFields /\ v.ok = TRUE /\ v.balance = d
    BY <1>3, <2>9, <2>10, <2>11, <2>13, <2>15 DEF StoreFields
  <2>17. /\ v.auth = w.auth /\ v.roles = w.roles /\ v.files = w.files
         /\ v.units = w.units /\ v.holders = w.holders /\ v.length = w.length
         /\ v.pool = w.pool
    BY <1>3, <2>9, <2>10, <2>15 DEF StoreFields
  <2> QED BY <1>2, <2>4, <2>8, <2>16, <2>17 DEF Keeps
<1>7. CASE a.type = "Role"
  <2>1. PICK f, x : f = s.roles /\ x = a.node /\ x \notin DOMAIN f /\ IsTable(f)
    BY <1>1, <1>7 DEF Allowed, Book
  <2>2. PICK y, g : y = a.kind /\ g = With(f, x, y)
    OBVIOUS
  <2>3. Without(g, x) = f
    <3>1. Extended(g, f, x, y)
      BY <2>1, <2>2, TableGrows, Zenon
    <3> QED BY <2>1, <3>1 DEF Extended
  <2>4. u = [s EXCEPT !.roles = g]
    BY <1>1, <1>2, <1>7, <2>1, <2>2 DEF Booked, RoleApply
  <2>5. u.auth = s.auth /\ w.roles = g
    BY <1>2, <1>3, <2>4 DEF Keeps, StoreFields
  <2>6. v = [w EXCEPT !.roles = f]
    BY <1>1, <1>2, <1>4, <1>7, <2>1, <2>3, <2>5 DEF ActionRevert, RoleRevert
  <2> QED BY <1>2, <1>3, <2>1, <2>4, <2>6 DEF Keeps, StoreFields
<1>8. CASE a.type = "File"
  <2>1. PICK f, x : f = s.files /\ x = a.uri /\ x \notin DOMAIN f /\ IsTable(f)
    BY <1>1, <1>8 DEF Allowed, Book
  <2>2. PICK y, g : y = a.authors /\ g = With(f, x, y)
    OBVIOUS
  <2>3. Without(g, x) = f
    <3>1. Extended(g, f, x, y)
      BY <2>1, <2>2, TableGrows, Zenon
    <3> QED BY <2>1, <3>1 DEF Extended
  <2>4. u = [s EXCEPT !.files = g]
    BY <1>1, <1>2, <1>8, <2>1, <2>2 DEF Booked, FileApply
  <2>5. u.auth = s.auth /\ w.files = g
    BY <1>2, <1>3, <2>4 DEF Keeps, StoreFields
  <2>6. v = [w EXCEPT !.files = f]
    BY <1>1, <1>2, <1>4, <1>8, <2>1, <2>3, <2>5 DEF ActionRevert, FileRevert
  <2> QED BY <1>2, <1>3, <2>1, <2>4, <2>6 DEF Keeps, StoreFields
<1>9. CASE a.type = "ContentUnit"
  <2>1. PICK f, x : f = s.units /\ x = a.uri /\ x \notin DOMAIN f /\ IsTable(f)
    BY <1>1, <1>9 DEF Allowed, Book, UnitFits
  <2>2. PICK y, g : y = a /\ g = With(f, x, y)
    OBVIOUS
  <2>3. Without(g, x) = f
    <3>1. Extended(g, f, x, y)
      BY <2>1, <2>2, TableGrows, Zenon
    <3> QED BY <2>1, <3>1 DEF Extended
  <2>4. u = [s EXCEPT !.units = g]
    BY <1>1, <1>2, <1>9, <2>1, <2>2 DEF Booked, UnitApply
  <2>5. u.auth = s.auth /\ w.units = g
    BY <1>2, <1>3, <2>4 DEF Keeps, StoreFields
  <2>6. v = [w EXCEPT !.units = f]
    BY <1>1, <1>2, <1>4, <1>9, <2>1, <2>3, <2>5 DEF ActionRevert, UnitRevert
  <2> QED BY <1>2, <1>3, <2>1, <2>4, <2>6 DEF Keeps, StoreFields
<1>10. CASE a.type = "StorageUpdate"
  <2>1. PICK h, p : h = s.holders /\ p = <<a.uri, a.storage>>
    OBVIOUS
  <2>2. a.status \in {"store", "remove"} /\ ((p \in h) = (a.status = "remove"))
    BY <1>1, <1>10, <2>1, TxIs DEF Allowed, StorageUpdateFits
  <2>3. PICK k : k = Holding(h, a, a.status)
    OBVIOUS
  <2>4. Holding(k, a, Opposite(a.status)) = h
    BY <2>1, <2>2, <2>3 DEF Holding, Opposite
  <2>5. u = [s EXCEPT !.holders = k]
    BY <1>1, <1>2, <1>10, <2>1, <2>3 DEF Booked, StorageUpdateApply
  <2>6. u.auth = s.auth /\ w.holders = k
    BY <1>2, <1>3, <2>5 DEF Keeps, StoreFields
  <2>7. v = [w EXCEPT !.holders = h]
    BY <1>1, <1>2, <1>4, <1>10, <2>4, <2>6 DEF ActionRevert, StorageUpdateRevert
  <2> QED BY <1>2, <1>3, <2>1, <2>5, <2>7 DEF Keeps, StoreFields
<1>11. CASE a.type \in {"Content", "ServiceStatistics"}
  <2>1. u = s
    BY <1>1, <1>2, <1>11 DEF Booked
  <2>2. v = w
    BY <1>1, <1>2, <1>4, <1>11, <2>1 DEF ActionRevert, ContentRevert, ReportRevert
  <2> QED BY <1>2, <2>1, <2>2
<1>12. a.type \in ActionType
  BY <1>1, TxIs
<1> QED BY <1>5, <1>6, <1>7, <1>8, <1>9, <1>10, <1>11, <1>12 DEF ActionType

-----------------------------------------------------------------------------
(* One transaction after the other *)

\* h holds the books before, between and after the transactions of q.
Leading(h, q, free) ==
  /\ \A n \in 0..Len(q) : Book(h[n], free)
  /\ \A n \in 1..Len(q) : Allowed(h[n - 1], q[n], free) /\ h[n] = Booked(h[n - 1], q[n])

\* The transactions q lead from the book a to b, in which the reports among them stand.
Reaches(a, q, b, free) ==
  /\ q \in Seq(ValidTx)
  /\ \E h : Leading(h, q, free) /\ h[0] = a /\ h[Len(q)] = b
  /\ \A n \in 1..Len(q) : ReportStands(b, q[n])
  /\ b.length = a.length

LEMMA ReachedIsBook ==
  ASSUME NEW a, NEW q, NEW b, NEW free, Reaches(a, q, b, free)
  PROVE  Book(a, free) /\ Book(b, free)
<1>1. PICK h : Leading(h, q, free) /\ h[0] = a /\ h[Len(q)] = b
  BY DEF Reaches
<1>2. Len(q) \in Nat
  BY DEF Reaches
<1>3. 0 \in 0..Len(q) /\ Len(q) \in 0..Len(q)
  BY <1>2
<1> QED BY <1>1, <1>3 DEF Leading

LEMMA ReachesNothing ==
  ASSUME NEW a, NEW free, Book(a, free)
  PROVE  Reaches(a, <<>>, a, free)
<1>1. PICK h : h = [n \in 0..0 |-> a]
  OBVIOUS
<1>2. Len(<<>>) = 0 /\ <<>> \in Seq(ValidTx)
  OBVIOUS
<1>3. Leading(h, <<>>, free) /\ h[0] = a
  BY <1>1, <1>2 DEF Leading
<1> QED BY <1>2, <1>3 DEF Reaches

LEMMA ReachesNext ==
  ASSUME NEW a, NEW q, NEW b, NEW free, Reaches(a, q, b, free),
         NEW t \in ValidTx, Allowed(b, t, free), NEW c, c = Booked(b, t)
  PROVE  Reaches(a, Append(q, t), c, free)
<1>1. PICK h : Leading(h, q, free) /\ h[0] = a /\ h[Len(q)] = b
  BY DEF Reaches
<1>2. PICK N \in Nat : N = Len(q) /\ q \in Seq(ValidTx)
  BY DEF Reaches
<1>3. PICK p : p = Append(q, t)
  OBVIOUS
<1>4. /\ p \in Seq(ValidTx) /\ Len(p) = N + 1 /\ p[N + 1] = t
      /\ \A n \in 1..N : p[n] = q[n]
  BY <1>2, <1>3
<1>5. PICK g : g = [n \in 0..(N + 1) |-> IF n = N + 1 THEN c ELSE h[n]]
  OBVIOUS
<1>6. g[N + 1] = c /\ \A n \in 0..N : g[n] = h[n] /\ Book(h[n], free)
  BY <1>1, <1>2, <1>5 DEF Leading
<1>7. Book(b, free)
  BY ReachedIsBook
<1>8. Book(c, free) /\ Grows(b, c)
  BY <1>7, BookedIs
<1>9. \A n \in 0..(N + 1) : Book(g[n], free)
  <2>1. \A n \in 0..(N + 1) : n = N + 1 \/ n \in 0..N
    OBVIOUS
  <2> QED BY <1>6, <1>8, <2>1
<1>10. ASSUME NEW n \in 1..(N + 1)
       PROVE  Allowed(g[n - 1], p[n], free) /\ g[n] = Booked(g[n - 1], p[n])
  <2>1. CASE n = N + 1
    <3>1. n - 1 = N /\ N \in 0..N
      BY <2>1
    <3> QED BY <1>1, <1>2, <1>4, <1>6, <2>1, <3>1
  <2>2. CASE n # N + 1
    <3>1. n \in 1..N /\ n - 1 \in 0..N /\ n \in 0..N
      BY <2>2
    <3> QED BY <1>1, <1>2, <1>4, <1>6, <3>1 DEF Leading
  <2> QED BY <2>1, <2>2
<1>11. ASSUME NEW n \in 1..(N + 1)
       PROVE  ReportStands(c, p[n])
  <2>1. ReportStands(b, p[n])
    <3>1. CASE n = N + 1
      BY <1>4, <3>1 DEF Allowed
    <3>2. CASE n # N + 1
      <4>1. n \in 1..N
        BY <3>2
      <4> QED BY <1>2, <1>4, <4>1 DEF Reaches
    <3> QED BY <3>1, <3>2
  <2>2. PICK x : x = p[n] /\ ReportStands(b, x)
    BY <2>1
  <2>3. ReportStands(c, x)
    BY <1>8, <2>2, StillStands
  <2> QED BY <2>2, <2>3
<1>12. c.length = b.length
  <2>1. PICK v : v = c /\ Book(b, free)
    BY <1>7
  <2>2. DOMAIN b = StoreFields
    BY <2>1 DEF Book
  <2>3. PICK y : y = Action[t]
    OBVIOUS
  <2>4. CASE y.type = "Transfer"
    <3>1. y.from \in Address /\ y.to \in Address /\ y.from # y.to /\ y.amount \in Nat
      BY <2>3, <2>4, TxIs
    <3>2. b.balance \in [Address -> Int]
      BY <2>1 DEF Book
    <3>3. c = Transferred(b, y)
      BY <2>3, <2>4 DEF Booked
    <3>4. Transferred(b, y).length = b.length
      BY <2>2, <3>1, <3>2, TransferredIs, Zenon
    <3> QED BY <3>3, <3>4
  <2>5. CASE y.type # "Transfer"
    <3>1. y.type \in ActionType
      BY <2>3, TxIs
    <3>2. CASE y.type = "AuthorizationUpdate"
      <4>1. PICK x : c = [b EXCEPT !.auth = x]
        BY <2>3, <3>2 DEF Booked
      <4> QED BY <2>2, <4>1 DEF StoreFields
    <3>3. CASE y.type = "Role"
      <4>1. PICK x : c = [b EXCEPT !.roles = x]
        BY <2>3, <3>3 DEF Booked, RoleApply
      <4> QED BY <2>2, <4>1 DEF StoreFields
    <3>4. CASE y.type = "File"
      <4>1. PICK x : c = [b EXCEPT !.files = x]
        BY <2>3, <3>4 DEF Booked, FileApply
      <4> QED BY <2>2, <4>1 DEF StoreFields
    <3>5. CASE y.type = "ContentUnit"
      <4>1. PICK x : c = [b EXCEPT !.units = x]
        BY <2>3, <3>5 DEF Booked, UnitApply
      <4> QED BY <2>2, <4>1 DEF StoreFields
    <3>6. CASE y.type = "StorageUpdate"
      <4>1. PICK x : c = [b EXCEPT !.holders = x]
        BY <2>3, <3>6 DEF Booked, StorageUpdateApply
      <4> QED BY <2>2, <4>1 DEF StoreFields
    <3>7. CASE y.type \in {"Content", "ServiceStatistics"}
      BY <2>3, <3>7 DEF Booked
    <3> QED BY <2>5, <3>1, <3>2, <3>3, <3>4, <3>5, <3>6, <3>7 DEF ActionType
  <2> QED BY <2>4, <2>5
<1>13. g[0] = a /\ g[Len(p)] = c
  BY <1>1, <1>4, <1>6
<1>14. Leading(g, p, free)
  BY <1>4, <1>9, <1>10 DEF Leading
<1>15. c.length = a.length
  BY <1>12 DEF Reaches
<1> QED BY <1>3, <1>4, <1>11, <1>13, <1>14, <1>15 DEF Reaches

\* Applied anew, the transactions lead to the same book.
LEMMA ReplayedIs ==
  ASSUME NEW a, NEW q, NEW b, NEW free, Reaches(a, q, b, free)
  PROVE  FoldLeft(ReplayTx, a, q) = b
<1>1. PICK h : Leading(h, q, free) /\ h[0] = a /\ h[Len(q)] = b
  BY DEF Reaches
<1>2. PICK N \in Nat : N = Len(q) /\ q \in Seq(ValidTx)
  BY DEF Reaches
<1>3. PICK f : LeftRun(f, "replay", <<>>, a, q) /\ FoldLeft(ReplayTx, a, q) = f[Len(q)]
  BY <1>2, Replaying
<1> DEFINE T == {m \in Nat : m <= N => f[m] = h[m]}
<1>4. 0 \in T
  BY <1>1, <1>3 DEF LeftRun
<1>5. ASSUME NEW m \in T
      PROVE  m + 1 \in T
  <2> SUFFICES ASSUME m + 1 <= N
               PROVE  f[m + 1] = h[m + 1]
    OBVIOUS
  <2>1. m + 1 \in 1..N /\ (m + 1) - 1 = m /\ m <= N /\ m \in 0..N
    OBVIOUS
  <2>2. PICK s : s = f[m] /\ s = h[m]
    BY <2>1
  <2>3. PICK t \in ValidTx : t = q[m + 1]
    BY <1>2, <2>1
  <2>4. f[m + 1] = ReplayTx(s, t)
    BY <1>2, <1>3, <2>1, <2>2, <2>3 DEF LeftRun, Do
  <2>5. h[m + 1] = Booked(s, t)
    BY <1>1, <1>2, <2>1, <2>2, <2>3 DEF Leading
  <2>6. ReplayTx(s, t) = Booked(s, t)
    <3>1. Action[t].type \in ActionType
      BY TxIs
    <3> QED BY <3>1 DEF ReplayTx, ActionApply, Booked, ContentApply, ReportApply, ActionType
  <2> QED BY <2>4, <2>5, <2>6
<1>6. T = Nat
  <2> HIDE DEF T
  <2>1. T \in SUBSET Nat
    BY DEF T
  <2> QED BY <1>4, <1>5, <2>1, InductionOnSet
<1>7. f[N] = h[N]
  <2>1. N \in T
    BY <1>6
  <2> QED BY <2>1
<1> QED BY <1>1, <1>2, <1>3, <1>7

-----------------------------------------------------------------------------
(* Transactions are undone and put back *)

\* When the transactions that led from a to here are undone, a is back.
LEMMA UndoneIsBack ==
  ASSUME NEW w, NEW a, NEW q, NEW b, NEW free, Reaches(a, q, b, free), Keeps(w, b),
         NEW v, v = FoldRight(Undo, q, w)
  PROVE  Keeps(v, a) /\ v.pool = w.pool
<1>1. PICK h : Leading(h, q, free) /\ h[0] = a /\ h[Len(q)] = b
  BY DEF Reaches
<1>2. PICK N \in Nat : N = Len(q) /\ q \in Seq(ValidTx)
  BY DEF Reaches
<1>3. PICK f : RightRun(f, "undo", <<>>, w, q) /\ FoldRight(Undo, q, w) = f[0]
  BY <1>2, Undoing
<1> DEFINE Is(x, n) == Keeps(x, h[n]) /\ x.pool = w.pool
           T == {m \in Nat : m <= N => Is(f[N - m], N - m)}
<1>4. 0 \in T
  <2>1. f[N] = w /\ h[N] = b /\ N - 0 = N
    BY <1>1, <1>2, <1>3 DEF RightRun
  <2> QED BY <2>1
<1>5. ASSUME NEW m \in T
      PROVE  m + 1 \in T
  <2> SUFFICES ASSUME m + 1 <= N
               PROVE  Is(f[N - (m + 1)], N - (m + 1))
    OBVIOUS
  <2>1. PICK n \in 1..N : n = N - m /\ n - 1 = N - (m + 1)
    <3>1. m \in Nat
      OBVIOUS
    <3> QED BY <3>1
  <2>2. PICK x : x = f[n] /\ Is(x, n)
    <3>1. m <= N
      OBVIOUS
    <3> QED BY <2>1, <3>1
  <2>3. PICK t \in ValidTx : t = q[n]
    BY <1>2
  <2>4. PICK s : s = h[n - 1] /\ Book(s, free) /\ Allowed(s, t, free) /\ h[n] = Booked(s, t)
    <3>1. n - 1 \in 0..N
      OBVIOUS
    <3> QED BY <1>1, <1>2, <2>3, <3>1 DEF Leading
  <2>5. Keeps(x, Booked(s, t)) /\ x.pool = w.pool
    BY <2>2, <2>4
  <2>6. PICK y : y = ActionRevert(x, t)
    OBVIOUS
  <2>7. Keeps(y, s) /\ y.pool = x.pool
    BY <2>4, <2>5, <2>6, RevertKeeps
  <2>8. f[n - 1] = y
    <3>1. f[n - 1] = Undo(t, x)
      BY <1>2, <1>3, <2>2, <2>3 DEF RightRun, Do
    <3>2. x.ok
      BY <2>5 DEF Keeps
    <3> QED BY <2>6, <3>1, <3>2 DEF Undo
  <2> QED BY <2>1, <2>4, <2>5, <2>7, <2>8
<1>6. T = Nat
  <2> HIDE DEF T
  <2>1. T \in SUBSET Nat
    BY DEF T
  <2> QED BY <1>4, <1>5, <2>1, InductionOnSet
<1>7. Is(f[0], 0)
  <2>1. N \in T /\ N - N = 0
    BY <1>6
  <2> QED BY <2>1
<1> QED BY <1>1, <1>3, <1>7

\* Stores that have failed, or whose pool leads from the book a to the one they keep.
Pooled(w, a, free) ==
  \/ Failed(w)
  \/ \E b : Reaches(a, w.pool, b, free) /\ Keeps(w, b)

LEMMA PutBackStays ==
  ASSUME NEW w, NEW a, NEW free, Pooled(w, a, free), free = Free, NEW t \in ValidTx, NEW fresh
  PROVE  /\ Pooled(PutBack(w, t, fresh), a, free)
         /\ PutBack(w, t, fresh).ok => w.ok
<1>1. PICK v : v = PutBack(w, t, fresh)
  OBVIOUS
<1>2. CASE Failed(w)
  <2>1. v = w
    BY <1>1, <1>2 DEF PutBack, Failed
  <2> QED BY <1>1, <2>1
<1>3. CASE \E b : Reaches(a, w.pool, b, free) /\ Keeps(w, b)
  <2>1. PICK b : Reaches(a, w.pool, b, free) /\ Keeps(w, b)
    BY <1>3
  <2>2. DOMAIN w = StoreFields /\ w.ok
    BY <2>1 DEF Keeps
  <2>3. CASE Throws(w, t)
    <3>1. v = [w EXCEPT !.ok = FALSE]
      BY <1>1, <2>2, <2>3 DEF PutBack
    <3>2. Failed(v)
      BY <2>2, <3>1 DEF Failed, StoreFields
    <3> QED BY <1>1, <2>2, <3>2 DEF Pooled
  <2>4. CASE ~ Throws(w, t) /\ CanApply(w, t, "pool", fresh)
    <3>1. PICK x, c : x = ActionApply(w, t, "pool") /\ c = Booked(b, t)
      OBVIOUS
    <3>2. Allowed(b, t, free)
      BY <2>1, <2>4, MayApply
    <3>3. Book(b, free)
      BY <2>1, ReachedIsBook
    <3>4. Keeps(x, c) /\ x.pool = w.pool
      BY <2>1, <3>1, <3>3, ApplyKeeps
    <3>5. v = [x EXCEPT !.pool = Append(@, t)]
      BY <1>1, <2>2, <2>4, <3>1 DEF PutBack
    <3>6. v.pool = Append(w.pool, t) /\ Keeps(v, c)
      BY <3>4, <3>5 DEF Keeps, StoreFields
    <3>7. Reaches(a, Append(w.pool, t), c, free)
      BY <2>1, <3>1, <3>2, ReachesNext
    <3> QED BY <1>1, <2>2, <3>6, <3>7 DEF Pooled
  <2>5. CASE ~ Throws(w, t) /\ ~ CanApply(w, t, "pool", fresh)
    <3>1. v = w
      BY <1>1, <2>2, <2>5 DEF PutBack
    <3> QED BY <1>1, <3>1
  <2> QED BY <2>3, <2>4, <2>5
<1> QED BY <1>2, <1>3 DEF Pooled

LEMMA PutAllBackStays ==
  ASSUME NEW w, NEW a, NEW free, Pooled(w, a, free), free = Free,
         NEW q \in Seq(ValidTx), NEW taken, NEW fresh,
         NEW v, v = PutAllBack(w, q, taken, fresh)
  PROVE  Pooled(v, a, free) /\ (v.ok => w.ok)
<1>1. PICK N \in Nat : N = Len(q) /\ \A n \in 1..N : q[n] \in ValidTx
  OBVIOUS
<1>2. PICK f : /\ LeftRun(f, "return", <<taken, fresh>>, w, q)
               /\ PutAllBack(w, q, taken, fresh) = f[Len(q)]
  BY Returning
<1> DEFINE T == {m \in Nat : m <= N => Pooled(f[m], a, free) /\ (f[m].ok => w.ok)}
<1>3. 0 \in T
  BY <1>2 DEF LeftRun
<1>4. ASSUME NEW m \in T
      PROVE  m + 1 \in T
  <2> SUFFICES ASSUME m + 1 <= N
               PROVE  Pooled(f[m + 1], a, free) /\ (f[m + 1].ok => w.ok)
    OBVIOUS
  <2>1. m + 1 \in 1..N /\ (m + 1) - 1 = m /\ m <= N
    OBVIOUS
  <2>2. PICK x : x = f[m] /\ Pooled(x, a, free) /\ (x.ok => w.ok)
    BY <2>1
  <2>3. PICK t \in ValidTx : t = q[m + 1]
    BY <1>1, <2>1
  <2>4. f[m + 1] = IF t \in taken THEN x ELSE PutBack(x, t, fresh)
    BY <1>1, <1>2, <2>1, <2>2, <2>3 DEF LeftRun, Do
  <2>5. Pooled(PutBack(x, t, fresh), a, free) /\ (PutBack(x, t, fresh).ok => x.ok)
    BY <2>2, PutBackStays
  <2> QED BY <2>2, <2>4, <2>5
<1>5. T = Nat
  <2> HIDE DEF T
  <2>1. T \in SUBSET Nat
    BY DEF T
  <2> QED BY <1>3, <1>4, <2>1, InductionOnSet
<1>6. N \in T
  BY <1>5
<1> QED BY <1>1, <1>2, <1>6


-----------------------------------------------------------------------------
(* The transactions of a block are tried *)

\* What was tried from the book a, with the transactions that were applied.
Tried(r, a, pool, free) ==
  /\ DOMAIN r = {"w", "txs", "failed"} /\ r.w.pool = pool /\ r.failed \in SUBSET ValidTx
  /\ \/ Failed(r.w)
     \/ \E b : Reaches(a, r.txs, b, free) /\ Keeps(r.w, b)

LEMMA TryLeads ==
  ASSUME NEW r, NEW a, NEW pool, NEW free, Tried(r, a, pool, free), free = Free,
         NEW t \in ValidTx
  PROVE  LET v == TryTransaction(r, t)
         IN  /\ Tried(v, a, pool, free)
             /\ v.w.ok => r.w.ok
             /\ v.failed = {} /\ v.w.ok => r.failed = {} /\ v.txs = Append(r.txs, t)
<1>1. PICK v : v = TryTransaction(r, t)
  OBVIOUS
<1>2. CASE Failed(r.w)
  <2>1. v = r /\ ~ r.w.ok
    BY <1>1, <1>2 DEF TryTransaction, Failed
  <2> QED BY <1>1, <2>1
<1>3. CASE \E b : Reaches(a, r.txs, b, free) /\ Keeps(r.w, b)
  <2>1. PICK b, w : w = r.w /\ Reaches(a, r.txs, b, free) /\ Keeps(w, b)
    BY <1>3
  <2>2. DOMAIN w = StoreFields /\ w.ok
    BY <2>1 DEF Keeps
  <2>3. CASE Throws(w, t)
    <3>1. PICK x : x = [w EXCEPT !.ok = FALSE]
      OBVIOUS
    <3>2. v = [r EXCEPT !.w = x]
      BY <1>1, <2>1, <2>2, <2>3, <3>1 DEF TryTransaction
    <3>3. Failed(x) /\ ~ x.ok /\ x.pool = pool
      BY <2>1, <2>2, <3>1 DEF Tried, Failed, StoreFields
    <3>4. DOMAIN v = DOMAIN r /\ v.w = x /\ v.failed = r.failed
      BY <3>2 DEF Tried
    <3> QED BY <1>1, <3>3, <3>4 DEF Tried
  <2>4. CASE ~ Throws(w, t) /\ CanApply(w, t, "chain", <<>>)
    <3>1. PICK x, c : x = ActionApply(w, t, "chain") /\ c = Booked(b, t)
      OBVIOUS
    <3>2. Allowed(b, t, free)
      BY <2>1, <2>4, MayApply
    <3>3. Book(b, free)
      BY <2>1, ReachedIsBook
    <3>4. Keeps(x, c) /\ x.pool = w.pool
      BY <2>1, <3>1, <3>3, ApplyKeeps
    <3>5. v = [r EXCEPT !.w = x, !.txs = Append(@, t)]
      BY <1>1, <2>1, <2>2, <2>4, <3>1 DEF TryTransaction
    <3>6. DOMAIN v = DOMAIN r /\ v.w = x /\ v.failed = r.failed /\ v.txs = Append(r.txs, t)
      BY <3>5 DEF Tried
    <3>7. Reaches(a, Append(r.txs, t), c, free)
      BY <2>1, <3>1, <3>2, ReachesNext
    <3>8. Reaches(a, v.txs, c, free) /\ Keeps(v.w, c) /\ v.w.pool = pool
      BY <2>1, <3>4, <3>6, <3>7 DEF Tried
    <3> QED BY <1>1, <2>1, <2>2, <3>6, <3>8 DEF Tried
  <2>5. CASE ~ Throws(w, t) /\ ~ CanApply(w, t, "chain", <<>>)
    <3>1. v = [r EXCEPT !.failed = @ \union {t}]
      BY <1>1, <2>1, <2>2, <2>5 DEF TryTransaction
    <3>2. DOMAIN v = DOMAIN r /\ v.w = r.w /\ v.txs = r.txs /\ v.failed = r.failed \union {t}
      BY <3>1 DEF Tried
    <3>3. v.failed # {} /\ v.failed \in SUBSET ValidTx
      BY <3>2 DEF Tried
    <3> QED BY <1>1, <1>3, <3>2, <3>3 DEF Tried
  <2> QED BY <2>3, <2>4, <2>5
<1> QED BY <1>2, <1>3 DEF Tried

\* The transactions that apply lead to the book after them; they are all when none
\* has failed.
LEMMA TryAllLeads ==
  ASSUME NEW w, NEW a, NEW free, Keeps(w, a), Book(a, free), free = Free,
         NEW q \in Seq(ValidTx), NEW r, r = TryAll(w, q)
  PROVE  /\ Tried(r, a, w.pool, free)
         /\ r.failed = {} /\ r.w.ok => r.txs = q
<1>1. PICK N \in Nat : N = Len(q) /\ \A n \in 1..N : q[n] \in ValidTx
  OBVIOUS
<1>2. PICK base : base = [w |-> w, txs |-> <<>>, failed |-> {}]
  OBVIOUS
<1>3. PICK f : LeftRun(f, "try", <<>>, base, q) /\ FoldLeft(TryTransaction, base, q) = f[Len(q)]
  BY Trying
<1> DEFINE Is(x, m) == /\ Tried(x, a, w.pool, free)
                       /\ x.failed = {} /\ x.w.ok => x.txs = SubSeq(q, 1, m)
           T == {m \in Nat : m <= N => Is(f[m], m)}
<1>4. 0 \in T
  <2>1. DOMAIN base = {"w", "txs", "failed"} /\ base.w = w /\ base.txs = <<>> /\ base.failed = {}
    BY <1>2
  <2>2. Tried(base, a, w.pool, free)
    BY <2>1, ReachesNothing DEF Tried
  <2>3. SubSeq(q, 1, 0) = <<>>
    OBVIOUS
  <2>4. f[0] = base
    BY <1>3 DEF LeftRun
  <2> QED BY <2>1, <2>2, <2>3, <2>4
<1>5. ASSUME NEW m \in T
      PROVE  m + 1 \in T
  <2> SUFFICES ASSUME m + 1 <= N
               PROVE  Is(f[m + 1], m + 1)
    OBVIOUS
  <2>1. m + 1 \in 1..N /\ (m + 1) - 1 = m /\ m <= N
    OBVIOUS
  <2>2. PICK u : u = f[m] /\ Is(u, m)
    BY <2>1
  <2>3. PICK t \in ValidTx : t = q[m + 1]
    BY <1>1, <2>1
  <2>4. PICK v : v = TryTransaction(u, t)
    OBVIOUS
  <2>5. f[m + 1] = v
    BY <1>1, <1>3, <2>1, <2>2, <2>3, <2>4 DEF LeftRun, Do
  <2>6. /\ Tried(v, a, w.pool, free)
        /\ v.w.ok => u.w.ok
        /\ v.failed = {} /\ v.w.ok => u.failed = {} /\ v.txs = Append(u.txs, t)
    BY <2>2, <2>4, TryLeads
  <2>7. Append(SubSeq(q, 1, m), t) = SubSeq(q, 1, m + 1)
    BY <1>1, <2>1, <2>3
  <2> QED BY <2>2, <2>5, <2>6, <2>7
<1>6. T = Nat
  <2> HIDE DEF T
  <2>1. T \in SUBSET Nat
    BY DEF T
  <2> QED BY <1>4, <1>5, <2>1, InductionOnSet
<1>7. Is(f[N], N) /\ SubSeq(q, 1, N) = q
  <2>1. N \in T
    BY <1>6
  <2> QED BY <1>1, <2>1
<1> QED BY <1>1, <1>2, <1>3, <1>7 DEF TryAll

LEMMA TryAllNext ==
  ASSUME NEW w, NEW A, NEW q \in Seq(A), NEW t \in A
  PROVE  TryAll(w, Append(q, t)) = TryTransaction(TryAll(w, q), t)
<1>1. PICK p \in Seq(A) : /\ p = Append(q, t) /\ Len(p) = Len(q) + 1 /\ p[Len(q) + 1] = t
                          /\ \A n \in 1..Len(q) : p[n] = q[n]
  <2>1. PICK p \in Seq(A) : p = Append(q, t)
    <3>1. Append(q, t) \in Seq(A)
      OBVIOUS
    <3> QED BY <3>1
  <2>2. Len(p) = Len(q) + 1 /\ p[Len(q) + 1] = t /\ \A n \in 1..Len(q) : p[n] = q[n]
    BY <2>1
  <2> QED BY <2>1, <2>2
<1>2. PICK base : base = [w |-> w, txs |-> <<>>, failed |-> {}]
  OBVIOUS
<1>3. PICK f : LeftRun(f, "try", <<>>, base, q) /\ FoldLeft(TryTransaction, base, q) = f[Len(q)]
  BY Trying
<1>4. PICK g : LeftRun(g, "try", <<>>, base, p) /\ FoldLeft(TryTransaction, base, p) = g[Len(p)]
  BY Trying
<1>5. PICK N \in Nat : N = Len(q)
  OBVIOUS
<1> DEFINE T == {m \in Nat : m <= N => f[m] = g[m]}
<1>6. 0 \in T
  BY <1>3, <1>4 DEF LeftRun
<1>7. ASSUME NEW m \in T
      PROVE  m + 1 \in T
  <2> SUFFICES ASSUME m + 1 <= N
               PROVE  f[m + 1] = g[m + 1]
    OBVIOUS
  <2>1. m + 1 \in 1..N /\ m + 1 \in 1..(N + 1) /\ (m + 1) - 1 = m /\ m <= N
    OBVIOUS
  <2>2. f[m] = g[m]
    BY <2>1
  <2> QED BY <1>1, <1>3, <1>4, <1>5, <2>1, <2>2 DEF LeftRun
<1>8. T = Nat
  <2> HIDE DEF T
  <2>1. T \in SUBSET Nat
    BY DEF T
  <2> QED BY <1>6, <1>7, <2>1, InductionOnSet
<1>9. f[N] = g[N]
  <2>1. N \in T
    BY <1>8
  <2> QED BY <2>1
<1>10. g[N + 1] = TryTransaction(g[N], t)
  <2>1. N + 1 \in 1..(N + 1) /\ (N + 1) - 1 = N
    OBVIOUS
  <2> QED BY <1>1, <1>4, <1>5, <2>1 DEF LeftRun, Do
<1> QED BY <1>1, <1>2, <1>3, <1>4, <1>5, <1>9, <1>10 DEF TryAll

Again(w, v) ==
  v.w.ok => TryAll(w, v.txs) = [w |-> v.w, txs |-> v.txs, failed |-> {}]

\* What was applied applies again: all of it, and to the same end.
LEMMA TriedAgain ==
  ASSUME NEW w, NEW a, NEW free, Keeps(w, a), Book(a, free), free = Free,
         NEW q \in Seq(ValidTx), NEW r, r = TryAll(w, q)
  PROVE  Again(w, r)
<1>1. PICK N \in Nat : N = Len(q) /\ \A n \in 1..N : q[n] \in ValidTx
  OBVIOUS
<1>2. PICK base : base = [w |-> w, txs |-> <<>>, failed |-> {}]
  OBVIOUS
<1>3. PICK f : LeftRun(f, "try", <<>>, base, q) /\ FoldLeft(TryTransaction, base, q) = f[Len(q)]
  BY Trying
<1> DEFINE Is(x) == /\ Tried(x, a, w.pool, free) /\ x.txs \in Seq(ValidTx)
                    /\ Again(w, x)
           T == {m \in Nat : m <= N => Is(f[m])}
<1>4. 0 \in T
  <2>1. DOMAIN base = {"w", "txs", "failed"} /\ base.w = w /\ base.txs = <<>> /\ base.failed = {}
    BY <1>2
  <2>2. TryAll(w, <<>>) = base
    <3>1. PICK e \in Seq(ValidTx) : e = <<>> /\ Len(e) = 0
      <4>1. <<>> \in Seq(ValidTx) /\ Len(<<>>) = 0
        OBVIOUS
      <4> QED BY <4>1
    <3>2. PICK g : LeftRun(g, "try", <<>>, base, e) /\ FoldLeft(TryTransaction, base, e) = g[Len(e)]
      BY Trying
    <3> QED BY <1>2, <3>1, <3>2 DEF LeftRun, TryAll
  <2>3. f[0] = base
    BY <1>3 DEF LeftRun
  <2>4. base.txs \in Seq(ValidTx)
    <3>1. <<>> \in Seq(ValidTx)
      OBVIOUS
    <3> QED BY <2>1, <3>1
  <2>5. Again(w, base)
    BY <1>2, <2>1, <2>2 DEF Again
  <2>6. Tried(base, a, w.pool, free)
    BY <2>1, ReachesNothing DEF Tried
  <2> QED BY <2>3, <2>4, <2>5, <2>6
<1>5. ASSUME NEW m \in T
      PROVE  m + 1 \in T
  <2> SUFFICES ASSUME m + 1 <= N
               PROVE  Is(f[m + 1])
    OBVIOUS
  <2>1. m + 1 \in 1..N /\ (m + 1) - 1 = m /\ m <= N
    OBVIOUS
  <2>2. PICK u : u = f[m] /\ Is(u)
    BY <2>1
  <2>3. PICK t \in ValidTx : t = q[m + 1]
    BY <1>1, <2>1
  <2>4. PICK v : v = TryTransaction(u, t)
    OBVIOUS
  <2>5. f[m + 1] = v
    BY <1>1, <1>3, <2>1, <2>2, <2>3, <2>4 DEF LeftRun, Do
  <2>10. Tried(v, a, w.pool, free) /\ DOMAIN u = {"w", "txs", "failed"} /\ DOMAIN u.w = StoreFields
    <3>1. DOMAIN u.w = StoreFields
      BY <2>2 DEF Tried, Failed, Keeps
    <3>2. Tried(v, a, w.pool, free)
      BY <2>2, <2>4, TryLeads
    <3> QED BY <2>2, <3>1, <3>2 DEF Tried
  <2>6. CASE ~ u.w.ok
    <3>1. v = u
      BY <2>4, <2>6 DEF TryTransaction
    <3> QED BY <2>2, <2>5, <2>10, <3>1
  <2>7. CASE u.w.ok /\ Throws(u.w, t)
    <3>1. PICK x : x = [u.w EXCEPT !.ok = FALSE]
      OBVIOUS
    <3>2. v = [u EXCEPT !.w = x]
      BY <2>4, <2>7, <3>1 DEF TryTransaction
    <3>3. v.w = x /\ v.txs = u.txs
      BY <2>10, <3>2
    <3>4. ~ x.ok
      BY <2>10, <3>1 DEF StoreFields
    <3> QED BY <2>2, <2>5, <2>10, <3>3, <3>4 DEF Again
  <2>8. CASE u.w.ok /\ ~ Throws(u.w, t) /\ CanApply(u.w, t, "chain", <<>>)
    <3>1. PICK x, y, z : x = u.w /\ y = u.txs /\ z = ActionApply(x, t, "chain")
      OBVIOUS
    <3>2. v = [u EXCEPT !.w = z, !.txs = Append(@, t)]
      BY <2>4, <2>8, <3>1 DEF TryTransaction
    <3>3. v.w = z /\ v.txs = Append(y, t) /\ y \in Seq(ValidTx)
      BY <2>2, <2>10, <3>1, <3>2
    <3>10. PICK s : s = [w |-> x, txs |-> y, failed |-> {}]
      OBVIOUS
    <3>4. TryAll(w, y) = s
      BY <2>2, <2>8, <3>1, <3>10 DEF Again
    <3>11. PICK p \in Seq(ValidTx) : p = y
      BY <2>2, <3>1
    <3>5. TryAll(w, Append(y, t)) = TryTransaction(s, t)
      <4>1. TryAll(w, Append(p, t)) = TryTransaction(TryAll(w, p), t)
        BY TryAllNext, Zenon
      <4> QED BY <3>4, <3>11, <4>1
    <3>6. DOMAIN s = {"w", "txs", "failed"} /\ s.w = x /\ s.txs = y /\ s.failed = {}
      BY <3>10
    <3>7. TryTransaction(s, t) = [s EXCEPT !.w = z, !.txs = Append(@, t)]
      BY <2>8, <3>1, <3>6 DEF TryTransaction
    <3>8. [s EXCEPT !.w = z, !.txs = Append(@, t)] = [w |-> z, txs |-> Append(y, t), failed |-> {}]
      <4>1. PICK k : k = Append(y, t) /\ k = Append(s.txs, t)
        BY <3>6
      <4>2. PICK o : o = [s EXCEPT !.w = z, !.txs = k]
        OBVIOUS
      <4>3. PICK e : e = [w |-> z, txs |-> k, failed |-> {}]
        OBVIOUS
      <4>4. PICK D : D = {"w", "txs", "failed"}
        OBVIOUS
      <4>5. o = [n \in D |-> o[n]] /\ e = [n \in D |-> e[n]]
        BY <3>6, <4>2, <4>3, <4>4
      <4>8. o.w = z /\ o.txs = k /\ o.failed = {}
        BY <3>6, <4>2
      <4>9. e.w = z /\ e.txs = k /\ e.failed = {}
        BY <4>3
      <4>6. \A n \in D : o[n] = e[n]
        BY <4>4, <4>8, <4>9
      <4>7. [n \in D |-> o[n]] = [n \in D |-> e[n]]
        BY <4>6
      <4> QED BY <4>1, <4>2, <4>3, <4>5, <4>7
    <3>9. Append(y, t) \in Seq(ValidTx)
      BY <3>3
    <3> QED BY <2>2, <2>5, <2>10, <3>3, <3>5, <3>7, <3>8, <3>9 DEF Again
  <2>9. CASE u.w.ok /\ ~ Throws(u.w, t) /\ ~ CanApply(u.w, t, "chain", <<>>)
    <3>1. v = [u EXCEPT !.failed = @ \union {t}]
      BY <2>4, <2>9 DEF TryTransaction
    <3>2. v.w = u.w /\ v.txs = u.txs
      BY <2>10, <3>1
    <3> QED BY <2>2, <2>5, <2>10, <3>2 DEF Again
  <2> QED BY <2>6, <2>7, <2>8, <2>9
<1>6. T = Nat
  <2> HIDE DEF T
  <2>1. T \in SUBSET Nat
    BY DEF T
  <2> QED BY <1>4, <1>5, <2>1, InductionOnSet
<1>7. Is(f[N])
  <2>1. N \in T
    BY <1>6
  <2> QED BY <2>1
<1> QED BY <1>1, <1>2, <1>3, <1>7 DEF TryAll

-----------------------------------------------------------------------------
(* Blocks *)

Paying(w, rewards, sign, n) == [Pay(w, rewards, sign) EXCEPT !.length = n]

LEMMA PayingIs ==
  ASSUME NEW w, DOMAIN w = StoreFields, NEW rewards, NEW sign, NEW n,
         NEW v, v = Paying(w, rewards, sign, n)
  PROVE  /\ v = [x \in StoreFields |-> v[x]]
         /\ v.auth = w.auth /\ v.roles = w.roles /\ v.files = w.files
         /\ v.units = w.units /\ v.holders = w.holders /\ v.requests = w.requests
         /\ v.pool = w.pool /\ v.length = n /\ v.ok = w.ok
         /\ v.balance = [a \in Address |-> w.balance[a] + sign * Paid(rewards, a)]
<1>1. PICK d : d = [a \in Address |-> w.balance[a] + sign * Paid(rewards, a)]
  OBVIOUS
<1>2. Pay(w, rewards, sign) = [w EXCEPT !.balance = d]
  BY <1>1 DEF Pay
<1>3. v = [[w EXCEPT !.balance = d] EXCEPT !.length = n]
  BY <1>2 DEF Paying
<1> QED BY <1>1, <1>3 DEF StoreFields

\* A block leads from the book a to b: by its transactions, and by the rewards it holds.
BlockLeads(a, block, b, free) ==
  /\ block.miner \in Address
  /\ \E v : /\ Reaches(a, block.txs, v, free)
            /\ block.rewards = Rewards(v, block.txs, block.miner)
            /\ b = Paying(v, block.rewards, 1, v.length + 1)

\* What is paid for a block that leads to a book.
RewardsOf(v, txs, r) ==
  /\ \A a \in Address : Paid(r, a) \in Nat
  /\ SumFunction([a \in Address |-> Paid(r, a)]) = Emission

LEMMA RewardsAre ==
  ASSUME NEW a, NEW txs, NEW v, NEW free, Reaches(a, txs, v, free), NEW miner \in Address,
         NEW r, r = Rewards(v, txs, miner)
  PROVE  RewardsOf(v, txs, r)
<1>1. Documented(v)
  BY ReachedIsBook DEF Book
<1>2. txs \in Seq(ValidTx) /\ \A n \in DOMAIN txs : ReportStands(v, txs[n])
  <2>1. txs \in Seq(ValidTx) /\ \A n \in 1..Len(txs) : ReportStands(v, txs[n])
    BY DEF Reaches
  <2> QED BY <2>1
<1>3. /\ \A x \in Address : Paid(r, x) \in Nat
      /\ SumFunction([x \in Address |-> Paid(r, x)]) = Emission
  BY <1>1, <1>2, RewardsPay
<1> QED BY <1>3 DEF RewardsOf

\* A block leaves a book, one block longer, and pays its emission.
LEMMA BlockIsPaid ==
  ASSUME NEW a, NEW block, NEW b, NEW free, BlockLeads(a, block, b, free)
  PROVE  /\ Book(b, free) /\ b.length = a.length + 1
         /\ SumFunction([x \in Address |-> Paid(block.rewards, x)]) = Emission
         /\ ReplayBlock(a, block) = b
<1>1. PICK v : /\ Reaches(a, block.txs, v, free)
               /\ block.rewards = Rewards(v, block.txs, block.miner)
               /\ b = Paying(v, block.rewards, 1, v.length + 1)
  BY DEF BlockLeads
<1>2. PICK r, txs, miner : r = block.rewards /\ txs = block.txs /\ miner = block.miner
  OBVIOUS
<1>3. RewardsOf(v, txs, r)
  <2>1. miner \in Address /\ Reaches(a, txs, v, free) /\ r = Rewards(v, txs, miner)
    BY <1>1, <1>2 DEF BlockLeads
  <2> QED BY <2>1, RewardsAre
<1>4. Book(v, free) /\ Book(a, free) /\ v.length = a.length
  <2>1. v.length = a.length
    BY <1>1 DEF Reaches
  <2> QED BY <1>1, <2>1, ReachedIsBook
<1>5. DOMAIN v = StoreFields
  BY <1>4 DEF Book
<1>6. PICK n : n = v.length + 1 /\ b = Paying(v, r, 1, n)
  BY <1>1, <1>2
<1>7. /\ b = [x \in StoreFields |-> b[x]]
      /\ b.auth = v.auth /\ b.roles = v.roles /\ b.files = v.files
      /\ b.units = v.units /\ b.holders = v.holders /\ b.requests = v.requests
      /\ b.pool = v.pool /\ b.length = n /\ b.ok = v.ok
      /\ b.balance = [x \in Address |-> v.balance[x] + 1 * Paid(r, x)]
  BY <1>5, <1>6, PayingIs
<1>8. b.balance \in [Address -> Nat]
  <2>1. \A x \in Address : v.balance[x] + 1 * Paid(r, x) \in Nat
    <3>1. v.balance \in [Address -> Nat]
      BY <1>4 DEF Book
    <3> QED BY <1>3, <3>1 DEF RewardsOf
  <2> QED BY <1>7, <2>1
<1>9. Book(b, free) /\ b.length = a.length + 1
  <2>1. Documented(b) /\ HoldersStand(b) /\ b.length \in Nat /\ b.length = a.length + 1
    <3>1. Documented(v) /\ HoldersStand(v) /\ v.length \in Nat
      BY <1>4 DEF Book
    <3>2. Documented(b)
      BY <1>7, <3>1 DEF Documented
    <3>3. HoldersStand(b)
      BY <1>7, <3>1 DEF HoldersStand, RoleOf
    <3>4. b.length = v.length + 1
      BY <1>6, <1>7
    <3> QED BY <1>4, <3>1, <3>2, <3>3, <3>4
  <2> QED BY <1>4, <1>7, <1>8, <2>1 DEF Book
<1>10. ReplayBlock(a, block) = b
  <2>1. FoldLeft(ReplayTx, a, txs) = v
    BY <1>1, <1>2, ReplayedIs
  <2>2. ReplayBlock(a, block) = Pay([v EXCEPT !.length = @ + 1], r, 1)
    BY <1>2, <2>1 DEF ReplayBlock
  <2>3. PICK d : d = [x \in Address |-> v.balance[x] + 1 * Paid(r, x)]
    OBVIOUS
  <2>9. PICK u : u = [v EXCEPT !.length = n]
    OBVIOUS
  <2>4. u = [v EXCEPT !.length = n] /\ u.balance = v.balance
    BY <1>5, <2>9 DEF StoreFields
  <2>5. Pay(u, r, 1) = [u EXCEPT !.balance = d]
    BY <2>3, <2>4 DEF Pay
  <2>6. Pay(v, r, 1) = [v EXCEPT !.balance = d]
    BY <2>3 DEF Pay
  <2>7. b = [[v EXCEPT !.balance = d] EXCEPT !.length = n]
    BY <1>6, <2>6 DEF Paying
  <2>8. [[v EXCEPT !.length = n] EXCEPT !.balance = d] = [[v EXCEPT !.balance = d] EXCEPT !.length = n]
    BY <1>5 DEF StoreFields
  <2> QED BY <1>6, <2>2, <2>4, <2>5, <2>7, <2>8
<1> QED BY <1>2, <1>3, <1>9, <1>10 DEF RewardsOf

\* Stores that keep what the transactions led to are closed with a block that leads
\* to what they keep then.
LEMMA ClosedLeads ==
  ASSUME NEW a, NEW txs, NEW v, NEW free, Reaches(a, txs, v, free), NEW miner \in Address,
         NEW w, Keeps(w, v), NEW c, c = CloseBlock(w, miner, txs)
  PROVE  /\ \E b : BlockLeads(a, c.block, b, free) /\ Keeps(c.w, b)
         /\ c.w.pool = w.pool /\ c.block.miner = miner /\ c.block.txs = txs
<1>1. PICK r : r = Rewards(w, txs, miner) /\ r = Rewards(v, txs, miner)
  <2>1. w.roles = v.roles /\ w.files = v.files /\ w.units = v.units
    BY DEF Keeps
  <2>2. Rewards(w, txs, miner) = Rewards(v, txs, miner)
    BY <2>1, SameRewards
  <2> QED BY <2>2
<1>2. PICK n : n = v.length + 1 /\ w.length = v.length
  BY DEF Keeps
<1>3. PICK x, b : x = Paying(w, r, 1, n) /\ b = Paying(v, r, 1, n)
  OBVIOUS
<1>4. DOMAIN w = StoreFields /\ DOMAIN v = StoreFields
  <2>1. Book(v, free)
    BY ReachedIsBook
  <2> QED BY <2>1 DEF Keeps, Book
<1>5. /\ DOMAIN x = StoreFields
      /\ x.auth = w.auth /\ x.roles = w.roles /\ x.files = w.files
      /\ x.units = w.units /\ x.holders = w.holders
      /\ x.pool = w.pool /\ x.length = n /\ x.ok = w.ok
      /\ x.balance = [y \in Address |-> w.balance[y] + 1 * Paid(r, y)]
  BY <1>3, <1>4, PayingIs
<1>6. /\ b.auth = v.auth /\ b.roles = v.roles /\ b.files = v.files
      /\ b.units = v.units /\ b.holders = v.holders /\ b.length = n
      /\ b.balance = [y \in Address |-> v.balance[y] + 1 * Paid(r, y)]
  BY <1>3, <1>4, PayingIs
<1>7. Keeps(x, b)
  <2>1. w.balance = v.balance
    BY DEF Keeps
  <2>2. x.balance = b.balance
    BY <1>5, <1>6, <2>1
  <2> QED BY <1>5, <1>6, <2>2 DEF Keeps
<1>8. PICK block : block = [miner |-> miner, txs |-> txs, rewards |-> r]
  OBVIOUS
<1>9. c = [w |-> x, block |-> block]
  <2>1. Pay(w, r, 1).length = w.length
    BY <1>4 DEF Pay, StoreFields
  <2>2. [Pay(w, r, 1) EXCEPT !.length = @ + 1] = x
    BY <1>2, <1>3, <2>1 DEF Paying
  <2> QED BY <1>1, <1>8, <2>2 DEF CloseBlock
<1>10. block.miner = miner /\ block.txs = txs /\ block.rewards = r
  BY <1>8
<1>11. BlockLeads(a, block, b, free)
  BY <1>1, <1>2, <1>3, <1>10 DEF BlockLeads
<1> QED BY <1>5, <1>7, <1>9, <1>10, <1>11

\* A block that led from a is taken off: its rewards are computed as they were, and a
\* is back.
LEMMA RevertBlockLeads ==
  ASSUME NEW a, NEW block, NEW b, NEW free, BlockLeads(a, block, b, free),
         NEW w, Keeps(w, b), NEW x, x = RevertBlock(w, block)
  PROVE  Keeps(x, a) /\ x.pool = w.pool
<1>1. PICK v : /\ Reaches(a, block.txs, v, free)
               /\ block.rewards = Rewards(v, block.txs, block.miner)
               /\ b = Paying(v, block.rewards, 1, v.length + 1)
  BY DEF BlockLeads
<1>2. PICK r, txs, miner : r = block.rewards /\ txs = block.txs /\ miner = block.miner
  OBVIOUS
<1>3. RewardsOf(v, txs, r)
  <2>1. miner \in Address /\ Reaches(a, txs, v, free) /\ r = Rewards(v, txs, miner)
    BY <1>1, <1>2 DEF BlockLeads
  <2> QED BY <2>1, RewardsAre
<1>4. Book(v, free)
  BY <1>1, ReachedIsBook
<1>5. DOMAIN w = StoreFields /\ DOMAIN v = StoreFields
  BY <1>4 DEF Keeps, Book
<1>6. PICK n : n = v.length + 1 /\ b = Paying(v, r, 1, n)
  BY <1>1, <1>2
<1>7. /\ b.auth = v.auth /\ b.roles = v.roles /\ b.files = v.files
      /\ b.units = v.units /\ b.holders = v.holders /\ b.length = n
      /\ b.balance = [y \in Address |-> v.balance[y] + 1 * Paid(r, y)]
  BY <1>5, <1>6, PayingIs
<1>8. Rewards(w, txs, miner) = r
  <2>1. w.roles = v.roles /\ w.files = v.files /\ w.units = v.units
    BY <1>7 DEF Keeps
  <2>2. Rewards(w, txs, miner) = Rewards(v, txs, miner)
    BY <2>1, SameRewards
  <2> QED BY <1>1, <1>2, <2>2
<1>9. PICK k, u : k = w.length - 1 /\ u = Paying(w, r, -1, k)
  OBVIOUS
<1>10. /\ DOMAIN u = StoreFields
       /\ u.auth = w.auth /\ u.roles = w.roles /\ u.files = w.files
       /\ u.units = w.units /\ u.holders = w.holders
       /\ u.pool = w.pool /\ u.length = k /\ u.ok = w.ok
       /\ u.balance = [y \in Address |-> w.balance[y] + (-1) * Paid(r, y)]
  BY <1>5, <1>9, PayingIs
<1>11. u.balance = v.balance
  <2>1. v.balance \in [Address -> Nat] /\ w.balance = b.balance
    BY <1>4 DEF Book, Keeps
  <2>2. \A y \in Address : w.balance[y] + (-1) * Paid(r, y) = v.balance[y]
    BY <1>3, <1>7, <2>1 DEF RewardsOf
  <2> QED BY <1>10, <2>1, <2>2
<1>12. Keeps(u, v)
  <2>1. u.length = v.length
    <3>1. v.length \in Nat
      BY <1>4 DEF Book
    <3>2. w.length = b.length
      BY DEF Keeps
    <3> QED BY <1>6, <1>7, <1>9, <1>10, <3>1, <3>2
  <2> QED BY <1>7, <1>10, <1>11, <2>1 DEF Keeps
<1>13. x = FoldRight(Undo, txs, u)
  <2>1. Pay(w, r, -1).length = w.length
    BY <1>5 DEF Pay, StoreFields
  <2>2. [Pay(w, r, -1) EXCEPT !.length = @ - 1] = u
    BY <1>9, <2>1 DEF Paying
  <2> QED BY <1>2, <1>8, <2>2 DEF RevertBlock
<1>14. Reaches(a, txs, v, free)
  BY <1>1, <1>2
<1> QED BY <1>10, <1>12, <1>13, <1>14, UndoneIsBack

-----------------------------------------------------------------------------
(* The chain *)

\* The blocks of c lead from the genesis block to further books; H holds the one after
\* each block.
BlocksLeading(H, c, free) ==
  /\ Len(c) >= 1 /\ H[1] = FirstStores
  /\ \A n \in 1..Len(c) : Book(H[n], free) /\ H[n].length = n
  /\ \A n \in 2..Len(c) : BlockLeads(H[n - 1], c[n], H[n], free)

ChainReaches(c, b, free) ==
  /\ \E A : c \in Seq(A)
  /\ \E H : BlocksLeading(H, c, free) /\ H[Len(c)] = b

LEMMA ChainReachedIsBook ==
  ASSUME NEW c, NEW b, NEW free, ChainReaches(c, b, free)
  PROVE  Book(b, free) /\ b.length = Len(c)
<1>1. PICK H : BlocksLeading(H, c, free) /\ H[Len(c)] = b
  BY DEF ChainReaches
<1>2. PICK A : c \in Seq(A)
  BY DEF ChainReaches
<1>3. Len(c) \in 1..Len(c)
  <2>1. Len(c) \in Nat /\ Len(c) >= 1
    BY <1>1, <1>2 DEF BlocksLeading
  <2> QED BY <2>1
<1> QED BY <1>1, <1>3 DEF BlocksLeading

LEMMA ChainReachesNext ==
  ASSUME NEW c, NEW b, NEW free, ChainReaches(c, b, free),
         NEW x, NEW d, BlockLeads(b, x, d, free)
  PROVE  ChainReaches(Append(c, x), d, free)
<1>1. PICK H : BlocksLeading(H, c, free) /\ H[Len(c)] = b
  BY DEF ChainReaches
<1>2. PICK A : c \in Seq(A)
  BY DEF ChainReaches
<1>3. PICK N \in Nat : N = Len(c) /\ N >= 1
  BY <1>1, <1>2 DEF BlocksLeading
<1>4. PICK p : p = Append(c, x)
  OBVIOUS
<1>5. /\ p \in Seq(A \union {x}) /\ Len(p) = N + 1 /\ p[N + 1] = x
      /\ \A n \in 1..N : p[n] = c[n]
  <2>1. c \in Seq(A \union {x})
    BY <1>2
  <2> QED BY <1>3, <1>4, <2>1
<1>6. PICK G : G = [n \in 1..(N + 1) |-> IF n = N + 1 THEN d ELSE H[n]]
  OBVIOUS
<1>7. G[N + 1] = d /\ \A n \in 1..N : G[n] = H[n] /\ Book(H[n], free) /\ H[n].length = n
  <2>1. G[N + 1] = d /\ \A n \in 1..N : G[n] = H[n]
    BY <1>3, <1>6
  <2> QED BY <1>1, <1>3, <2>1 DEF BlocksLeading
<1>8. ASSUME NEW n \in 1..(N + 1)
      PROVE  Book(G[n], free) /\ G[n].length = n
  <2>1. CASE n = N + 1
    <3>1. Book(d, free) /\ d.length = b.length + 1
      BY BlockIsPaid
    <3>2. b.length = N
      BY <1>1, <1>3 DEF BlocksLeading
    <3> QED BY <1>7, <2>1, <3>1, <3>2
  <2>2. CASE n # N + 1
    <3>1. n \in 1..N
      BY <2>2
    <3> QED BY <1>7, <3>1
  <2> QED BY <2>1, <2>2
<1>9. ASSUME NEW n \in 2..(N + 1)
      PROVE  BlockLeads(G[n - 1], p[n], G[n], free)
  <2>1. CASE n = N + 1
    <3>1. n - 1 = N /\ N \in 1..N
      BY <1>3, <2>1
    <3> QED BY <1>1, <1>3, <1>5, <1>7, <2>1, <3>1
  <2>2. CASE n # N + 1
    <3>1. n \in 2..N /\ n \in 1..N /\ n - 1 \in 1..N
      BY <2>2
    <3> QED BY <1>1, <1>3, <1>5, <1>7, <3>1 DEF BlocksLeading
  <2> QED BY <2>1, <2>2
<1>10. G[1] = FirstStores
  <2>1. 1 \in 1..N
    BY <1>3
  <2> QED BY <1>1, <1>7, <2>1 DEF BlocksLeading
<1>11. BlocksLeading(G, p, free)
  BY <1>3, <1>5, <1>8, <1>9, <1>10 DEF BlocksLeading
<1> QED BY <1>4, <1>5, <1>7, <1>11 DEF ChainReaches

\* The blocks up to the n-th one lead to the book after it.
LEMMA ChainReachesPart ==
  ASSUME NEW c, NEW H, NEW free, BlocksLeading(H, c, free), NEW A, c \in Seq(A),
         NEW n \in 1..Len(c)
  PROVE  ChainReaches(SubSeq(c, 1, n), H[n], free)
<1>1. PICK N \in Nat : N = Len(c) /\ n \in 1..N
  OBVIOUS
<1>2. PICK p : p = SubSeq(c, 1, n)
  OBVIOUS
<1>3. p \in Seq(A) /\ Len(p) = n /\ \A m \in 1..n : p[m] = c[m]
  BY <1>1, <1>2
<1>4. BlocksLeading(H, p, free)
  <2>1. \A m \in 1..n : m \in 1..N
    BY <1>1
  <2>2. \A m \in 2..n : m \in 2..N /\ m \in 1..n
    BY <1>1
  <2>3. n >= 1
    BY <1>1
  <2>4. \A m \in 2..n : BlockLeads(H[m - 1], p[m], H[m], free)
    BY <1>1, <1>3, <2>2 DEF BlocksLeading
  <2> QED BY <1>1, <1>3, <2>1, <2>3, <2>4 DEF BlocksLeading
<1> QED BY <1>2, <1>3, <1>4 DEF ChainReaches

\* Applied anew, the blocks lead to the same book.
LEMMA ChainReplayed ==
  ASSUME NEW c, NEW b, NEW free, ChainReaches(c, b, free)
  PROVE  FoldLeft(ReplayBlock, FirstStores, Tail(c)) = b
<1>1. PICK H : BlocksLeading(H, c, free) /\ H[Len(c)] = b
  BY DEF ChainReaches
<1>2. PICK A : c \in Seq(A)
  BY DEF ChainReaches
<1>3. PICK N \in Nat : N + 1 = Len(c)
  <2>1. Len(c) \in Nat /\ Len(c) >= 1
    BY <1>1, <1>2 DEF BlocksLeading
  <2>2. Len(c) - 1 \in Nat
    BY <2>1
  <2> QED BY <2>1, <2>2
<1>4. PICK q \in Seq(A) : q = Tail(c)
  <2>1. c # <<>>
    BY <1>2, <1>3
  <2>2. Tail(c) \in Seq(A)
    BY <1>2, <2>1
  <2> QED BY <2>2
<1>5. Len(q) = N /\ \A n \in 1..N : q[n] = c[n + 1]
  <2>1. c # <<>>
    BY <1>2, <1>3
  <2> QED BY <1>2, <1>3, <1>4, <2>1
<1>6. PICK f : /\ LeftRun(f, "replayblock", <<>>, FirstStores, q)
               /\ FoldLeft(ReplayBlock, FirstStores, q) = f[Len(q)]
  BY ReplayingBlocks
<1> DEFINE T == {m \in Nat : m <= N => f[m] = H[m + 1]}
<1>7. 0 \in T
  <2>1. f[0] = FirstStores /\ H[0 + 1] = FirstStores
    BY <1>1, <1>6 DEF LeftRun, BlocksLeading
  <2> QED BY <2>1
<1>8. ASSUME NEW m \in T
      PROVE  m + 1 \in T
  <2> SUFFICES ASSUME m + 1 <= N
               PROVE  f[m + 1] = H[(m + 1) + 1]
    OBVIOUS
  <2>1. /\ m + 1 \in 1..N /\ (m + 1) - 1 = m /\ m <= N
        /\ (m + 1) + 1 \in 2..(N + 1) /\ ((m + 1) + 1) - 1 = m + 1
    OBVIOUS
  <2>2. PICK a, block, d : a = H[m + 1] /\ block = c[(m + 1) + 1] /\ d = H[(m + 1) + 1]
    OBVIOUS
  <2>3. BlockLeads(a, block, d, free)
    BY <1>1, <1>3, <2>1, <2>2 DEF BlocksLeading
  <2>4. ReplayBlock(a, block) = d
    BY <2>3, BlockIsPaid
  <2>5. f[m] = a
    BY <2>1, <2>2
  <2>6. q[m + 1] = block
    BY <1>5, <2>1, <2>2
  <2>7. f[m + 1] = ReplayBlock(a, block)
    BY <1>5, <1>6, <2>1, <2>5, <2>6 DEF LeftRun, Do
  <2> QED BY <2>2, <2>4, <2>7
<1>9. T = Nat
  <2> HIDE DEF T
  <2>1. T \in SUBSET Nat
    BY DEF T
  <2> QED BY <1>7, <1>8, <2>1, InductionOnSet
<1>10. f[N] = H[N + 1]
  <2>1. N \in T
    BY <1>9
  <2> QED BY <2>1
<1> QED BY <1>1, <1>3, <1>4, <1>5, <1>6, <1>10

\* The blocks above the lcb-th one are taken off.
LEMMA RevertBlocksLeads ==
  ASSUME NEW H, NEW free, BlocksLeading(H, chain, free), NEW A, chain \in Seq(A),
         NEW lcb \in 0..(Len(chain) - 1),
         NEW w, Keeps(w, H[Len(chain)]), NEW x, x = RevertBlocks(w, lcb)
  PROVE  Keeps(x, H[lcb + 1]) /\ x.pool = w.pool
<1>1. PICK L \in Nat : L = Len(chain) /\ lcb \in 0..(L - 1)
  OBVIOUS
<1>2. PICK N \in Nat : N = L - (lcb + 1) /\ lcb + 1 + N = L
  <2>1. lcb \in Int
    BY <1>1
  <2>2. L - (lcb + 1) \in Nat /\ lcb + 1 + (L - (lcb + 1)) = L
    BY <1>1, <2>1
  <2> QED BY <2>2
<1>3. PICK q : q = SubSeq(chain, lcb + 2, L)
  OBVIOUS
<1>4. q \in Seq(A) /\ Len(q) = N /\ \A n \in 1..N : q[n] = chain[lcb + 1 + n]
  BY <1>1, <1>2, <1>3
<1>5. PICK f : RightRun(f, "unblock", <<>>, w, q) /\ FoldRight(Unblock, q, w) = f[0]
  BY <1>4, Unblocking
<1> DEFINE Is(v, n) == Keeps(v, H[lcb + 1 + n]) /\ v.pool = w.pool
           T == {m \in Nat : m <= N => Is(f[N - m], N - m)}
<1>6. 0 \in T
  <2>1. f[N] = w /\ N - 0 = N
    BY <1>4, <1>5 DEF RightRun
  <2> QED BY <1>1, <1>2, <2>1
<1>7. ASSUME NEW m \in T
      PROVE  m + 1 \in T
  <2> SUFFICES ASSUME m + 1 <= N
               PROVE  Is(f[N - (m + 1)], N - (m + 1))
    OBVIOUS
  <2>1. PICK n \in 1..N : n = N - m /\ n - 1 = N - (m + 1)
    <3>1. m \in Nat
      OBVIOUS
    <3> QED BY <3>1
  <2>2. PICK v : v = f[n] /\ Is(v, n)
    <3>1. m <= N
      OBVIOUS
    <3> QED BY <2>1, <3>1
  <2>3. PICK block : block = q[n]
    OBVIOUS
  <2>4. PICK d, e : d = H[lcb + 1 + (n - 1)] /\ e = H[lcb + 1 + n]
    OBVIOUS
  <2>5. BlockLeads(d, block, e, free)
    <3>1. lcb + 1 + n \in 2..L /\ (lcb + 1 + n) - 1 = lcb + 1 + (n - 1)
      BY <1>1, <1>2
    <3> QED BY <1>1, <1>4, <2>3, <2>4, <3>1 DEF BlocksLeading
  <2>6. PICK y : y = RevertBlock(v, block)
    OBVIOUS
  <2>7. Keeps(v, e)
    BY <2>2, <2>4
  <2>8. Keeps(y, d) /\ y.pool = v.pool
    BY <2>5, <2>6, <2>7, RevertBlockLeads
  <2>9. f[n - 1] = y
    <3>1. f[n - 1] = Unblock(block, v)
      BY <1>4, <1>5, <2>2, <2>3 DEF RightRun, Do
    <3>2. v.ok
      BY <2>7 DEF Keeps
    <3> QED BY <2>6, <3>1, <3>2 DEF Unblock
  <2>10. Is(y, n - 1)
    BY <2>2, <2>4, <2>8
  <2> QED BY <2>1, <2>9, <2>10
<1>8. T = Nat
  <2> HIDE DEF T
  <2>1. T \in SUBSET Nat
    BY DEF T
  <2> QED BY <1>6, <1>7, <2>1, InductionOnSet
<1>9. Is(f[0], 0)
  <2>1. N \in T
    <3> HIDE DEF T
    <3> QED BY <1>8
  <2>2. N - N = 0 /\ N <= N
    OBVIOUS
  <2> QED BY <2>1, <2>2
<1>10. lcb + 1 + 0 = lcb + 1
  BY <1>1
<1>11. x = f[0]
  BY <1>1, <1>3, <1>5 DEF RevertBlocks
<1> QED BY <1>9, <1>10, <1>11

\* The blocks of a peer that are verified lead, above the blocks c, to the stores.
Verified(r, c, miners, free) ==
  /\ DOMAIN r = {"w", "blocks"} /\ r.w.pool = <<>>
  /\ \E A : c \in Seq(A) /\ r.blocks \in Seq(A)
  /\ \A n \in 1..Len(r.blocks) : r.blocks[n].miner \in miners
  /\ \/ Failed(r.w)
     \/ \E b : ChainReaches(c \o r.blocks, b, free) /\ Keeps(r.w, b)

LEMMA ValidAre ==
  ASSUME NEW q \in Seq(Tx), \A t \in ToSet(q) : IsValid(t)
  PROVE  q \in Seq(ValidTx)
<1>1. PICK N \in Nat : N = Len(q) /\ DOMAIN q = 1..N
  OBVIOUS
<1>2. ASSUME NEW n \in 1..N
      PROVE  q[n] \in ValidTx
  <2>1. PICK t \in Tx : t = q[n]
    BY <1>1
  <2>2. IsValid(t)
    BY <1>1, <2>1 DEF ToSet
  <2> QED BY <2>1, <2>2 DEF ValidTx
<1> QED BY <1>1, <1>2

OnTop(c, p, x) == Append(c \o p, x) = c \o Append(p, x)

LEMMA AppendAbove ==
  ASSUME NEW A, NEW c \in Seq(A), NEW p \in Seq(A), NEW x \in A
  PROVE  OnTop(c, p, x)
<1>1. PICK m, n \in Nat : m = Len(c) /\ n = Len(p)
  OBVIOUS
<1>2. PICK u, v : u = Append(c \o p, x) /\ v = c \o Append(p, x)
  OBVIOUS
<1>3. u \in Seq(A) /\ v \in Seq(A) /\ Len(u) = m + n + 1 /\ Len(v) = m + n + 1
  BY <1>1, <1>2
<1>4. ASSUME NEW k \in 1..(m + n + 1)
      PROVE  u[k] = v[k]
  <2>1. PICK y, z : y = c \o p /\ z = Append(p, x)
    OBVIOUS
  <2>2. /\ y \in Seq(A) /\ Len(y) = m + n /\ z \in Seq(A) /\ Len(z) = n + 1
        /\ \A i \in 1..(m + n) : y[i] = IF i <= m THEN c[i] ELSE p[i - m]
        /\ \A i \in 1..(n + 1) : z[i] = IF i <= n THEN p[i] ELSE x
    BY <1>1, <2>1
  <2>3. u[k] = IF k <= m + n THEN y[k] ELSE x
    <3>1. u = Append(y, x)
      BY <1>2, <2>1
    <3>2. k \in 1..(Len(y) + 1)
      BY <2>2
    <3> QED BY <2>2, <3>1, <3>2
  <2>4. v[k] = IF k <= m THEN c[k] ELSE z[k - m]
    <3>1. v = c \o z
      BY <1>2, <2>1
    <3>2. k \in 1..(Len(c) + Len(z))
      BY <1>1, <2>2
    <3> QED BY <1>1, <2>2, <3>1, <3>2
  <2>5. CASE k <= m
    BY <2>2, <2>3, <2>4, <2>5
  <2>6. CASE m < k /\ k <= m + n
    <3>1. k - m \in 1..(n + 1) /\ k - m <= n /\ k \in 1..(m + n) /\ ~ (k <= m)
      BY <2>6
    <3> QED BY <2>2, <2>3, <2>4, <2>6, <3>1
  <2>7. CASE k = m + n + 1
    <3>1. k - m \in 1..(n + 1) /\ ~ (k - m <= n) /\ ~ (k <= m) /\ ~ (k <= m + n)
      BY <2>7
    <3> QED BY <2>2, <2>3, <2>4, <3>1
  <2> QED BY <2>5, <2>6, <2>7
<1> QED BY <1>2, <1>3, <1>4, SeqEqual DEF OnTop

LEMMA VerifyLeads ==
  ASSUME NEW r, NEW c, NEW miners, NEW free, Verified(r, c, miners, free), free = Free,
         NEW b, b.txs \in Seq(Tx), b.miner \in miners, b.miner \in Address,
         NEW x, x = VerifyBlock(r, b)
  PROVE  /\ Verified(x, c, miners, free)
         /\ x.w.ok => Len(x.blocks) = Len(r.blocks) + 1
<1>1. PICK txs \in Seq(Tx) : txs = b.txs
  OBVIOUS
<1>2. PICK w : w = r.w
  OBVIOUS
<1>3. PICK miner \in Address : miner = b.miner /\ miner \in miners
  OBVIOUS
<1>4. PICK tried, closed : /\ tried = TryAll(w, txs)
                           /\ closed = CloseBlock(tried.w, miner, txs)
  OBVIOUS
<1> DEFINE Guard == /\ w.ok /\ tried.w.ok /\ tried.failed = {} /\ \A t \in ToSet(txs) : IsValid(t)
                    /\ w.balance[miner] >= Threshold["miner"]
                    /\ RoleOf(w, miner) = "none"
<1>5. x = IF Guard THEN [w |-> closed.w, blocks |-> Append(r.blocks, closed.block)]
          ELSE [r EXCEPT !.w.ok = FALSE]
  BY <1>1, <1>2, <1>3, <1>4 DEF VerifyBlock
<1>6. DOMAIN w = StoreFields /\ w.pool = <<>>
  BY <1>2 DEF Verified, Failed, Keeps
<1>7. CASE Guard
  <2>1. txs \in Seq(ValidTx)
    BY <1>7, ValidAre
  <2>2. PICK a : ChainReaches(c \o r.blocks, a, free) /\ Keeps(w, a)
    BY <1>2, <1>7 DEF Verified, Failed
  <2>3. Book(a, free)
    BY <2>2, ChainReachedIsBook
  <2>4. /\ Tried(tried, a, w.pool, free)
        /\ tried.failed = {} /\ tried.w.ok => tried.txs = txs
    BY <1>4, <2>1, <2>2, <2>3, TryAllLeads
  <2>5. PICK v, u : u = tried.w /\ Reaches(a, txs, v, free) /\ Keeps(u, v) /\ u.pool = <<>>
    BY <1>6, <1>7, <2>4 DEF Tried, Failed
  <2>6. PICK block : block = closed.block
    OBVIOUS
  <2>7. closed = CloseBlock(u, miner, txs)
    BY <1>4, <2>5
  <2>8. /\ \E d : BlockLeads(a, closed.block, d, free) /\ Keeps(closed.w, d)
        /\ closed.w.pool = u.pool /\ closed.block.miner = miner /\ closed.block.txs = txs
    BY <2>5, <2>7, ClosedLeads
  <2>9. PICK d : BlockLeads(a, block, d, free) /\ Keeps(closed.w, d)
    BY <2>6, <2>8
  <2>10. ChainReaches(Append(c \o r.blocks, block), d, free)
    BY <2>2, <2>9, ChainReachesNext
  <2>11. PICK A : c \in Seq(A) /\ r.blocks \in Seq(A)
    BY DEF Verified
  <2>12. PICK B : B = A \union {block}
    OBVIOUS
  <2>13. PICK p \in Seq(B) : p = r.blocks /\ c \in Seq(B) /\ block \in B
    <3>1. r.blocks \in Seq(B) /\ c \in Seq(B) /\ block \in B
      BY <2>11, <2>12
    <3> QED BY <3>1
  <2>14. ChainReaches(c \o Append(p, block), d, free)
    <3>1. OnTop(c, p, block)
      BY <2>13, AppendAbove
    <3>2. ChainReaches(Append(c \o p, block), d, free)
      BY <2>10, <2>13
    <3> QED BY <3>1, <3>2 DEF OnTop
  <2>15. x = [w |-> closed.w, blocks |-> Append(p, block)]
    BY <1>5, <1>7, <2>6, <2>13
  <2>16. PICK l : l = Append(p, block)
    OBVIOUS
  <2>17. DOMAIN x = {"w", "blocks"} /\ x.w = closed.w /\ x.blocks = l
    BY <2>15, <2>16
  <2>18. /\ l \in Seq(B) /\ Len(l) = Len(p) + 1 /\ Len(p) \in Nat
         /\ \A n \in 1..Len(l) : l[n].miner \in miners
    <3>1. l \in Seq(B) /\ Len(l) = Len(p) + 1 /\ Len(p) \in Nat
      BY <2>13, <2>16
    <3>2. ASSUME NEW n \in 1..Len(l)
          PROVE  l[n].miner \in miners
      <4>1. CASE n = Len(p) + 1
        <5>1. l[n] = block
          BY <2>13, <2>16, <4>1
        <5> QED BY <1>3, <2>6, <2>8, <5>1
      <4>2. CASE n # Len(p) + 1
        <5>1. n \in 1..Len(p)
          BY <3>1, <4>2
        <5>2. l[n] = p[n]
          BY <2>13, <2>16, <5>1
        <5> QED BY <2>13, <5>1, <5>2 DEF Verified
      <4> QED BY <4>1, <4>2
    <3> QED BY <3>1, <3>2
  <2>19. x.w.pool = <<>> /\ Keeps(x.w, d) /\ ChainReaches(c \o x.blocks, d, free)
    BY <2>5, <2>8, <2>9, <2>14, <2>16, <2>17
  <2>20. Verified(x, c, miners, free)
    BY <2>13, <2>17, <2>18, <2>19 DEF Verified
  <2> QED BY <2>13, <2>17, <2>18, <2>20
<1>8. CASE ~ Guard
  <2>1. x = [r EXCEPT !.w.ok = FALSE]
    BY <1>5, <1>8
  <2>2. DOMAIN x = {"w", "blocks"} /\ x.blocks = r.blocks /\ x.w = [w EXCEPT !.ok = FALSE]
    BY <1>2, <2>1 DEF Verified
  <2>3. Failed(x.w) /\ x.w.pool = <<>>
    BY <1>6, <2>2 DEF Failed, StoreFields
  <2> QED BY <2>2, <2>3 DEF Verified, Failed
<1> QED BY <1>7, <1>8

LEMMA VerifyAllLeads ==
  ASSUME NEW r, NEW c, NEW miners, NEW free, Verified(r, c, miners, free), free = Free,
         NEW A, NEW q \in Seq(A), q # <<>>,
         \A n \in DOMAIN q : /\ q[n].txs \in Seq(Tx)
                             /\ q[n].miner \in miners /\ q[n].miner \in Address,
         NEW x, x = FoldLeft(VerifyBlock, r, q)
  PROVE  /\ Verified(x, c, miners, free)
         /\ x.w.ok => Len(x.blocks) >= 1
<1>1. PICK f : LeftRun(f, "verify", <<>>, r, q) /\ x = f[Len(q)]
  BY Verifying
<1>2. PICK N \in Nat : N = Len(q) /\ DOMAIN q = 1..N /\ N # 0
  OBVIOUS
<1> DEFINE Is(v, n) == Verified(v, c, miners, free) /\ (v.w.ok /\ n # 0 => Len(v.blocks) >= 1)
           T == {n \in Nat : n <= N => Is(f[n], n)}
<1>3. 0 \in T
  BY <1>1 DEF LeftRun
<1>4. ASSUME NEW n \in T
      PROVE  n + 1 \in T
  <2> SUFFICES ASSUME n + 1 <= N
               PROVE  Is(f[n + 1], n + 1)
    OBVIOUS
  <2>1. PICK v : v = f[n] /\ Verified(v, c, miners, free)
    OBVIOUS
  <2>2. PICK b : b = q[n + 1] /\ b.txs \in Seq(Tx) /\ b.miner \in miners /\ b.miner \in Address
    BY <1>2
  <2>3. PICK y : y = VerifyBlock(v, b)
    OBVIOUS
  <2>4. f[n + 1] = y
    <3>1. n + 1 \in 1..Len(q) /\ (n + 1) - 1 = n
      BY <1>2
    <3> QED BY <1>1, <2>1, <2>2, <2>3, <3>1 DEF LeftRun, Do
  <2>5. Verified(y, c, miners, free) /\ (y.w.ok => Len(y.blocks) = Len(v.blocks) + 1)
    <3>1. Verified(v, c, miners, free)
      BY <2>1
    <3>2. b.txs \in Seq(Tx) /\ b.miner \in miners /\ b.miner \in Address
      BY <2>2
    <3> HIDE DEF T
    <3> QED BY <2>3, <3>1, <3>2, VerifyLeads, Zenon
  <2>6. Len(v.blocks) \in Nat
    BY <2>1 DEF Verified
  <2>7. y.w.ok => Len(y.blocks) >= 1
    BY <2>5, <2>6
  <2> QED BY <2>4, <2>5, <2>7
<1>5. T = Nat
  <2> HIDE DEF T
  <2>1. T \in SUBSET Nat
    BY DEF T
  <2> QED BY <1>3, <1>4, <2>1, InductionOnSet
<1>6. Is(f[N], N)
  <2>1. N \in T
    <3> HIDE DEF T
    <3> QED BY <1>5
  <2> QED BY <2>1
<1> QED BY <1>1, <1>2, <1>6

-----------------------------------------------------------------------------
(* The handlers *)

\* The pool is undone to the book below it.
LEMMA RevertPoolLeads ==
  ASSUME NEW w, NEW a, NEW free, Pooled(w, a, free), w.ok, NEW v, v = RevertPool(w)
  PROVE  Keeps(v, a) /\ v.pool = <<>>
<1>1. PICK b : Reaches(a, w.pool, b, free) /\ Keeps(w, b)
  BY DEF Pooled, Failed
<1>2. PICK q, x : q = w.pool /\ x = FoldRight(Undo, q, w)
  OBVIOUS
<1>3. Keeps(x, a)
  BY <1>1, <1>2, UndoneIsBack
<1>4. v = [x EXCEPT !.pool = <<>>]
  BY <1>2 DEF RevertPool
<1> QED BY <1>3, <1>4 DEF Keeps, StoreFields

\* A pool that is empty holds up nothing.
LEMMA PooledAtFirst ==
  ASSUME NEW w, w.pool = <<>>, NEW a, NEW free, Book(a, free), Keeps(w, a)
  PROVE  Pooled(w, a, free)
<1>1. Reaches(a, w.pool, a, free)
  BY ReachesNothing
<1> QED BY <1>1 DEF Pooled

LEMMA ClosedFails ==
  ASSUME NEW w, Failed(w), NEW miner, NEW txs
  PROVE  Failed(CloseBlock(w, miner, txs).w)
<1>1. PICK r : r = Rewards(w, txs, miner)
  OBVIOUS
<1>2. PICK n : n = w.length + 1
  OBVIOUS
<1>3. PICK y : y = Paying(w, r, 1, n)
  OBVIOUS
<1>4. DOMAIN w = StoreFields /\ w.ok = FALSE
  BY DEF Failed
<1>7. DOMAIN w = StoreFields
  BY <1>4
<1>5. /\ y = [x \in StoreFields |-> y[x]]
      /\ y.auth = w.auth /\ y.roles = w.roles /\ y.files = w.files
      /\ y.units = w.units /\ y.holders = w.holders /\ y.requests = w.requests
      /\ y.pool = w.pool /\ y.length = n /\ y.ok = w.ok
      /\ y.balance = [x \in Address |-> w.balance[x] + 1 * Paid(r, x)]
  BY <1>3, <1>7, PayingIs
<1>6. CloseBlock(w, miner, txs).w = y
  <2>1. Pay(w, r, 1).length = w.length
    BY <1>4 DEF Pay, StoreFields
  <2>2. [Pay(w, r, 1) EXCEPT !.length = @ + 1] = y
    BY <1>2, <1>3, <2>1 DEF Paying
  <2> QED BY <1>1, <2>2 DEF CloseBlock
<1> QED BY <1>4, <1>5, <1>6 DEF Failed

\* The block that is mined leads to the book that the new pool is put on, and it is one
\* that a peer with the stores w comes to.
MinedIs(w, a, v, block, miner, free) ==
  /\ \E d : BlockLeads(a, block, d, free) /\ Pooled(v, d, free)
  /\ block.txs \in Seq(ValidTx) /\ block.miner = miner
  /\ LET again == TryAll(w, block.txs)
     IN  /\ again.w.ok /\ again.failed = {}
         /\ CloseBlock(again.w, miner, block.txs).block = block

LEMMA MinedLeads ==
  ASSUME NEW w, NEW a, NEW free, Keeps(w, a), Book(a, free), free = Free, w.pool = <<>>,
         NEW order \in Seq(ValidTx), NEW miner \in Address,
         NEW back \in Seq(ValidTx), NEW fresh,
         NEW tried, tried = TryAll(w, order),
         NEW closed, closed = CloseBlock(tried.w, miner, tried.txs),
         NEW v, v = PutAllBack(closed.w, back, {}, fresh), v.ok
  PROVE  MinedIs(w, a, v, closed.block, miner, free)
<1>1. PICK x, u, taken : x = closed.w /\ u = tried.w /\ taken = {}
  OBVIOUS
<1>2. v = PutAllBack(x, back, taken, fresh)
  BY <1>1
<1>3. Tried(tried, a, w.pool, free)
  BY TryAllLeads
<1>4. DOMAIN u = StoreFields /\ u.pool = <<>>
  BY <1>1, <1>3 DEF Tried, Failed, Keeps
<1>5. u.ok = TRUE
  <2>1. CASE Failed(u)
    <3>1. Failed(x)
      BY <1>1, <2>1, ClosedFails
    <3>2. Pooled(x, a, free)
      BY <3>1 DEF Pooled
    <3>3. v.ok => x.ok
      BY <1>2, <3>2, PutAllBackStays
    <3> QED BY <3>1, <3>3 DEF Failed
  <2>2. CASE ~ Failed(u)
    BY <1>1, <1>3, <2>2 DEF Tried, Keeps
  <2> QED BY <2>1, <2>2
<1>6. PICK txs, b : txs = tried.txs /\ Reaches(a, txs, b, free) /\ Keeps(u, b)
  BY <1>1, <1>3, <1>5 DEF Tried, Failed
<1>7. closed = CloseBlock(u, miner, txs)
  BY <1>1, <1>6
<1>8. /\ \E d : BlockLeads(a, closed.block, d, free) /\ Keeps(closed.w, d)
      /\ closed.w.pool = u.pool /\ closed.block.miner = miner /\ closed.block.txs = txs
  BY <1>6, <1>7, ClosedLeads
<1>9. PICK d, block : block = closed.block /\ BlockLeads(a, block, d, free) /\ Keeps(x, d)
  BY <1>1, <1>8
<1>10. Pooled(x, d, free)
  <2>1. Book(d, free)
    BY <1>9, BlockIsPaid
  <2>2. x.pool = <<>>
    BY <1>1, <1>4, <1>8
  <2> QED BY <1>9, <2>1, <2>2, PooledAtFirst
<1>11. Pooled(v, d, free)
  BY <1>2, <1>10, PutAllBackStays
<1>12. txs \in Seq(ValidTx)
  BY <1>6 DEF Reaches
<1>13. PICK again : again = TryAll(w, txs) /\ again = [w |-> u, txs |-> txs, failed |-> {}]
  <2>1. Again(w, tried)
    BY TriedAgain
  <2> QED BY <1>1, <1>5, <1>6, <2>1 DEF Again
<1>14. again.w = u /\ again.failed = {}
  BY <1>13
<1> QED BY <1>1, <1>5, <1>7, <1>8, <1>9, <1>11, <1>12, <1>13, <1>14 DEF MinedIs

LEMMA LeastOfTwo ==
  ASSUME NEW m \in Int, NEW n \in Int
  PROVE  Min({m, n}) \in Int
<1>1. \E x \in {m, n} : \A y \in {m, n} : x <= y
  <2>1. CASE m <= n
    BY <2>1
  <2>2. CASE n <= m
    BY <2>2
  <2> QED BY <2>1, <2>2
<1>2. Min({m, n}) \in {m, n}
  BY <1>1 DEF Min
<1> QED BY <1>2

-----------------------------------------------------------------------------
(* The stores are those of the chain and the pool *)

BooksInv ==
  /\ setting \in Settings
  /\ stores.ok
  /\ \E b : ChainReaches(chain, b, Free) /\ Pooled(stores, b, Free)

LEMMA OfferedAre ==
  ASSUME setting \in Settings
  PROVE  setting.offered \in SUBSET Tx /\ setting.first \in Seq(Tx) /\ setting.address \in Address
BY CatalogueAssumption, MessageAssumption

LEMMA FirstIsBook == \A free : Book(FirstStores, free)
<1> SUFFICES ASSUME NEW free
             PROVE  Book(FirstStores, free)
  OBVIOUS
<1>1. PICK s : s = FirstStores
  OBVIOUS
<1>2. s = [x \in StoreFields |-> s[x]]
  BY <1>1 DEF FirstStores, StoreFields
<1>3. /\ s.balance = FirstBalance /\ s.auth = <<>> /\ s.roles = <<>> /\ s.files = <<>>
      /\ s.units = <<>> /\ s.holders = {} /\ s.requests = <<>> /\ s.pool = <<>>
      /\ s.length = 1 /\ s.ok = TRUE
  BY <1>1 DEF FirstStores
<1>4. PICK e : e = <<>> /\ DOMAIN e = {} /\ IsTable(e)
  <2>1. PICK e : e = <<>>
    OBVIOUS
  <2>2. DOMAIN e = {}
    BY <2>1
  <2>3. e = [x \in {} |-> e[x]]
    BY <2>1
  <2> QED BY <2>1, <2>2, <2>3 DEF IsTable
<1>5. s.roles = e /\ s.files = e /\ s.units = e
  BY <1>3, <1>4
<1>6. Documented(s) /\ HoldersStand(s) /\ DOMAIN s.roles \intersect free = {}
  BY <1>3, <1>4, <1>5 DEF Documented, HoldersStand
<1>7. s.balance \in [Address -> Nat] /\ s.auth \in Sound /\ s.length \in Nat
  BY <1>3, SoundAtGenesis, CatalogueAssumption
<1> QED BY <1>1, <1>2, <1>3, <1>4, <1>5, <1>6, <1>7 DEF Book

LEMMA BooksInit == Init => BooksInv
<1> SUFFICES ASSUME Init
             PROVE  BooksInv
  OBVIOUS
<1>1. setting \in Settings /\ setting.first \in Seq(Tx)
  BY OfferedAre DEF Init
<1>2. PICK r : r = [w |-> FirstStores, blocks |-> <<GenesisBlock>>]
  OBVIOUS
<1>3. PICK miner, verified :
        /\ miner \in Miner
        /\ verified = VerifyBlock(r, [miner |-> miner, txs |-> setting.first])
        /\ stores = verified.w /\ stores.ok /\ chain = verified.blocks
  BY <1>2 DEF Init
<1>4. PICK b : b = [miner |-> miner, txs |-> setting.first]
  OBVIOUS
<1>5. PICK g, one, c : g = GenesisBlock /\ one = <<g>> /\ c = <<>>
  OBVIOUS
<1>6. one \in Seq({g}) /\ Len(one) = 1 /\ one[1] = g /\ c \in Seq({g})
  BY <1>5
<1>7. PICK free : free = Free
  OBVIOUS
<1>8. ChainReaches(one, FirstStores, free)
  <2>1. PICK H : H = [n \in 1..1 |-> FirstStores]
    OBVIOUS
  <2>2. H[1] = FirstStores /\ FirstStores.length = 1
    BY <2>1 DEF FirstStores
  <2>3. \A n \in 1..Len(one) : n = 1
    BY <1>6
  <2>4. \A n \in 2..Len(one) : FALSE
    BY <1>6
  <2>5. BlocksLeading(H, one, free)
    BY <1>6, <2>2, <2>3, <2>4, FirstIsBook DEF BlocksLeading
  <2> QED BY <1>6, <2>2, <2>5 DEF ChainReaches
<1>9. PICK miners : miners = Miner \union {g.miner}
  OBVIOUS
<1>10. Verified(r, c, miners, free)
  <2>1. DOMAIN r = {"w", "blocks"} /\ r.w = FirstStores /\ r.blocks = one
    BY <1>2, <1>5
  <2>2. c \o r.blocks = one
    BY <1>5, <1>6, <2>1
  <2>3. Keeps(FirstStores, FirstStores) /\ FirstStores.pool = <<>>
    BY DEF FirstStores, Keeps, StoreFields
  <2>4. \A n \in 1..Len(one) : one[n].miner \in miners
    BY <1>6, <1>9
  <2> QED BY <1>6, <1>8, <2>1, <2>2, <2>3, <2>4 DEF Verified
<1>11. Verified(verified, c, miners, free)
  <2>1. b.txs \in Seq(Tx) /\ b.miner \in miners /\ b.miner \in Address
    BY <1>1, <1>3, <1>4, <1>9, MessageAssumption
  <2>2. verified = VerifyBlock(r, b)
    BY <1>3, <1>4
  <2> QED BY <1>7, <1>10, <2>1, <2>2, VerifyLeads
<1>12. PICK A : verified.blocks \in Seq(A)
  BY <1>11 DEF Verified
<1>13. c \o chain = chain
  BY <1>3, <1>5, <1>12
<1>14. PICK d : ChainReaches(chain, d, free) /\ Keeps(stores, d)
  BY <1>3, <1>11, <1>13 DEF Verified, Failed
<1>15. Pooled(stores, d, free)
  <2>1. Book(d, free)
    BY <1>14, ChainReachedIsBook
  <2>2. stores.pool = <<>>
    BY <1>3, <1>11 DEF Verified
  <2> QED BY <1>14, <2>1, <2>2, PooledAtFirst
<1> QED BY <1>1, <1>3, <1>7, <1>14, <1>15 DEF BooksInv

LEMMA ReceiveKeeps ==
  ASSUME BooksInv, NEW t \in setting.offered, Receive(t)
  PROVE  BooksInv'
<1>1. PICK b : ChainReaches(chain, b, Free) /\ Pooled(stores, b, Free)
  BY DEF BooksInv
<1>2. PICK fresh : IsValid(t) /\ stores' = PutBack(stores, t, fresh) /\ stores'.ok
  BY DEF Receive
<1>3. t \in ValidTx
  <2>1. t \in Tx
    BY OfferedAre DEF BooksInv
  <2> QED BY <1>2, <2>1 DEF ValidTx
<1>4. Pooled(PutBack(stores, t, fresh), b, Free)
  BY <1>1, <1>3, PutBackStays
<1>5. chain' = chain /\ setting' = setting /\ Free' = Free
  BY DEF Receive, Free
<1> QED BY <1>1, <1>2, <1>4, <1>5 DEF BooksInv

LEMMA RevertLastKeeps ==
  ASSUME BooksInv, RevertLastBlock
  PROVE  BooksInv'
<1>1. PICK b, free : free = Free /\ ChainReaches(chain, b, free) /\ Pooled(stores, b, free)
  BY DEF BooksInv
<1>2. PICK w : w = RevertPool(stores) /\ Keeps(w, b) /\ w.pool = <<>>
  BY <1>1, RevertPoolLeads DEF BooksInv
<1>3. PICK H : BlocksLeading(H, chain, free) /\ H[Len(chain)] = b
  BY <1>1 DEF ChainReaches
<1>4. PICK A : chain \in Seq(A)
  BY <1>1 DEF ChainReaches
<1>5. PICK N \in Nat : N = Len(chain) /\ N > 1
  BY <1>4 DEF RevertLastBlock
<1>6. PICK block, a : block = chain[N] /\ a = H[N - 1]
  OBVIOUS
<1>7. BlockLeads(a, block, b, free)
  <2>1. N \in 2..Len(chain)
    BY <1>5
  <2> QED BY <1>3, <1>5, <1>6, <2>1 DEF BlocksLeading
<1>8. PICK v : v = RevertBlock(w, block)
  OBVIOUS
<1>9. Keeps(v, a) /\ v.pool = <<>>
  BY <1>2, <1>7, <1>8, RevertBlockLeads
<1>10. stores' = v /\ stores'.ok /\ setting' = setting /\ Free' = Free
  BY <1>2, <1>5, <1>6, <1>8 DEF RevertLastBlock, Last, Free
<1>11. ChainReaches(chain', a, free)
  <2>1. N - 1 \in 1..Len(chain)
    BY <1>5
  <2>2. PICK n \in 1..Len(chain) : n = N - 1
    BY <2>1
  <2>3. ChainReaches(SubSeq(chain, 1, n), H[n], free)
    BY <1>3, <1>4, ChainReachesPart
  <2>4. chain' = SubSeq(chain, 1, n)
    BY <1>5, <2>2 DEF RevertLastBlock, Front
  <2> QED BY <1>6, <2>2, <2>3, <2>4
<1>12. Pooled(v, a, free)
  <2>1. Book(a, free)
    BY <1>11, ChainReachedIsBook
  <2> QED BY <1>9, <2>1, PooledAtFirst
<1> QED BY <1>1, <1>10, <1>11, <1>12 DEF BooksInv

\* The block that was mined is one that a peer with the same stores takes over.
TakenOver ==
  VerifyBlock([w |-> RevertPool(stores), blocks |-> chain], Last(chain')).blocks = chain'

LEMMA MineKeeps ==
  ASSUME BooksInv, MineBlock
  PROVE  BooksInv' /\ TakenOver
<1>1. PICK a, free : free = Free /\ ChainReaches(chain, a, free) /\ Pooled(stores, a, free)
  BY DEF BooksInv
<1>2. PICK w : w = RevertPool(stores) /\ Keeps(w, a) /\ w.pool = <<>>
  BY <1>1, RevertPoolLeads DEF BooksInv
<1>3. PICK pool : pool = ToSet(stores.pool) /\ pool \in SUBSET ValidTx
  <2>1. stores.pool \in Seq(ValidTx)
    BY <1>1 DEF Pooled, Failed, Reaches, BooksInv
  <2>2. ToSet(stores.pool) \in SUBSET ValidTx
    BY <2>1 DEF ToSet
  <2> QED BY <2>2
<1>4. PICK fresh, mined : /\ mined \in Mined(fresh)
                          /\ mined.w.ok /\ stores' = mined.w
                          /\ chain' = Append(chain, mined.block)
  BY DEF MineBlock
<1>5. PICK picked, order, tried, closed, back :
        /\ picked \in SUBSET pool /\ order \in Sorted(picked)
        /\ tried = TryAll(w, order)
        /\ closed = CloseBlock(tried.w, setting.address, tried.txs)
        /\ back \in Sorted((pool \ picked) \union tried.failed)
        /\ mined = [w |-> PutAllBack(closed.w, back, {}, fresh), block |-> closed.block]
  <2> DEFINE Ready(p) == {t \in p : /\ Creation[t] < TimeOf(Len(chain))
                                    /\ Action[t].type = "ServiceStatistics" =>
                                         Action[t].block = Len(chain) - 1}
             Result(x, p, order, picked) ==
               LET tried  == TryAll(x, order)
                   closed == CloseBlock(tried.w, setting.address, tried.txs)
               IN  {[w |-> PutAllBack(closed.w, back, {}, fresh), block |-> closed.block] :
                      back \in Sorted((p \ picked) \union tried.failed)}
             All(x, p) == UNION {UNION {Result(x, p, order, picked) : order \in Sorted(picked)} :
                                   picked \in Picks(x, Ready(p), Len(chain))}
  <2>0. Mined(fresh) = All(RevertPool(stores), ToSet(stores.pool))
    BY Zenon DEF Mined
  <2>1. mined \in All(w, pool)
    <3> HIDE DEF All
    <3> QED BY <1>2, <1>3, <1>4, <2>0
  <2>2. PICK r : r = Ready(pool) /\ r \in SUBSET pool
    OBVIOUS
  <2> HIDE DEF Ready, Result
  <2>3. PICK picked \in Picks(w, r, Len(chain)) :
          mined \in UNION {Result(w, pool, order, picked) : order \in Sorted(picked)}
    BY <2>1, <2>2
  <2>4. PICK order \in Sorted(picked) : mined \in Result(w, pool, order, picked)
    BY <2>3
  <2>5. picked \in SUBSET pool
    BY <2>2, <2>3 DEF Picks
  <2>6. PICK tried, closed : /\ tried = TryAll(w, order)
                             /\ closed = CloseBlock(tried.w, setting.address, tried.txs)
    OBVIOUS
  <2>7. PICK back \in Sorted((pool \ picked) \union tried.failed) :
          mined = [w |-> PutAllBack(closed.w, back, {}, fresh), block |-> closed.block]
    BY <2>4, <2>6 DEF Result
  <2> QED BY <2>5, <2>6, <2>7
<1>6. IsFiniteSet(ValidTx)
  <2>1. ValidTx \subseteq Tx /\ IsFiniteSet(Tx)
    BY CatalogueAssumption DEF ValidTx
  <2> QED BY <2>1, FS_Subset
<1>7. order \in Seq(ValidTx)
  <2>1. picked \in SUBSET ValidTx /\ IsFiniteSet(picked)
    BY <1>3, <1>5, <1>6, FS_Subset
  <2> QED BY <1>5, <2>1, SortedAre
<1>8. Book(a, free)
  BY <1>1, ChainReachedIsBook
<1>9. tried.failed \in SUBSET ValidTx
  <2>1. Tried(tried, a, w.pool, free)
    BY <1>1, <1>2, <1>5, <1>7, <1>8, TryAllLeads
  <2> QED BY <2>1 DEF Tried
<1>10. back \in Seq(ValidTx)
  <2>1. PICK S : S = (pool \ picked) \union tried.failed
    OBVIOUS
  <2>2. S \in SUBSET ValidTx
    BY <1>3, <1>9, <2>1
  <2>3. IsFiniteSet(S)
    BY <1>6, <2>2, FS_Subset
  <2> QED BY <1>5, <2>1, <2>2, <2>3, SortedAre
<1>11. PICK v : v = PutAllBack(closed.w, back, {}, fresh) /\ mined.w = v /\ v.ok
  BY <1>4, <1>5
<1>12. PICK miner \in Address : miner = setting.address
  BY OfferedAre DEF BooksInv
<1>13. closed = CloseBlock(tried.w, miner, tried.txs)
  BY <1>5, <1>12
<1>14. tried = TryAll(w, order) /\ v = PutAllBack(closed.w, back, {}, fresh) /\ v.ok
  BY <1>5, <1>11
<1>15. MinedIs(w, a, v, closed.block, miner, free)
  <2>1. Keeps(w, a) /\ w.pool = <<>> /\ free = Free
    BY <1>1, <1>2
  <2>2. order \in Seq(ValidTx) /\ back \in Seq(ValidTx)
    BY <1>7, <1>10
  <2> QED BY <1>8, <1>13, <1>14, <2>1, <2>2, MinedLeads, Zenon
<1>21. PICK block : block = closed.block
  OBVIOUS
<1>16. PICK d : BlockLeads(a, block, d, free) /\ Pooled(v, d, free)
  BY <1>15, <1>21 DEF MinedIs
<1>17. chain' = Append(chain, block) /\ stores' = v /\ setting' = setting /\ Free' = Free
  BY <1>4, <1>5, <1>11, <1>21 DEF MineBlock, Free
<1>18. BooksInv'
  <2>1. ChainReaches(Append(chain, block), d, free)
    BY <1>1, <1>16, ChainReachesNext
  <2> QED BY <1>1, <1>11, <1>16, <1>17, <2>1 DEF BooksInv
<1>19. Last(chain') = block
  <2>1. PICK A : chain \in Seq(A)
    BY <1>1 DEF ChainReaches
  <2>2. PICK B : B = A \union {block} /\ chain \in Seq(B) /\ block \in B
    <3>1. chain \in Seq(A \union {block})
      BY <2>1
    <3> QED BY <3>1
  <2>3. Len(Append(chain, block)) = Len(chain) + 1
    BY <2>2
  <2>4. Append(chain, block)[Len(chain) + 1] = block
    BY <2>2
  <2> QED BY <1>17, <2>3, <2>4 DEF Last
<1>20. TakenOver
  <2>10. PICK r : r = [w |-> w, blocks |-> chain]
    OBVIOUS
  <2>1. r = [w |-> w, blocks |-> chain] /\ r.w = w /\ r.blocks = chain
    BY <2>10
  <2>2. PICK txs, again, last : /\ txs = block.txs /\ again = TryAll(w, txs)
                                /\ last = CloseBlock(again.w, miner, txs)
    OBVIOUS
  <2>3. /\ again.w.ok /\ again.failed = {} /\ last.block = block
        /\ txs \in Seq(ValidTx) /\ block.miner = miner
    BY <1>15, <1>21, <2>2 DEF MinedIs
  <2>4. \A t \in ToSet(txs) : IsValid(t)
    BY <2>3 DEF ToSet, ValidTx
  <2>5. w.balance[miner] >= Threshold["miner"] /\ setting.kind = "blockchain"
    BY <1>2, <1>12 DEF MineBlock, IsMiner
  <2>6. RoleOf(w, miner) = "none"
    <3>1. free = {miner}
      BY <1>1, <1>12, <2>5 DEF Free
    <3>2. miner \notin DOMAIN w.roles
      BY <1>2, <1>8, <3>1 DEF Book, Keeps
    <3> QED BY <3>2 DEF RoleOf
  <2>7. w.ok
    BY <1>2 DEF Keeps
  <2>8. VerifyBlock(r, block) = [w |-> last.w, blocks |-> Append(chain, block)]
    BY <2>1, <2>2, <2>3, <2>4, <2>5, <2>6, <2>7 DEF VerifyBlock
  <2>9. VerifyBlock(r, block).blocks = chain'
    BY <1>17, <2>8
  <2> QED BY <1>2, <1>19, <2>1, <2>9 DEF TakenOver
<1> QED BY <1>18, <1>20

\* What is taken off the chain and out of the pool, in one sequence.
LEMMA TakenOffAre ==
  ASSUME NEW H, NEW free, BlocksLeading(H, chain, free), NEW A, chain \in Seq(A),
         NEW lcb \in 0..(Len(chain) - 1)
  PROVE  FlattenSeq([n \in 1..(Len(chain) - lcb - 1) |-> chain[n + lcb + 1].txs]) \in Seq(ValidTx)
<1>1. PICK L \in Nat : L = Len(chain) /\ lcb \in 0..(L - 1)
  OBVIOUS
<1>2. PICK N \in Nat : N = L - lcb - 1
  <2>1. L - lcb - 1 \in Nat
    BY <1>1
  <2> QED BY <2>1
<1>3. PICK f : f = [n \in 1..N |-> chain[n + lcb + 1].txs]
  OBVIOUS
<1>4. ASSUME NEW n \in 1..N
      PROVE  f[n] \in Seq(ValidTx)
  <2>1. PICK m \in 2..L : m = n + lcb + 1
    <3>1. n + lcb + 1 \in 2..L
      BY <1>1, <1>2
    <3> QED BY <3>1
  <2>2. chain[m].txs \in Seq(ValidTx)
    BY <1>1 DEF BlocksLeading, BlockLeads, Reaches
  <2> QED BY <1>3, <2>1, <2>2
<1>5. FlattenSeq([n \in 1..N |-> f[n]]) \in Seq(ValidTx)
  BY <1>4, RemovedAre
<1>6. [n \in 1..N |-> f[n]] = f
  BY <1>3
<1> QED BY <1>1, <1>2, <1>3, <1>5, <1>6

LEMMA SyncKeeps ==
  ASSUME BooksInv, NEW lcb \in 0..(Len(chain) - 1), SyncBlocks(lcb)
  PROVE  BooksInv' /\ Last(chain').miner # setting.address
<1>1. PICK b, free : free = Free /\ ChainReaches(chain, b, free) /\ Pooled(stores, b, free)
  BY DEF BooksInv
<1>2. PICK w : w = RevertPool(stores) /\ Keeps(w, b) /\ w.pool = <<>>
  BY <1>1, RevertPoolLeads DEF BooksInv
<1>3. PICK H : BlocksLeading(H, chain, free) /\ H[Len(chain)] = b
  BY <1>1 DEF ChainReaches
<1>4. PICK A : chain \in Seq(A)
  BY <1>1 DEF ChainReaches
<1>5. PICK below : below = SubSeq(chain, 1, lcb + 1)
  OBVIOUS
<1>6. PICK removed \in Seq(ValidTx) :
        removed = FlattenSeq([n \in 1..(Len(chain) - lcb - 1) |-> chain[n + lcb + 1].txs])
  BY <1>3, <1>4, TakenOffAre
<1>7. PICK offered \in SUBSET Tx : offered = setting.offered \ OnChain(below)
  <2>1. setting.offered \in SUBSET Tx
    BY OfferedAre DEF BooksInv
  <2> QED BY <2>1
<1>8. PICK bare : bare = RevertBlocks(w, lcb)
  OBVIOUS
<1> DEFINE Sending(n, S) == [1..n -> [miner : Miner \ {setting.address},
                                      txs : UNION {Sorted(x) : x \in SUBSET S}]]
           Synced(v, c, q, S) ==
             \E n \in 1..Min({MaxSync, MaxBlocks - lcb}) : \E sent \in Sending(n, S) :
               /\ v.ok
               /\ \A i, j \in 1..n : i # j => ToSet(sent[i].txs) \intersect ToSet(sent[j].txs) = {}
               /\ n = 1 => EnoughReports(v, sent[1].txs, ToSet(q \o stores.pool), lcb + 1)
               /\ \E verified \in {FoldLeft(VerifyBlock, [w |-> v, blocks |-> <<>>], sent)} :
                  \E more \in BOOLEAN, fresh \in Fresh :
                    /\ stores' = PutAllBack(verified.w, q \o (IF more THEN <<>> ELSE stores.pool),
                                            UNION {ToSet(sent[i].txs) : i \in 1..n}, fresh)
                    /\ stores'.ok
                    /\ chain' = c \o verified.blocks
               /\ UNCHANGED setting
<1>9. Synced(bare, below, removed, offered)
  <2>1. \E v \in {RevertBlocks(RevertPool(stores), lcb)} :
          Synced(v, SubSeq(chain, 1, lcb + 1),
                 FlattenSeq([n \in 1..(Len(chain) - lcb - 1) |-> chain[n + lcb + 1].txs]),
                 setting.offered \ OnChain(SubSeq(chain, 1, lcb + 1)))
    BY Zenon DEF SyncBlocks
  <2> HIDE DEF Synced
  <2> QED BY <1>2, <1>5, <1>6, <1>7, <1>8, <2>1
<1> HIDE DEF Sending
<1>10. PICK n, sent, verified, more, fresh :
         /\ n \in 1..Min({MaxSync, MaxBlocks - lcb})
         /\ sent \in Sending(n, offered)
         /\ verified = FoldLeft(VerifyBlock, [w |-> bare, blocks |-> <<>>], sent)
         /\ stores' = PutAllBack(verified.w, removed \o (IF more THEN <<>> ELSE stores.pool),
                                 UNION {ToSet(sent[i].txs) : i \in 1..n}, fresh)
         /\ stores'.ok
         /\ chain' = below \o verified.blocks
  BY <1>9
<1>11. PICK r, taken :
         /\ r = [w |-> bare, blocks |-> <<>>] /\ verified = FoldLeft(VerifyBlock, r, sent)
         /\ stores' = PutAllBack(verified.w, removed \o (IF more THEN <<>> ELSE stores.pool),
                                 taken, fresh)
         /\ stores'.ok
         /\ chain' = below \o verified.blocks
  BY <1>10
<1>12. n \in Nat /\ n >= 1
  <2>1. MaxBlocks - lcb \in Int /\ MaxSync \in Int
    BY CatalogueAssumption
  <2>2. Min({MaxSync, MaxBlocks - lcb}) \in Int
    BY <2>1, LeastOfTwo
  <2> QED BY <1>10, <2>2
<1>13. PICK miners : miners = Miner \ {setting.address}
  OBVIOUS
<1>14. PICK R : /\ sent \in Seq(R) /\ DOMAIN sent = 1..n
                /\ \A x \in R : x.miner \in miners /\ \E S \in SUBSET offered : x.txs \in Sorted(S)
  <2>1. PICK T, Q : /\ T = UNION {Sorted(x) : x \in SUBSET offered}
                    /\ Q = [miner : Miner \ {setting.address}, txs : T]
    OBVIOUS
  <2>2. sent \in [1..n -> Q]
    BY <1>10, <2>1 DEF Sending
  <2>3. sent \in Seq(Q) /\ DOMAIN sent = 1..n
    BY <1>12, <2>2
  <2>4. \A x \in Q : x.txs \in T /\ x.miner \in miners
    BY <1>13, <2>1
  <2>5. \A y \in T : \E S \in SUBSET offered : y \in Sorted(S)
    BY <2>1
  <2> QED BY <2>3, <2>4, <2>5
<1>15. ASSUME NEW i \in DOMAIN sent
       PROVE  sent[i].txs \in Seq(Tx) /\ sent[i].miner \in miners /\ sent[i].miner \in Address
  <2>1. sent[i] \in R
    BY <1>12, <1>14
  <2>2. PICK S \in SUBSET offered : sent[i].txs \in Sorted(S)
    BY <1>14, <2>1
  <2>3. S \in SUBSET Tx /\ IsFiniteSet(S)
    BY <1>7, <2>2, CatalogueAssumption, FS_Subset
  <2>4. sent[i].txs \in Seq(Tx)
    BY <2>2, <2>3, SortedAre
  <2> QED BY <1>13, <1>14, <2>1, <2>4, MessageAssumption
<1>16. PICK a : a = H[lcb + 1] /\ ChainReaches(below, a, free)
  <2>1. PICK m \in 1..Len(chain) : m = lcb + 1
    <3>1. PICK L \in Nat : L = Len(chain)
      BY <1>4
    <3>2. lcb + 1 \in 1..Len(chain)
      BY <3>1
    <3> QED BY <3>2
  <2>2. ChainReaches(SubSeq(chain, 1, m), H[m], free)
    BY <1>3, <1>4, ChainReachesPart
  <2> QED BY <1>5, <2>1, <2>2
<1>17. Keeps(bare, a) /\ bare.pool = <<>>
  <2>1. Keeps(w, H[Len(chain)])
    BY <1>2, <1>3
  <2>2. Keeps(bare, H[lcb + 1]) /\ bare.pool = w.pool
    BY <1>3, <1>4, <1>8, <2>1, RevertBlocksLeads
  <2> QED BY <1>2, <1>16, <2>2
<1>18. Verified(r, below, miners, free)
  <2>1. DOMAIN r = {"w", "blocks"} /\ r.w = bare /\ r.blocks = <<>>
    BY <1>11
  <2>2. PICK B : below \in Seq(B)
    BY <1>16 DEF ChainReaches
  <2>3. below \o r.blocks = below /\ r.blocks \in Seq(B)
    BY <2>1, <2>2
  <2>4. \A i \in 1..Len(r.blocks) : FALSE
    BY <2>1
  <2> QED BY <1>16, <1>17, <2>1, <2>2, <2>3, <2>4 DEF Verified
<1>19. Verified(verified, below, miners, free) /\ (verified.w.ok => Len(verified.blocks) >= 1)
  <2>1. sent # <<>>
    BY <1>12, <1>14
  <2>2. sent \in Seq(R) /\ verified = FoldLeft(VerifyBlock, r, sent) /\ free = Free
    BY <1>1, <1>11, <1>14
  <2> QED BY <1>15, <1>18, <2>1, <2>2, VerifyAllLeads
<1>20. PICK q \in Seq(ValidTx) : q = removed \o (IF more THEN <<>> ELSE stores.pool)
  <2>1. PICK p \in Seq(ValidTx) : p = IF more THEN <<>> ELSE stores.pool
    <3>1. stores.pool \in Seq(ValidTx)
      BY <1>1 DEF Pooled, Failed, Reaches, BooksInv
    <3>2. <<>> \in Seq(ValidTx)
      OBVIOUS
    <3>3. CASE more
      BY <3>2, <3>3
    <3>4. CASE ~ more
      BY <3>1, <3>4
    <3> QED BY <3>3, <3>4
  <2>2. removed \o p \in Seq(ValidTx)
    BY ConcatProperties
  <2> QED BY <2>1, <2>2
<1>21. PICK x, v : x = verified.w /\ v = PutAllBack(x, q, taken, fresh)
  OBVIOUS
<1>22. stores' = v /\ v.ok
  BY <1>11, <1>20, <1>21
<1>23. PICK d : ChainReaches(chain', d, free) /\ Pooled(x, d, free)
  <2>1. CASE Failed(x)
    <3>1. Pooled(x, b, free)
      BY <2>1 DEF Pooled
    <3>2. v.ok => x.ok
      BY <1>1, <1>21, <3>1, PutAllBackStays
    <3> QED BY <1>22, <2>1, <3>2 DEF Failed
  <2>2. CASE ~ Failed(x)
    <3>1. PICK d : ChainReaches(below \o verified.blocks, d, free) /\ Keeps(x, d)
      BY <1>19, <1>21, <2>2 DEF Verified
    <3>2. Book(d, free)
      BY <3>1, ChainReachedIsBook
    <3>3. x.pool = <<>>
      BY <1>19, <1>21 DEF Verified
    <3>4. Pooled(x, d, free)
      BY <3>1, <3>2, <3>3, PooledAtFirst
    <3> QED BY <1>11, <3>1, <3>4
  <2> QED BY <2>1, <2>2
<1>24. Pooled(v, d, free) /\ (v.ok => x.ok)
  BY <1>1, <1>21, <1>23, PutAllBackStays
<1>25. setting' = setting /\ Free' = Free
  BY DEF SyncBlocks, Free
<1>26. BooksInv'
  BY <1>1, <1>22, <1>23, <1>24, <1>25 DEF BooksInv
<1>27. Last(chain').miner \in miners
  <2>1. PICK B : below \in Seq(B) /\ verified.blocks \in Seq(B)
    BY <1>19 DEF Verified
  <2>2. PICK m, k \in Nat : m = Len(below) /\ k = Len(verified.blocks) /\ k >= 1
    BY <1>19, <1>21, <1>22, <1>24, <2>1
  <2>3. PICK p : p = below \o verified.blocks
    OBVIOUS
  <2>4. Len(p) = m + k /\ p[m + k] = verified.blocks[k]
    BY <2>1, <2>2, <2>3
  <2>5. verified.blocks[k].miner \in miners
    BY <1>19, <2>2 DEF Verified
  <2> QED BY <1>11, <2>3, <2>4, <2>5 DEF Last
<1> QED BY <1>13, <1>26, <1>27

LEMMA BooksInvHolds ==
  /\ Init => BooksInv
  /\ BooksInv /\ [Next]_vars => BooksInv'
<1>1. Init => BooksInv
  BY BooksInit
<1>2. BooksInv /\ [Next]_vars => BooksInv'
  <2> SUFFICES ASSUME BooksInv, [Next]_vars
               PROVE  BooksInv'
    OBVIOUS
  <2>1. CASE \E t \in setting.offered : Receive(t)
    BY <2>1, ReceiveKeeps
  <2>2. CASE MineBlock
    BY <2>2, MineKeeps
  <2>3. CASE \E lcb \in 0..(Len(chain) - 1) : SyncBlocks(lcb)
    BY <2>3, SyncKeeps
  <2>4. CASE RevertLastBlock
    BY <2>4, RevertLastKeeps
  <2>5. CASE UNCHANGED vars
    BY <2>5 DEF BooksInv, Free, vars
  <2> QED BY <2>1, <2>2, <2>3, <2>4, <2>5 DEF Next
<1> QED BY <1>1, <1>2

\* What the invariant says of the stores: the chain leads to a book a, the pool from
\* there to b, and the stores keep b.
LEMMA Accounted ==
  ASSUME BooksInv
  PROVE  \E a, b : /\ ChainReaches(chain, a, Free) /\ Reaches(a, stores.pool, b, Free)
                   /\ Keeps(stores, b) /\ Book(a, Free) /\ Book(b, Free)
                   /\ a.length = Len(chain) /\ b.length = Len(chain)
<1>1. PICK a : ChainReaches(chain, a, Free) /\ Pooled(stores, a, Free)
  BY DEF BooksInv
<1>2. PICK b : Reaches(a, stores.pool, b, Free) /\ Keeps(stores, b)
  BY <1>1 DEF BooksInv, Pooled, Failed
<1>3. Book(a, Free) /\ a.length = Len(chain)
  BY <1>1, ChainReachedIsBook
<1>4. Book(b, Free)
  BY <1>2, ReachedIsBook
<1>5. b.length = Len(chain)
  BY <1>2, <1>3 DEF Reaches
<1> QED BY <1>1, <1>2, <1>3, <1>4, <1>5

-----------------------------------------------------------------------------
(* What holds at every state *)

\* No account is overdrawn, and what documents rest on is there, whatever is received,
\* mined, taken off and put back: a transaction is undone only together with all that
\* came after it, so that no revert takes away what something else names.
THEOREM TypesHold == Spec => []TypeOK
<1>1. BooksInv => TypeOK
  <2> SUFFICES ASSUME BooksInv
               PROVE  TypeOK
    OBVIOUS
  <2>1. PICK a, b : /\ Reaches(a, stores.pool, b, Free) /\ Keeps(stores, b)
                    /\ Book(b, Free) /\ b.length = Len(chain)
    BY Accounted
  <2>2. stores.balance \in [Address -> Nat] /\ stores.ok /\ stores.length = Len(chain)
    BY <2>1 DEF Book, Keeps
  <2>3. IsAuthorityStore(stores.auth)
    <3>1. PICK s \in AuthStore : s = stores.auth
      BY <2>1 DEF Book, Keeps, Sound
    <3>2. DOMAIN s \subseteq Address
      BY DEF AuthStore
    <3>3. \A o \in DOMAIN s : /\ o \in Address /\ DOMAIN s[o] \subseteq Address
                              /\ s[o] \in [DOMAIN s[o] -> AuthRecord]
      BY <3>2, EntryType
    <3>4. \A o \in DOMAIN s : \A c \in DOMAIN s[o] :
            s[o][c] \in [full : BOOLEAN, kinds : SUBSET Kind]
      BY <3>3 DEF AuthRecord
    <3> QED BY <3>1, <3>3, <3>4 DEF IsAuthorityStore
  <2>4. /\ DOMAIN stores.roles \subseteq Address
        /\ \A u \in DOMAIN stores.units :
             ToSet(stores.units[u].files) \subseteq DOMAIN stores.files
    <3>1. Documented(b) /\ b.roles = stores.roles /\ b.files = stores.files /\ b.units = stores.units
      BY <2>1 DEF Book, Keeps
    <3> QED BY <3>1 DEF Documented
  <2>5. stores.holders \subseteq (DOMAIN stores.files) \X {x \in Address : RoleOf(stores, x) = "storage"}
    <3>1. HoldersStand(b) /\ b.roles = stores.roles /\ b.files = stores.files /\ b.holders = stores.holders
      BY <2>1 DEF Book, Keeps
    <3> QED BY <3>1 DEF HoldersStand, RoleOf
  <2>6. stores.pool \in Seq(Tx)
    <3>1. stores.pool \in Seq(ValidTx) /\ ValidTx \subseteq Tx
      BY <2>1 DEF Reaches, ValidTx
    <3> QED BY <3>1
  <2> QED BY <2>2, <2>3, <2>4, <2>5, <2>6 DEF TypeOK
<1> QED BY <1>1, BooksInvHolds, PTL DEF Spec

\* The stores are those of the chain applied from the genesis block and then the pool:
\* what apply_transaction and its revert do to roles, documents, holders, authorities
\* and accounts, in any order of handlers, adds up to a replay.
THEOREM StoresAreAReplay == Spec => []StoresAreReplay
<1>1. BooksInv => StoresAreReplay
  <2> SUFFICES ASSUME BooksInv
               PROVE  StoresAreReplay
    OBVIOUS
  <2>1. PICK a, b : /\ ChainReaches(chain, a, Free) /\ Reaches(a, stores.pool, b, Free)
                    /\ Keeps(stores, b) /\ Book(b, Free)
    BY Accounted
  <2>2. FoldLeft(ReplayBlock, FirstStores, Tail(chain)) = a
    BY <2>1, ChainReplayed
  <2>3. Replay = b
    <3>1. FoldLeft(ReplayTx, a, stores.pool) = b
      BY <2>1, ReplayedIs
    <3> QED BY <2>2, <3>1 DEF Replay
  <2>4. PICK s : s = [stores EXCEPT !.requests = <<>>, !.pool = <<>>]
    OBVIOUS
  <2>5. /\ s = [x \in StoreFields |-> s[x]] /\ s.requests = <<>> /\ s.pool = <<>>
        /\ s.balance = b.balance /\ s.auth = b.auth /\ s.roles = b.roles /\ s.files = b.files
        /\ s.units = b.units /\ s.holders = b.holders /\ s.length = b.length /\ s.ok = TRUE
    BY <2>1, <2>4 DEF Keeps, StoreFields
  <2>6. b = [x \in StoreFields |-> b[x]] /\ b.requests = <<>> /\ b.pool = <<>> /\ b.ok = TRUE
    BY <2>1 DEF Book
  <2>7. \A x \in StoreFields : s[x] = b[x]
    BY <2>5, <2>6 DEF StoreFields
  <2>8. s = b
    BY <2>5, <2>6, <2>7
  <2> QED BY <2>3, <2>4, <2>8 DEF StoresAreReplay
<1> QED BY <1>1, BooksInvHolds, PTL DEF Spec

\* The last block can always be taken off: revert_block computes the rewards that the
\* block holds, although the stores have gone on since, and no action_revert throws.
THEOREM HeadComesOff == Spec => []HeadCanBeTakenOff
<1>1. BooksInv => HeadCanBeTakenOff
  <2> SUFFICES ASSUME BooksInv, Len(chain) > 1
               PROVE  RevertBlock(RevertPool(stores), Last(chain)).ok
    BY DEF HeadCanBeTakenOff
  <2>1. PICK a, free : ChainReaches(chain, a, free) /\ Pooled(stores, a, free) /\ stores.ok
    BY DEF BooksInv
  <2>2. PICK w : w = RevertPool(stores) /\ Keeps(w, a)
    BY <2>1, RevertPoolLeads
  <2>3. PICK H : BlocksLeading(H, chain, free) /\ H[Len(chain)] = a
    BY <2>1 DEF ChainReaches
  <2>4. PICK N \in Nat : N = Len(chain)
    BY <2>1 DEF ChainReaches
  <2>5. PICK block, d : block = chain[N] /\ d = H[N - 1]
    OBVIOUS
  <2>6. BlockLeads(d, block, a, free)
    <3>1. N \in 2..Len(chain)
      BY <2>4
    <3> QED BY <2>3, <2>4, <2>5, <3>1 DEF BlocksLeading
  <2>7. PICK x : x = RevertBlock(w, block)
    OBVIOUS
  <2>8. Keeps(x, d)
    BY <2>2, <2>6, <2>7, RevertBlockLeads
  <2> QED BY <2>2, <2>4, <2>5, <2>7, <2>8 DEF Last, Keeps
<1> QED BY <1>1, BooksInvHolds, PTL DEF Spec

\* Every block pays its emission, no more and no less, whatever is reported, however
\* many share it and however the shares are rounded.
THEOREM EmissionIsAlwaysPaid == Spec => []EmissionIsPaid
<1>1. BooksInv => EmissionIsPaid
  <2> SUFFICES ASSUME BooksInv, NEW n \in 2..Len(chain)
               PROVE  SumFunction([a \in Address |-> Paid(chain[n].rewards, a)]) = Emission
    BY DEF EmissionIsPaid
  <2>1. PICK b, free : ChainReaches(chain, b, free)
    BY DEF BooksInv
  <2>2. PICK H : BlocksLeading(H, chain, free)
    BY <2>1 DEF ChainReaches
  <2>3. PICK block, a, d : block = chain[n] /\ a = H[n - 1] /\ d = H[n]
    OBVIOUS
  <2>4. BlockLeads(a, block, d, free)
    BY <2>2, <2>3 DEF BlocksLeading
  <2>5. SumFunction([x \in Address |-> Paid(block.rewards, x)]) = Emission
    BY <2>4, BlockIsPaid
  <2> QED BY <2>3, <2>5
<1> QED BY <1>1, BooksInvHolds, PTL DEF Spec

\* No account is ever without somebody who may change its authorizations, whatever is
\* received, mined, taken off and put back: an update is never made by the one whom it
\* is about, and undoing it finds the authorities as it left them.
THEOREM SomebodyAlwaysDecides == Spec => []SomebodyDecides
<1>1. BooksInv => SomebodyDecides
  <2> SUFFICES ASSUME BooksInv
               PROVE  SomebodyDecides
    OBVIOUS
  <2>1. PICK b : Keeps(stores, b) /\ Book(b, Free)
    BY Accounted
  <2>2. stores.auth \in Sound
    BY <2>1 DEF Book, Keeps
  <2> QED BY <2>2 DEF SomebodyDecides, Sound, Decided
<1> QED BY <1>1, BooksInvHolds, PTL DEF Spec

\* What this node mines a peer with the same stores takes over: the transactions that
\* mine_block tried and kept apply to a peer too, in their order, with none set aside,
\* the rewards come out the same, and the miner has the coins and no role.
THEOREM MinedIsAccepted == Spec => MinedIsAcceptable
<1> DEFINE Accepted == Len(chain') = Len(chain) + 1 /\ chain'[Len(chain')].miner = setting.address =>
                         VerifyBlock([w |-> RevertPool(stores), blocks |-> chain],
                                     Last(chain')).blocks = chain'
<1>1. BooksInv /\ [Next]_vars => [Accepted]_vars
  <2> SUFFICES ASSUME BooksInv, Next
               PROVE  Accepted
    OBVIOUS
  <2>1. PICK A : chain \in Seq(A)
    BY DEF BooksInv, ChainReaches
  <2>2. PICK N \in Nat : N = Len(chain)
    BY <2>1
  <2>3. CASE \E t \in setting.offered : Receive(t)
    <3>1. chain' = chain
      BY <2>3 DEF Receive
    <3> QED BY <2>2, <3>1
  <2>4. CASE MineBlock
    BY <2>4, MineKeeps DEF TakenOver
  <2>5. CASE \E lcb \in 0..(Len(chain) - 1) : SyncBlocks(lcb)
    <3>1. Last(chain').miner # setting.address
      BY <2>5, SyncKeeps
    <3> QED BY <3>1 DEF Last
  <2>6. CASE RevertLastBlock
    <3>1. chain' = SubSeq(chain, 1, N - 1) /\ N > 1
      BY <2>2, <2>6 DEF RevertLastBlock, Front
    <3>2. Len(chain') = N - 1
      BY <2>1, <2>2, <3>1
    <3> QED BY <2>2, <3>2
  <2> QED BY <2>3, <2>4, <2>5, <2>6 DEF Next
<1> QED BY <1>1, BooksInvHolds, PTL DEF Spec, MinedIsAcceptable
=============================================================================
