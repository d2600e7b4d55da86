------------------------ MODULE StorageRequestsProofs ------------------------
(***************************************************************************)
(* Proofs about StorageRequests, for all files and channels:               *)
(*                                                                         *)
(*   OneOwner      a file that is being fetched is waited for in one place *)
(*   LeaveSettled  a request leaves the list only when it is settled       *)
(*                                                                         *)
(* Both need to know what may stand in the queue of the node's slave and   *)
(* on its way to the storage and back: TypeInv and OneInLine say it.       *)
(***************************************************************************)
EXTENDS StorageRequests, SequenceTheorems, FunctionTheorems, FiniteSetTheorems, TLAPS

\* What may wait in the queue of the slave.
SlaveAction ==
    {UrisAction(asks) : asks \in SUBSET Wanted}
        \cup {SaveAction(f, {}) : f \in File}
        \cup {SaveAction(p[1], {p}) : p \in Wanted}
        \cup {DeleteAction(f) : f \in File}

\* What may be on its way to the storage.
StorageMessage == {m \in [kind : {"uris", "save", "delete", "verified"}, file : File \cup {None}] :
                      m.kind = "save" => m.file \in File}
StorageAnswer  == {m \in [kind : {"uris", "address", "duplicate", "missing", "done"},
                          file : File \cup {None}, has : SUBSET File] :
                      m.kind = "address" => m.file \in File}

\* The types of the variables; the queues hold what the code puts there.
TypeInv ==
    /\ managed \in BOOLEAN
    /\ requests \in [File -> Channel \cup {None}]
    /\ saved \in [File -> Channel \cup {None}]
    /\ fetching \in SUBSET Wanted
    /\ requesting \in [DOMAIN requesting -> BOOLEAN]
    /\ slave \in Seq(SlaveAction)
    /\ toStorage \in Seq(StorageMessage)
    /\ toNode \in Seq(StorageAnswer)
    /\ files \in SUBSET File
    /\ announced \in SUBSET File
    /\ orderly \in BOOLEAN

\* A wanted pair is a file and a channel.
LEMMA WantedType == \A p \in Wanted : p[1] \in File /\ p[2] \in Channel /\ p = <<p[1], p[2]>>
  BY RequestsAssumption

\* A queued action asks for wanted pairs, and a save for the one pair it is made of.
LEMMA SlaveActionShape ==
    ASSUME NEW a \in SlaveAction
    PROVE  /\ a.asks \in SUBSET Wanted
           /\ a.kind \in {"uris", "save", "delete"}
           /\ a.file \in File \cup {None}
           /\ a.kind = "uris" => a = UrisAction(a.asks)
           /\ a.kind = "delete" => a.asks = {} /\ a.file \in File
           /\ a.kind = "save" => /\ a.file \in File
                                 /\ \A p \in a.asks : a = SaveAction(p[1], {p})
           /\ Message(a) \in StorageMessage
  BY WantedType DEF SlaveAction, UrisAction, SaveAction, DeleteAction, Message, StorageMessage

\* An empty queue asks for nothing.
LEMMA EmptyAsks == AsksOf(<<>>) = {}
  BY DEF AsksOf

\* Adding an action to the queue adds what it asks for.
LEMMA AppendAsks ==
    ASSUME NEW queue \in Seq(SlaveAction), NEW a \in SlaveAction
    PROVE  /\ Append(queue, a) \in Seq(SlaveAction)
           /\ Len(Append(queue, a)) = Len(queue) + 1
           /\ \A i \in DOMAIN Append(queue, a) :
                \/ i \in DOMAIN queue /\ Append(queue, a)[i] = queue[i]
                \/ i = Len(queue) + 1 /\ Append(queue, a)[i] = a
           /\ \A i \in DOMAIN queue : i \in DOMAIN Append(queue, a) /\ Append(queue, a)[i] = queue[i]
           /\ Append(queue, a)[Len(queue) + 1] = a
           /\ AsksOf(Append(queue, a)) = AsksOf(queue) \cup a.asks
<1>1. /\ Append(queue, a) \in Seq(SlaveAction)
      /\ Len(Append(queue, a)) = Len(queue) + 1
      /\ \A i \in DOMAIN Append(queue, a) :
           \/ i \in DOMAIN queue /\ Append(queue, a)[i] = queue[i]
           \/ i = Len(queue) + 1 /\ Append(queue, a)[i] = a
      /\ \A i \in DOMAIN queue : i \in DOMAIN Append(queue, a) /\ Append(queue, a)[i] = queue[i]
      /\ Append(queue, a)[Len(queue) + 1] = a
      /\ Len(queue) + 1 \in DOMAIN Append(queue, a)
  OBVIOUS
<1>2. AsksOf(Append(queue, a)) = AsksOf(queue) \cup a.asks
  BY <1>1 DEF AsksOf
<1> QED BY <1>1, <1>2

\* Taking the first action off takes off what it asks for, where no two ask for the same.
LEMMA TailAsks ==
    ASSUME NEW queue \in Seq(SlaveAction), queue # <<>>,
           \A i, j \in DOMAIN queue : i # j => queue[i].asks \cap queue[j].asks = {}
    PROVE  /\ Tail(queue) \in Seq(SlaveAction)
           /\ Head(queue) \in SlaveAction
           /\ 1 \in DOMAIN queue /\ Head(queue) = queue[1]
           /\ \A i \in DOMAIN Tail(queue) : i + 1 \in DOMAIN queue /\ Tail(queue)[i] = queue[i + 1]
           /\ \A i \in DOMAIN queue : i # 1 => /\ i - 1 \in DOMAIN Tail(queue)
                                               /\ Tail(queue)[i - 1] = queue[i]
           /\ Head(queue).asks \subseteq AsksOf(queue)
           /\ AsksOf(Tail(queue)) = AsksOf(queue) \ Head(queue).asks
<1>1. /\ Tail(queue) \in Seq(SlaveAction)
      /\ Head(queue) \in SlaveAction
      /\ 1 \in DOMAIN queue /\ Head(queue) = queue[1]
      /\ \A i \in DOMAIN Tail(queue) :
           i + 1 \in DOMAIN queue /\ i + 1 # 1 /\ Tail(queue)[i] = queue[i + 1]
      /\ \A i \in DOMAIN queue : i # 1 => /\ i - 1 \in DOMAIN Tail(queue)
                                          /\ Tail(queue)[i - 1] = queue[i]
  OBVIOUS
<1>2. Head(queue).asks \subseteq AsksOf(queue)
  BY <1>1 DEF AsksOf
<1>3. AsksOf(Tail(queue)) \subseteq AsksOf(queue) \ Head(queue).asks
  BY <1>1 DEF AsksOf
<1>4. AsksOf(queue) \ Head(queue).asks \subseteq AsksOf(Tail(queue))
  <2> SUFFICES ASSUME NEW p \in AsksOf(queue) \ Head(queue).asks
               PROVE  p \in AsksOf(Tail(queue))
    OBVIOUS
  <2>1. PICK i \in DOMAIN queue : p \in queue[i].asks
    BY DEF AsksOf
  <2>2. i # 1
    BY <1>1, <2>1
  <2>3. p \in Tail(queue)[i - 1].asks /\ i - 1 \in DOMAIN Tail(queue)
    BY <1>1, <2>1, <2>2
  <2> QED BY <2>3 DEF AsksOf
<1> QED BY <1>1, <1>2, <1>3, <1>4

\* The inductive invariant for the owners of a request.
Owned == TypeInv /\ RequestsHaveOneOwner

\* The entries that are left, with the values they had.
LEMMA WithoutShape ==
    ASSUME NEW entries
    PROVE  /\ DOMAIN Without(entries) = DOMAIN requesting \ entries
           /\ \A p \in DOMAIN requesting \ entries : Without(entries)[p] = requesting[p]
           /\ requesting \in [DOMAIN requesting -> BOOLEAN] =>
                Without(entries) \in [DOMAIN Without(entries) -> BOOLEAN]
  BY DEF Without

\* Taking no entry out leaves the map as it is.
LEMMA WithoutNothing == TypeInv => Without({}) = requesting
  BY DEF Without, TypeInv

\* The slave completes its first action: what was found is fetched, the rest is free.
LEMMA CompletedKeepsOwners ==
    ASSUME Owned, slave # <<>>, slave' = Tail(slave),
           NEW found \in SUBSET Head(slave).asks,
           found = {} \/ Head(slave).kind = "uris",
           fetching' = fetching \cup found,
           requesting' = Without(Head(slave).asks \ found)
    PROVE  /\ RequestsHaveOneOwner'
           /\ requesting' \in [DOMAIN requesting' -> BOOLEAN]
           /\ slave' \in Seq(SlaveAction)
           /\ fetching' \in SUBSET Wanted
<1> DEFINE asks == Head(slave).asks
<1> USE DEF Owned
<1>1. /\ slave \in Seq(SlaveAction)
      /\ \A i, j \in DOMAIN slave : i # j => slave[i].asks \cap slave[j].asks = {}
  BY DEF TypeInv, RequestsHaveOneOwner
<1>2. /\ slave' \in Seq(SlaveAction)
      /\ Head(slave) \in SlaveAction
      /\ 1 \in DOMAIN slave /\ Head(slave) = slave[1]
      /\ \A i \in DOMAIN slave' : i + 1 \in DOMAIN slave /\ slave'[i] = slave[i + 1]
      /\ \A i \in DOMAIN slave : i # 1 => i - 1 \in DOMAIN slave' /\ slave'[i - 1] = slave[i]
      /\ asks \subseteq AsksOf(slave)
      /\ AsksOf(slave') = AsksOf(slave) \ asks
  BY <1>1, TailAsks
<1>3. /\ DOMAIN requesting' = DOMAIN requesting \ (asks \ found)
      /\ \A p \in DOMAIN requesting' : requesting'[p] = requesting[p]
      /\ requesting' \in [DOMAIN requesting' -> BOOLEAN]
  BY WithoutShape DEF TypeInv
<1>4. fetching' \in SUBSET Wanted
  BY <1>2, SlaveActionShape DEF TypeInv
<1>5. DOMAIN requesting' = fetching' \cup AsksOf(slave') /\ fetching' \cap AsksOf(slave') = {}
  BY <1>2, <1>3 DEF RequestsHaveOneOwner
<1>6. \A i, j \in DOMAIN slave' : i # j => slave'[i].asks \cap slave'[j].asks = {}
  <2> TAKE i, j \in DOMAIN slave'
  <2>1. i \in Int /\ j \in Int
    BY <1>2
  <2> QED BY <1>1, <1>2, <2>1
<1>7. ASSUME NEW p \in AsksOf(slave')
      PROVE  requesting'[p] <=> \E i \in DOMAIN slave' : slave'[i] = SaveAction(p[1], {p})
  <2>1. p \in AsksOf(slave) /\ p \notin asks /\ requesting'[p] = requesting[p]
    BY <1>2, <1>3, <1>5
  <2>2. requesting[p] <=> \E i \in DOMAIN slave : slave[i] = SaveAction(p[1], {p})
    BY <2>1 DEF RequestsHaveOneOwner
  <2>3. \A i \in DOMAIN slave : slave[i] = SaveAction(p[1], {p}) => i # 1
    BY <2>1, <1>2 DEF SaveAction
  <2>4. (\E i \in DOMAIN slave : slave[i] = SaveAction(p[1], {p}))
          <=> \E i \in DOMAIN slave' : slave'[i] = SaveAction(p[1], {p})
    BY <1>2, <2>3, ZenonT(30)
  <2> QED BY <2>1, <2>2, <2>4, Zenon
<1>8. \A p \in found : ~ requesting[p]
  <2> SUFFICES ASSUME NEW p \in found, requesting[p]
               PROVE  FALSE
    OBVIOUS
  <2>1. p \in AsksOf(slave)
    BY <1>2
  <2>2. PICK i \in DOMAIN slave : slave[i] = SaveAction(p[1], {p})
    BY <2>1 DEF RequestsHaveOneOwner
  <2>3. p \in slave[i].asks /\ slave[i].kind = "save"
    BY <2>2 DEF SaveAction
  <2> QED BY <1>1, <1>2, <2>3
<1>9. \A p, q \in fetching' : p # q /\ p[2] = q[2] => ~ (requesting'[p] /\ requesting'[q])
  <2> TAKE p, q \in fetching'
  <2>1. requesting'[p] = requesting[p] /\ requesting'[q] = requesting[q]
    BY <1>3, <1>5
  <2> QED BY <1>8, <2>1 DEF RequestsHaveOneOwner
<1> QED BY <1>2, <1>3, <1>4, <1>5, <1>6, <1>7, <1>9 DEF RequestsHaveOneOwner

\* The session goes: what is left is what is being fetched, with what the head of
\* the queue has just found missing.
LEMMA DroppedKeepsOwners ==
    ASSUME Owned, slave' = <<>>,
           NEW found \in SUBSET AsksOf(slave),
           found = {} \/ (slave # <<>> /\ found \subseteq Head(slave).asks
                                       /\ Head(slave).kind = "uris"),
           fetching' = fetching \cup found,
           requesting' = Without(AsksOf(slave) \ found)
    PROVE  /\ RequestsHaveOneOwner'
           /\ requesting' \in [DOMAIN requesting' -> BOOLEAN]
           /\ slave' \in Seq(SlaveAction)
           /\ fetching' \in SUBSET Wanted
<1> USE DEF Owned
<1>1. /\ slave \in Seq(SlaveAction)
      /\ \A i, j \in DOMAIN slave : i # j => slave[i].asks \cap slave[j].asks = {}
      /\ AsksOf(slave') = {} /\ DOMAIN slave' = {} /\ slave' \in Seq(SlaveAction)
  BY EmptyAsks DEF TypeInv, RequestsHaveOneOwner
<1>2. AsksOf(slave) \in SUBSET Wanted
  BY <1>1, SlaveActionShape DEF AsksOf
<1>3. /\ DOMAIN requesting' = DOMAIN requesting \ (AsksOf(slave) \ found)
      /\ \A p \in DOMAIN requesting' : requesting'[p] = requesting[p]
      /\ requesting' \in [DOMAIN requesting' -> BOOLEAN]
  BY WithoutShape DEF TypeInv
<1>4. fetching' \in SUBSET Wanted
  BY <1>2 DEF TypeInv
<1>5. DOMAIN requesting' = fetching'
  BY <1>3 DEF RequestsHaveOneOwner
<1>6. \A p \in found : ~ requesting[p]
  <2> SUFFICES ASSUME NEW p \in found, requesting[p]
               PROVE  FALSE
    OBVIOUS
  <2>1. PICK i \in DOMAIN slave : slave[i] = SaveAction(p[1], {p})
    BY DEF RequestsHaveOneOwner
  <2>2. p \in slave[i].asks /\ slave[i].kind = "save"
    BY <2>1 DEF SaveAction
  <2>3. 1 \in DOMAIN slave /\ slave[1] = Head(slave) /\ p \in slave[1].asks
        /\ slave[1].kind = "uris"
    BY <1>1
  <2> QED BY <1>1, <2>2, <2>3
<1>7. \A p, q \in fetching' : p # q /\ p[2] = q[2] => ~ (requesting'[p] /\ requesting'[q])
  <2> TAKE p, q \in fetching'
  <2>1. requesting'[p] = requesting[p] /\ requesting'[q] = requesting[q]
    BY <1>3, <1>5
  <2> QED BY <1>6, <2>1 DEF RequestsHaveOneOwner
<1> QED BY <1>1, <1>3, <1>4, <1>5, <1>7 DEF RequestsHaveOneOwner

\* An action is added to the queue.  It asks for files that nobody was responsible
\* for, or takes over one that was being fetched.
LEMMA AddedKeepsOwners ==
    ASSUME Owned, NEW a \in SlaveAction, slave' = Append(slave, a),
           a.asks \cap AsksOf(slave) = {},
           fetching' = fetching \ a.asks,
           requesting' \in [(DOMAIN requesting) \cup a.asks -> BOOLEAN],
           \A p \in DOMAIN requesting \ a.asks : requesting'[p] = requesting[p],
           \A p \in a.asks : requesting'[p] <=> (a = SaveAction(p[1], {p}))
    PROVE  /\ RequestsHaveOneOwner'
           /\ requesting' \in [DOMAIN requesting' -> BOOLEAN]
           /\ slave' \in Seq(SlaveAction)
           /\ fetching' \in SUBSET Wanted
<1> USE DEF Owned
<1>1. /\ slave \in Seq(SlaveAction)
      /\ \A i, j \in DOMAIN slave : i # j => slave[i].asks \cap slave[j].asks = {}
  BY DEF TypeInv, RequestsHaveOneOwner
<1>2. /\ slave' \in Seq(SlaveAction)
      /\ Len(slave) + 1 \in DOMAIN slave' /\ Len(slave) + 1 \notin DOMAIN slave
      /\ \A i \in DOMAIN slave' :
           \/ i \in DOMAIN slave /\ slave'[i] = slave[i]
           \/ i = Len(slave) + 1 /\ slave'[i] = a
      /\ \A i \in DOMAIN slave : i \in DOMAIN slave' /\ slave'[i] = slave[i]
      /\ slave'[Len(slave) + 1] = a
      /\ AsksOf(slave') = AsksOf(slave) \cup a.asks
  BY <1>1, AppendAsks
<1>3. DOMAIN requesting = fetching \cup AsksOf(slave) /\ fetching \cap AsksOf(slave) = {}
  BY DEF RequestsHaveOneOwner
<1>4. DOMAIN requesting' = fetching' \cup AsksOf(slave') /\ fetching' \cap AsksOf(slave') = {}
  BY <1>2, <1>3
<1>5. \A i \in DOMAIN slave : slave[i].asks \cap a.asks = {}
  BY DEF AsksOf
<1>6. \A i, j \in DOMAIN slave' : i # j => slave'[i].asks \cap slave'[j].asks = {}
  BY <1>1, <1>2, <1>5
<1>0. ASSUME NEW b
      PROVE  (\E i \in DOMAIN slave' : slave'[i] = b)
               <=> (a = b \/ \E i \in DOMAIN slave : slave[i] = b)
  <2>1. ASSUME NEW i \in DOMAIN slave', slave'[i] = b
        PROVE  a = b \/ \E j \in DOMAIN slave : slave[j] = b
    BY <1>2, <2>1
  <2>2. ASSUME NEW i \in DOMAIN slave, slave[i] = b
        PROVE  \E j \in DOMAIN slave' : slave'[j] = b
    BY <1>2, <2>2
  <2>3. ASSUME a = b
        PROVE  \E j \in DOMAIN slave' : slave'[j] = b
    BY <1>2, <2>3
  <2> QED BY <2>1, <2>2, <2>3, Zenon
<1>7. ASSUME NEW p \in AsksOf(slave')
      PROVE  requesting'[p] <=> \E i \in DOMAIN slave' : slave'[i] = SaveAction(p[1], {p})
  <2>1. CASE p \in a.asks
    <3>1. \A i \in DOMAIN slave : slave[i] # SaveAction(p[1], {p})
      BY <1>5, <2>1 DEF SaveAction
    <3>2. (\E i \in DOMAIN slave' : slave'[i] = SaveAction(p[1], {p}))
            <=> a = SaveAction(p[1], {p})
      BY <1>0, <3>1, Zenon
    <3> QED BY <2>1, <3>2
  <2>2. CASE p \notin a.asks
    <3>1. p \in AsksOf(slave) /\ p \in DOMAIN requesting
      BY <1>2, <1>3, <2>2
    <3>2. requesting[p] <=> \E i \in DOMAIN slave : slave[i] = SaveAction(p[1], {p})
      BY <3>1 DEF RequestsHaveOneOwner
    <3>3. requesting'[p] = requesting[p]
      BY <2>2, <3>1
    <3>4. a # SaveAction(p[1], {p})
      BY <2>2 DEF SaveAction
    <3>5. (\E i \in DOMAIN slave : slave[i] = SaveAction(p[1], {p}))
            <=> \E i \in DOMAIN slave' : slave'[i] = SaveAction(p[1], {p})
      BY <1>0, <3>4, Zenon
    <3> QED BY <3>2, <3>3, <3>5, Zenon
  <2> QED BY <2>1, <2>2
<1>8. \A p, q \in fetching' : p # q /\ p[2] = q[2] => ~ (requesting'[p] /\ requesting'[q])
  <2> TAKE p, q \in fetching'
  <2>1. requesting'[p] = requesting[p] /\ requesting'[q] = requesting[q]
        /\ p \in fetching /\ q \in fetching
    BY <1>3
  <2> QED BY <2>1 DEF RequestsHaveOneOwner
<1> QED BY <1>2, <1>4, <1>6, <1>7, <1>8 DEF RequestsHaveOneOwner, TypeInv

\* Of what is being fetched, some goes; the queue stays.
LEMMA FetchedKeepsOwners ==
    ASSUME Owned, UNCHANGED slave,
           NEW gone \in SUBSET fetching,
           fetching' = fetching \ gone,
           requesting' = Without(gone)
    PROVE  RequestsHaveOneOwner' /\ requesting' \in [DOMAIN requesting' -> BOOLEAN]
<1> USE DEF Owned
<1>1. /\ DOMAIN requesting' = DOMAIN requesting \ gone
      /\ \A p \in DOMAIN requesting' : requesting'[p] = requesting[p]
      /\ requesting' \in [DOMAIN requesting' -> BOOLEAN]
  BY WithoutShape DEF TypeInv
<1>2. AsksOf(slave') = AsksOf(slave)
  BY DEF AsksOf
<1>3. DOMAIN requesting' = fetching' \cup AsksOf(slave')
  BY <1>1, <1>2 DEF RequestsHaveOneOwner
<1>4. \A p \in AsksOf(slave') :
        requesting'[p] <=> \E i \in DOMAIN slave' : slave'[i] = SaveAction(p[1], {p})
  <2> TAKE p \in AsksOf(slave')
  <2>1. requesting'[p] = requesting[p]
    BY <1>1, <1>3
  <2> QED BY <1>2, <2>1 DEF RequestsHaveOneOwner
<1>5. \A p, q \in fetching' : p # q /\ p[2] = q[2] => ~ (requesting'[p] /\ requesting'[q])
  <2> TAKE p, q \in fetching'
  <2>1. requesting'[p] = requesting[p] /\ requesting'[q] = requesting[q]
    BY <1>1, <1>3
  <2> QED BY <2>1 DEF RequestsHaveOneOwner
<1> QED BY <1>1, <1>2, <1>3, <1>4, <1>5 DEF RequestsHaveOneOwner

\* A step that leaves the queue, the map and the fetches alone.
LEMMA StaysOwned ==
    ASSUME Owned, UNCHANGED <<slave, requesting, fetching>>
    PROVE  /\ RequestsHaveOneOwner'
           /\ requesting' \in [DOMAIN requesting' -> BOOLEAN]
           /\ slave' \in Seq(SlaveAction)
           /\ fetching' \in SUBSET Wanted
<1>1. AsksOf(slave') = AsksOf(slave)
  BY DEF AsksOf
<1>2. slave' = slave /\ requesting' = requesting /\ fetching' = fetching
  OBVIOUS
<1>3. RequestsHaveOneOwner'
  BY <1>1, <1>2, Zenon DEF Owned, RequestsHaveOneOwner
<1> QED BY <1>3 DEF Owned, TypeInv

\* Taking requests off the list keeps the types of the list and of its saved copy.
LEMMA PopType ==
    ASSUME TypeInv, NEW entries, Pop(entries)
    PROVE  /\ requests' \in [File -> Channel \cup {None}]
           /\ saved' \in [File -> Channel \cup {None}]
  BY DEF TypeInv, Pop

\* Queueing an action keeps the types of the messages.
LEMMA AddToSlaveType ==
    ASSUME TypeInv, NEW a \in SlaveAction, AddToSlave(a)
    PROVE  toStorage' \in Seq(StorageMessage) /\ toNode' \in Seq(StorageAnswer)
<1>1. Message(a) \in StorageMessage
  BY SlaveActionShape
<1> QED BY <1>1 DEF TypeInv, AddToSlave

\* Going on to the next action keeps the types of the messages.
LEMMA NextInSlaveType ==
    ASSUME TypeInv, slave # <<>>, NextInSlave
    PROVE  toStorage' \in Seq(StorageMessage) /\ slave' = Tail(slave)
<1>1. slave \in Seq(SlaveAction) /\ toStorage \in Seq(StorageMessage)
  BY DEF TypeInv
<1>2. CASE Len(slave) = 1
  BY <1>1, <1>2 DEF NextInSlave
<1>3. CASE Len(slave) # 1
  <2>1. Len(slave) \in Nat /\ Len(slave) # 0 /\ Len(slave) # 1
    BY <1>1, <1>3, EmptySeq, LenProperties
  <2>2. \A n \in Nat : n # 0 /\ n # 1 => 2 \in 1..n
    OBVIOUS
  <2>3. slave[2] \in SlaveAction
    <3>1. 2 \in 1..Len(slave)
      BY <2>1, <2>2
    <3> QED BY <1>1, <3>1, ElementOfSeq
  <2>4. Message(slave[2]) \in StorageMessage
    BY <2>3, SlaveActionShape
  <2> QED BY <1>1, <1>3, <2>4 DEF NextInSlave
<1> QED BY <1>2, <1>3

\* Nothing is requested at the start.
LEMMA OwnedInit == Init => Owned
<1> SUFFICES ASSUME Init PROVE Owned
  OBVIOUS
<1>1. AsksOf(slave) = {}
  BY EmptyAsks DEF Init
<1>2. TypeInv
  BY DEF Init, TypeInv
<1>3. RequestsHaveOneOwner
  BY <1>1 DEF Init, RequestsHaveOneOwner
<1> QED BY <1>2, <1>3 DEF Owned

\* The steps of the list of requests, of the storage and of late answers leave the owners alone.
LEMMA ListStepOwned ==
    ASSUME Owned,
           \/ \E p \in Wanted : ContentApplied(p[1], p[2]) \/ StoreCommand(p[1], p[2])
           \/ ChainHandlerFails
           \/ TellVerifiedChannels
           \/ Serve
           \/ SlaveIgnores
    PROVE  Owned'
<1>1. /\ RequestsHaveOneOwner'
      /\ requesting' \in [DOMAIN requesting' -> BOOLEAN]
      /\ slave' \in Seq(SlaveAction)
      /\ fetching' \in SUBSET Wanted
  BY StaysOwned DEF ContentApplied, StoreCommand, ChainHandlerFails, TellVerifiedChannels,
                    Serve, SlaveIgnores, line
<1> USE <1>1 DEF Owned, list, line
<1>2. ASSUME NEW p \in Wanted, ContentApplied(p[1], p[2]) \/ StoreCommand(p[1], p[2])
      PROVE  TypeInv'
  BY <1>2, WantedType, ZenonT(30) DEF TypeInv, ContentApplied, StoreCommand, WithRequest
<1>3. CASE ChainHandlerFails
  BY <1>3 DEF TypeInv, ChainHandlerFails
<1>4. CASE TellVerifiedChannels
  <2>1. [kind |-> "verified", file |-> None] \in StorageMessage
    BY DEF StorageMessage
  <2> QED BY <1>4, <2>1 DEF TypeInv, TellVerifiedChannels
<1>5. CASE SlaveIgnores
  BY <1>5 DEF TypeInv, SlaveIgnores
<1>6. CASE Serve
  <2> DEFINE m == Head(toStorage)
             back == CASE m.kind = "uris"   -> [kind |-> "uris", file |-> None, has |-> files]
                       [] m.kind = "save"   -> Answer(IF m.file \in files THEN "duplicate"
                                                      ELSE "address", m.file)
                       [] m.kind = "delete" -> Answer(IF m.file \in files THEN "done"
                                                      ELSE "missing", m.file)
                       [] OTHER             -> Answer("done", None)
  <2>1. m \in StorageMessage /\ toStorage' \in Seq(StorageMessage)
    BY <1>6 DEF TypeInv, Serve
  <2>2. back \in StorageAnswer
    BY <2>1 DEF TypeInv, StorageMessage, StorageAnswer, Answer
  <2>3. toNode' = Append(toNode, back)
    BY <1>6 DEF Serve
  <2>4. toNode' \in Seq(StorageAnswer)
    BY <2>2, <2>3 DEF TypeInv
  <2>5. files' \in SUBSET File
    BY <1>6, <2>1 DEF TypeInv, Serve, StorageMessage
  <2> QED BY <1>6, <2>1, <2>4, <2>5 DEF TypeInv, Serve
<1> QED BY <1>2, <1>3, <1>4, <1>5, <1>6

\* An answer of the storage is taken by the action it is for.
LEMMA SlaveTakesOwned ==
    ASSUME Owned, SlaveTakes
    PROVE  Owned'
<1> DEFINE m == Head(toNode)
           a == Head(slave)
<1>1. /\ m \in StorageAnswer
      /\ toNode' \in Seq(StorageAnswer)
      /\ slave # <<>>
      /\ slave \in Seq(SlaveAction)
      /\ \A i, j \in DOMAIN slave : i # j => slave[i].asks \cap slave[j].asks = {}
  BY DEF Owned, TypeInv, RequestsHaveOneOwner, SlaveTakes, Awaited
<1>2. /\ a \in SlaveAction
      /\ a.asks \subseteq AsksOf(slave)
      /\ AsksOf(Tail(slave)) = AsksOf(slave) \ a.asks
  BY <1>1, TailAsks
<1>3. /\ a.asks \in SUBSET Wanted
      /\ a.kind \in {"uris", "save", "delete"}
      /\ a.kind = "delete" => a.asks = {}
      /\ a.kind = "save" => \A p \in a.asks : a = SaveAction(p[1], {p})
  BY <1>2, SlaveActionShape
<1> DEFINE Steps == /\ RequestsHaveOneOwner'
                    /\ requesting' \in [DOMAIN requesting' -> BOOLEAN]
                    /\ slave' \in Seq(SlaveAction)
                    /\ fetching' \in SUBSET Wanted
           Stores == /\ requests' \in [File -> Channel \cup {None}]
                     /\ saved' \in [File -> Channel \cup {None}]
                     /\ announced' \in SUBSET File
                     /\ toStorage' \in Seq(StorageMessage)
<1>4. ASSUME a.kind = "uris", UrisArrive(m)
      PROVE  Steps /\ Stores
  <2> DEFINE there == {p \in a.asks : p[1] \in m.has}
             found == a.asks \ there
  <2>1. PICK done \in SUBSET Poppable(there) :
            /\ Pop(done)
            /\ \E told \in {done} \cup {done \cup {p} : p \in there \ done} :
                  announced' = announced \cup {p[1] : p \in told}
            /\ IF done = there
               THEN NextInSlave /\ requesting' = Without(there)
               ELSE /\ slave' = <<>>
                    /\ requesting' = Without(there \cup AsksOf(Tail(slave)))
                    /\ UNCHANGED toStorage
    BY <1>4 DEF UrisArrive
  <2>2. there = a.asks \ found /\ there \cup AsksOf(Tail(slave)) = AsksOf(slave) \ found
    BY <1>2
  <2>3. found \in SUBSET a.asks /\ found \in SUBSET AsksOf(slave) /\ fetching' = fetching \cup found
    BY <1>2, <1>4 DEF UrisArrive
  <2>4. announced' \in SUBSET File
    <3>1. \A p \in there : p[1] \in File
      BY <1>3, WantedType
    <3>2. done \subseteq there
      BY DEF Poppable
    <3> QED BY <2>1, <3>1, <3>2 DEF Owned, TypeInv
  <2>5. toStorage' \in Seq(StorageMessage)
    BY <1>1, <2>1, NextInSlaveType DEF Owned, TypeInv
  <2>6. CASE done = there
    <3>1. slave' = Tail(slave) /\ requesting' = Without(a.asks \ found)
      BY <1>1, <2>1, <2>2, <2>6, NextInSlaveType DEF Owned
    <3> QED BY <1>1, <1>4, <2>1, <2>3, <2>4, <2>5, <3>1, CompletedKeepsOwners, PopType DEF Owned
  <2>7. CASE done # there
    <3>1. slave' = <<>> /\ requesting' = Without(AsksOf(slave) \ found)
      BY <2>1, <2>2, <2>7
    <3> QED BY <1>1, <1>4, <2>1, <2>3, <2>4, <2>5, <3>1, DroppedKeepsOwners, PopType DEF Owned
  <2> QED BY <2>6, <2>7
\* The other callbacks fetch nothing; an action that has completed leaves the queue.
<1>5. ASSUME NextInSlave, requesting' = Without(a.asks), UNCHANGED fetching
      PROVE  Steps /\ toStorage' \in Seq(StorageMessage)
  <2>1. slave' = Tail(slave) /\ toStorage' \in Seq(StorageMessage)
    BY <1>1, <1>5, NextInSlaveType DEF Owned
  <2>2. fetching' = fetching \cup {} /\ requesting' = Without(a.asks \ {}) /\ {} \in SUBSET a.asks
    BY <1>5
  <2> QED BY <1>1, <2>1, <2>2, CompletedKeepsOwners
<1>6. ASSUME NEW entries \in SUBSET AsksOf(slave), DropSlave(entries), UNCHANGED fetching
      PROVE  Steps /\ toStorage' \in Seq(StorageMessage)
  <2>1. fetching' = fetching \cup {} /\ {} \in SUBSET AsksOf(slave)
        /\ requesting' = Without(AsksOf(slave) \ {}) /\ slave' = <<>>
    <3>1. entries \cup AsksOf(slave) = AsksOf(slave) \ {}
      OBVIOUS
    <3> QED BY <1>6, <3>1 DEF DropSlave
  <2> QED BY <1>6, <2>1, DroppedKeepsOwners DEF DropSlave, Owned, TypeInv
<1>7. ASSUME NEW p \in a.asks, a.kind # "uris", FetchedSaved(m, p), UNCHANGED fetching
      PROVE  Steps /\ Stores
  <2>1. a.asks = {p} /\ p[1] \in File /\ {p} \in SUBSET AsksOf(slave)
    BY <1>2, <1>3, <1>7, WantedType DEF SaveAction
  <2>2. Steps /\ toStorage' \in Seq(StorageMessage)
    <3>1. (NextInSlave /\ requesting' = Without(a.asks)) \/ DropSlave({p})
      BY <1>7, <2>1 DEF FetchedSaved
    <3> QED BY <1>5, <1>6, <1>7, <2>1, <3>1
  <2>3. \/ Pop({p})
        \/ UNCHANGED list
    BY <1>7 DEF FetchedSaved
  <2>4. announced' \in SUBSET File
    BY <1>7, <2>1 DEF FetchedSaved, Owned, TypeInv
  <2>5. requests' \in [File -> Channel \cup {None}] /\ saved' \in [File -> Channel \cup {None}]
    BY <2>3, PopType DEF Owned, TypeInv, list
  <2> QED BY <2>2, <2>4, <2>5
<1>8. ASSUME a.asks = {}, UploadSaved(m) \/ Deleted(m), UNCHANGED fetching
      PROVE  Steps /\ Stores
  <2>1. Steps /\ toStorage' \in Seq(StorageMessage)
    <3>1. (NextInSlave /\ UNCHANGED requesting) \/ DropSlave({})
      BY <1>8 DEF UploadSaved, Deleted
    <3>2. Without({}) = requesting /\ {} \in SUBSET AsksOf(slave)
      BY WithoutNothing DEF Owned
    <3> QED BY <1>5, <1>6, <1>8, <3>1, <3>2
  <2>2. announced' \in SUBSET File
    BY <1>1, <1>8 DEF UploadSaved, Deleted, StorageAnswer, Owned, TypeInv
  <2> QED BY <1>8, <2>1, <2>2 DEF UploadSaved, Deleted, list, Owned, TypeInv
<1>9. Steps /\ Stores
  <2>1. \/ a.kind = "uris" /\ UrisArrive(m)
        \/ a.kind = "delete" /\ Deleted(m) /\ UNCHANGED fetching
        \/ a.asks = {} /\ UploadSaved(m) /\ UNCHANGED fetching
        \/ a.kind # "uris" /\ UNCHANGED fetching /\ \E p \in a.asks : FetchedSaved(m, p)
    BY DEF SlaveTakes
  <2> QED BY <1>3, <1>4, <1>7, <1>8, <2>1
<1>10. UNCHANGED <<managed, files>> /\ orderly' \in BOOLEAN
  BY DEF SlaveTakes, Owned, TypeInv
<1> QED BY <1>1, <1>9, <1>10 DEF Owned, TypeInv

\* Removals, uploads, an expired session and a restart.
LEMMA QueueStepOwned ==
    ASSUME Owned,
           \/ \E f \in File : RemoveCommand(f) \/ Upload(f)
           \/ SlaveExpires
           \/ Restart
    PROVE  Owned'
<1>1. ASSUME NEW f \in File, NEW a \in {DeleteAction(f), SaveAction(f, {})}, AddToSlave(a),
             UNCHANGED <<managed, list, requesting, fetching, files, announced, orderly>>
      PROVE  Owned'
  <2>1. a \in SlaveAction /\ a.asks = {}
    BY DEF SlaveAction, DeleteAction, SaveAction
  <2>2. /\ slave' = Append(slave, a)
        /\ a.asks \cap AsksOf(slave) = {}
        /\ fetching' = fetching \ a.asks
        /\ requesting' \in [(DOMAIN requesting) \cup a.asks -> BOOLEAN]
        /\ \A p \in DOMAIN requesting \ a.asks : requesting'[p] = requesting[p]
        /\ \A p \in a.asks : requesting'[p] <=> (a = SaveAction(p[1], {p}))
    BY <1>1, <2>1 DEF AddToSlave, Owned, TypeInv
  <2> QED BY <1>1, <2>1, <2>2, AddedKeepsOwners, AddToSlaveType DEF Owned, TypeInv, list
<1>2. CASE SlaveExpires
  <2>1. fetching' = fetching \cup {} /\ {} \in SUBSET AsksOf(slave)
        /\ requesting' = Without(AsksOf(slave) \ {}) /\ slave' = <<>>
    <3>1. {} \cup AsksOf(slave) = AsksOf(slave) \ {}
      OBVIOUS
    <3> QED BY <1>2, <3>1 DEF SlaveExpires, DropSlave
  <2> QED BY <1>2, <2>1, DroppedKeepsOwners DEF SlaveExpires, DropSlave, Owned, TypeInv, list
<1>3. CASE Restart
  <2>1. AsksOf(slave') = {}
    BY <1>3, EmptyAsks DEF Restart
  <2> QED BY <1>3, <2>1 DEF Restart, Owned, TypeInv, RequestsHaveOneOwner
<1> QED BY <1>1, <1>2, <1>3 DEF RemoveCommand, Upload

\* A round asks the storage when nothing is requested.
LEMMA CheckFilesOwned ==
    ASSUME Owned, NEW resolved \in SUBSET Channel, CheckFiles(resolved)
    PROVE  Owned'
<1>1. PICK kept \in KeptUnresolved(resolved), asks \in Askable(resolved) :
          /\ requests' = [f \in File |-> IF requests[f] \in resolved \cup kept
                                         THEN requests[f] ELSE None]
          /\ requesting' = [p \in asks |-> FALSE]
          /\ IF asks = {} THEN UNCHANGED line ELSE AddToSlave(UrisAction(asks))
  BY DEF CheckFiles
<1>2. /\ requesting = <<>>
      /\ UNCHANGED <<managed, saved, fetching, files, announced, orderly>>
  BY DEF CheckFiles
<1>3. DOMAIN requesting = {} /\ fetching = {} /\ AsksOf(slave) = {}
  <2>1. DOMAIN requesting = {}
    BY <1>2
  <2> QED BY <2>1 DEF Owned, RequestsHaveOneOwner
<1>4. asks \in SUBSET Wanted
  BY DEF Askable
<1>5. requests' \in [File -> Channel \cup {None}]
  BY <1>1 DEF Owned, TypeInv
<1>6. CASE asks = {}
  <2>1. DOMAIN requesting' = {} /\ AsksOf(slave') = {} /\ UNCHANGED <<slave, toStorage, toNode>>
    BY <1>1, <1>3, <1>6 DEF line, AsksOf
  <2>2. RequestsHaveOneOwner'
    BY <1>2, <1>3, <2>1 DEF Owned, RequestsHaveOneOwner
  <2> QED BY <1>1, <1>2, <1>5, <2>1, <2>2 DEF Owned, TypeInv
<1>7. CASE asks # {}
  <2> DEFINE a == UrisAction(asks)
  <2>1. a \in SlaveAction /\ a.asks = asks /\ \A p : a # SaveAction(p[1], {p})
    BY <1>4 DEF SlaveAction, UrisAction, SaveAction
  <2>2. /\ slave' = Append(slave, a)
        /\ a.asks \cap AsksOf(slave) = {}
        /\ fetching' = fetching \ a.asks
        /\ requesting' \in [(DOMAIN requesting) \cup a.asks -> BOOLEAN]
        /\ \A p \in DOMAIN requesting \ a.asks : requesting'[p] = requesting[p]
        /\ \A p \in a.asks : requesting'[p] = FALSE
    BY <1>1, <1>2, <1>3, <1>7, <2>1 DEF AddToSlave
  <2>3. \A p \in a.asks : requesting'[p] <=> (a = SaveAction(p[1], {p}))
    BY <2>1, <2>2
  <2>4. toStorage' \in Seq(StorageMessage) /\ toNode' \in Seq(StorageAnswer)
    BY <1>1, <1>7, <2>1, AddToSlaveType DEF Owned
  <2> HIDE DEF a
  <2> QED BY <1>2, <1>5, <2>1, <2>2, <2>3, <2>4, AddedKeepsOwners DEF Owned, TypeInv
<1> QED BY <1>6, <1>7

\* A channel is asked for one of the files that are fetched from it.
LEMMA AskChannelOwned ==
    ASSUME Owned, NEW p \in Wanted, AskChannel(p)
    PROVE  Owned'
<1>1. /\ p \in fetching /\ p \in DOMAIN requesting
      /\ \A q \in fetching : q[2] = p[2] => ~ requesting[q]
      /\ requesting' = [requesting EXCEPT ![p] = TRUE]
      /\ UNCHANGED <<managed, requests, saved, fetching, slave, toStorage, toNode, files, announced, orderly>>
  BY DEF AskChannel, Asked, Owned, RequestsHaveOneOwner, list, line
<1>2. /\ DOMAIN requesting' = DOMAIN requesting
      /\ requesting' \in [DOMAIN requesting' -> BOOLEAN]
      /\ \A q \in DOMAIN requesting : q # p => requesting'[q] = requesting[q]
  BY <1>1 DEF Owned, TypeInv
<1>3. AsksOf(slave') = AsksOf(slave) /\ p \notin AsksOf(slave)
  BY <1>1 DEF Owned, RequestsHaveOneOwner, AsksOf
<1>4. \A q \in AsksOf(slave') :
        requesting'[q] <=> \E i \in DOMAIN slave' : slave'[i] = SaveAction(q[1], {q})
  <2> TAKE q \in AsksOf(slave')
  <2>1. requesting'[q] = requesting[q]
    BY <1>2, <1>3 DEF Owned, RequestsHaveOneOwner
  <2> QED BY <1>1, <1>3, <2>1 DEF Owned, RequestsHaveOneOwner
<1>5. \A q, r \in fetching' : q # r /\ q[2] = r[2] => ~ (requesting'[q] /\ requesting'[r])
  <2> TAKE q, r \in fetching'
  <2>1. q \in DOMAIN requesting /\ r \in DOMAIN requesting
    BY <1>1 DEF Owned, RequestsHaveOneOwner
  <2>2. CASE q # p /\ r # p
    BY <1>1, <1>2, <2>1, <2>2 DEF Owned, RequestsHaveOneOwner
  <2>3. CASE q = p /\ r # p
    BY <1>1, <1>2, <2>1, <2>3
  <2>4. CASE r = p /\ q # p
    BY <1>1, <1>2, <2>1, <2>4
  <2> QED BY <2>2, <2>3, <2>4
<1>6. RequestsHaveOneOwner'
  BY <1>1, <1>2, <1>3, <1>4, <1>5 DEF Owned, RequestsHaveOneOwner
<1> QED BY <1>1, <1>2, <1>6 DEF Owned, TypeInv

\* A channel sends its file, which goes to the storage, or refuses it, or its session ends.
LEMMA ChannelEndsOwned ==
    ASSUME Owned, NEW c \in Channel, ChannelEnds(c)
    PROVE  Owned'
<1>1. ASSUME NEW p \in fetching, ChannelSends(p)
      PROVE  Owned'
  <2> DEFINE a == SaveAction(p[1], {p})
  <2>1. a \in SlaveAction /\ a.asks = {p}
    BY DEF SlaveAction, SaveAction, Owned, TypeInv
  <2>2. p \in DOMAIN requesting /\ p \notin AsksOf(slave)
    BY DEF Owned, RequestsHaveOneOwner
  <2>3. /\ slave' = Append(slave, a)
        /\ fetching' = fetching \ a.asks
        /\ requesting' = requesting /\ requesting[p]
        /\ UNCHANGED <<managed, requests, saved, files, announced, orderly>>
    BY <1>1, <2>1 DEF ChannelSends, Asked, AddToSlave, list
  <2>4. /\ a.asks \cap AsksOf(slave) = {}
        /\ requesting' \in [(DOMAIN requesting) \cup a.asks -> BOOLEAN]
        /\ \A q \in DOMAIN requesting \ a.asks : requesting'[q] = requesting[q]
        /\ \A q \in a.asks : requesting'[q] <=> (a = SaveAction(q[1], {q}))
    <3>1. (DOMAIN requesting) \cup a.asks = DOMAIN requesting
      BY <2>1, <2>2
    <3> QED BY <2>1, <2>2, <2>3, <3>1 DEF Owned, TypeInv
  <2>5. toStorage' \in Seq(StorageMessage) /\ toNode' \in Seq(StorageAnswer)
    BY <1>1, <2>1, AddToSlaveType DEF ChannelSends, Owned
  <2> HIDE DEF a
  <2> QED BY <2>1, <2>3, <2>4, <2>5, AddedKeepsOwners DEF Owned, TypeInv
<1>2. ASSUME NEW gone \in SUBSET fetching, fetching' = fetching \ gone, requesting' = Without(gone),
             requests' \in [File -> Channel \cup {None}],
             saved' \in [File -> Channel \cup {None}],
             UNCHANGED <<managed, line, files, announced, orderly>>
      PROVE  Owned'
  BY <1>2, FetchedKeepsOwners DEF Owned, TypeInv, line
<1>3. ASSUME NEW p \in fetching, p[2] = c, ChannelRefuses(p)
      PROVE  Owned'
  <2>1. UNCHANGED <<managed, line, files, announced, orderly>>
    BY <1>3 DEF ChannelRefuses
  <2>2. CASE p \in Poppable({p})
    BY <1>2, <1>3, <2>1, <2>2, PopType DEF ChannelRefuses, Owned
  <2>3. CASE p \notin Poppable({p})
    <3> DEFINE rest == {q \in fetching : q[2] = p[2]}
    <3>1. UNCHANGED list /\ fetching' = fetching \ rest /\ requesting' = Without(rest \cup {p})
      BY <1>3, <2>3 DEF ChannelRefuses, FetchGone
    <3>2. rest \cup {p} = rest
      OBVIOUS
    <3> QED BY <1>2, <2>1, <3>1, <3>2 DEF list, Owned, TypeInv
  <2> QED BY <2>2, <2>3
<1>4. CASE FetchEnds(c)
  <2> DEFINE rest == {q \in fetching : q[2] = c}
  <2>1. UNCHANGED list /\ fetching' = fetching \ rest /\ requesting' = Without(rest \cup {})
    BY <1>4 DEF FetchEnds, FetchGone
  <2>2. rest \cup {} = rest
    OBVIOUS
  <2> QED BY <1>2, <1>4, <2>1, <2>2 DEF FetchEnds, list, Owned, TypeInv
<1> QED BY <1>1, <1>3, <1>4 DEF ChannelEnds

\* Every step keeps the owners.
LEMMA OwnedStep == Owned /\ [Next]_vars => Owned'
<1> SUFFICES ASSUME Owned, [Next]_vars
             PROVE  Owned'
  OBVIOUS
<1>1. CASE Next
  BY <1>1, ListStepOwned, SlaveTakesOwned, QueueStepOwned, CheckFilesOwned, AskChannelOwned,
     ChannelEndsOwned DEF Next
<1>2. CASE UNCHANGED vars
  BY <1>2, StaysOwned DEF vars, list, line, Owned, TypeInv
<1> QED BY <1>1, <1>2

\* A file and channel in channels_files_requesting stand in one place: in one action of the
\* slave or in one fetch; nothing is asked for that is not in the map (RequestsHaveOneOwner).
THEOREM OneOwner == Spec => [](TypeInv /\ RequestsHaveOneOwner)
<1>1. Spec => []Owned
  BY OwnedInit, OwnedStep, PTL DEF Spec
<1> QED BY <1>1, PTL DEF Owned
(***************************************************************************)
(* What leaves the list                                                    *)
(***************************************************************************)
Answers(m, a) ==
    \/ a.kind = "uris" /\ m = [kind |-> "uris", file |-> None, has |-> files]
    \/ a.kind = "save" /\ a.file \in files
                       /\ m \in {Answer("duplicate", a.file), Answer("address", a.file)}
    \/ a.kind = "delete" /\ m \in {Answer("done", a.file), Answer("missing", a.file)}

\* The messages that want an answer,
Asks == {i \in DOMAIN toStorage : toStorage[i].kind # "verified"}

\* and the answers that say something.
Told == {i \in DOMAIN toNode : toNode[i] # Answer("done", None)}

\* While the exchange is orderly, one question at most is under way: the one of the first
\* action of the slave.
OneInLine ==
    orderly =>
      /\ \A i \in Asks : slave # <<>> /\ toStorage[i] = Message(Head(slave))
      /\ \A i \in Told : slave # <<>> /\ Answers(toNode[i], Head(slave))
      /\ \A i, j \in Asks : i = j
      /\ \A i, j \in Told : i = j
      /\ Asks = {} \/ Told = {}

\* Between two handlers the saved copy has every request of the list.
SavedHolds == ~ managed => \A f \in File : requests[f] # None => saved[f] = requests[f]

\* The inductive invariant for what leaves the list.
Settled == Owned /\ OneInLine /\ SavedHolds

\* One more message to the storage.
LEMMA AsksAppend ==
    ASSUME TypeInv, NEW x \in StorageMessage, toStorage' = Append(toStorage, x)
    PROVE  /\ \A i \in Asks' : \/ i \in Asks /\ toStorage'[i] = toStorage[i]
                               \/ i = Len(toStorage) + 1 /\ toStorage'[i] = x
           /\ x.kind = "verified" => Asks' \subseteq Asks
<1>1. /\ toStorage \in Seq(StorageMessage)
      /\ \A i \in DOMAIN toStorage' :
           \/ i \in DOMAIN toStorage /\ toStorage'[i] = toStorage[i]
           \/ i = Len(toStorage) + 1 /\ toStorage'[i] = x
  BY DEF TypeInv
<1> QED BY <1>1 DEF Asks

\* The storage takes the first message.
LEMMA AsksTail ==
    ASSUME TypeInv, toStorage # <<>>, toStorage' = Tail(toStorage)
    PROVE  /\ \A i \in Asks' : i + 1 \in Asks /\ i + 1 # 1 /\ toStorage'[i] = toStorage[i + 1]
           /\ 1 \in DOMAIN toStorage /\ Head(toStorage) = toStorage[1]
           /\ Head(toStorage) \in StorageMessage
           /\ Asks \subseteq Int /\ Asks' \subseteq Int
<1>1. /\ toStorage \in Seq(StorageMessage)
      /\ \A i \in DOMAIN toStorage' :
           i \in Int /\ i + 1 \in DOMAIN toStorage /\ i + 1 # 1 /\ toStorage'[i] = toStorage[i + 1]
      /\ 1 \in DOMAIN toStorage /\ Head(toStorage) = toStorage[1]
      /\ Head(toStorage) \in StorageMessage
      /\ DOMAIN toStorage \subseteq Int
  BY DEF TypeInv
<1> QED BY <1>1 DEF Asks

\* One more answer of the storage.
LEMMA ToldAppend ==
    ASSUME TypeInv, NEW x \in StorageAnswer, toNode' = Append(toNode, x)
    PROVE  /\ \A i \in Told' : \/ i \in Told /\ toNode'[i] = toNode[i]
                               \/ i = Len(toNode) + 1 /\ toNode'[i] = x
           /\ x = Answer("done", None) => Told' \subseteq Told
<1>1. /\ toNode \in Seq(StorageAnswer)
      /\ \A i \in DOMAIN toNode' :
           \/ i \in DOMAIN toNode /\ toNode'[i] = toNode[i]
           \/ i = Len(toNode) + 1 /\ toNode'[i] = x
  BY DEF TypeInv
<1> QED BY <1>1 DEF Told, Answer

\* The node takes the first answer.
LEMMA ToldTail ==
    ASSUME TypeInv, toNode # <<>>, toNode' = Tail(toNode)
    PROVE  /\ \A i \in Told' : i + 1 \in Told /\ i + 1 # 1 /\ toNode'[i] = toNode[i + 1]
           /\ 1 \in DOMAIN toNode /\ Head(toNode) = toNode[1]
           /\ Head(toNode) \in StorageAnswer
           /\ Told \subseteq Int /\ Told' \subseteq Int
<1>1. /\ toNode \in Seq(StorageAnswer)
      /\ \A i \in DOMAIN toNode' :
           i \in Int /\ i + 1 \in DOMAIN toNode /\ i + 1 # 1 /\ toNode'[i] = toNode[i + 1]
      /\ 1 \in DOMAIN toNode /\ Head(toNode) = toNode[1]
      /\ Head(toNode) \in StorageAnswer
      /\ DOMAIN toNode \subseteq Int
  BY DEF TypeInv
<1> QED BY <1>1 DEF Told, Answer

\* A step that leaves the queues and the files of the storage alone.
LEMMA StaysInLine ==
    ASSUME OneInLine, UNCHANGED <<slave, toStorage, toNode, files, orderly>>
    PROVE  OneInLine'
  BY DEF OneInLine, Asks, Told, Answers, Message, Answer

\* Queueing an action sends it only when the queue was empty.
LEMMA AddToSlaveInLine ==
    ASSUME TypeInv, OneInLine, NEW a \in SlaveAction, AddToSlave(a), UNCHANGED <<files, orderly>>
    PROVE  OneInLine'
<1> SUFFICES ASSUME orderly'
             PROVE  OneInLine'
  BY DEF OneInLine
<1>1. Told' = Told /\ toNode' = toNode
  BY DEF AddToSlave, Told, Answer
<1>2. \A m, b : Answers(m, b)' <=> Answers(m, b)
  BY DEF Answers, Answer
<1>3. /\ slave \in Seq(SlaveAction)
      /\ slave' = Append(slave, a) /\ slave' # <<>>
      /\ slave = <<>> => Head(slave') = a
      /\ slave # <<>> => Head(slave') = Head(slave)
  BY DEF TypeInv, AddToSlave
<1>4. Message(a) \in StorageMessage
  BY SlaveActionShape
<1>5. CASE slave = <<>>
  <2>1. Asks = {} /\ Told = {}
    BY <1>5 DEF OneInLine
  <2>2. toStorage' = Append(toStorage, Message(a))
    BY <1>5 DEF AddToSlave
  <2>3. \A i \in Asks' : i = Len(toStorage) + 1 /\ toStorage'[i] = Message(a)
    BY <1>4, <2>1, <2>2, AsksAppend
  <2> QED BY <1>1, <1>3, <1>5, <2>1, <2>3 DEF OneInLine, Message
<1>6. CASE slave # <<>>
  <2>1. toStorage' = toStorage /\ Asks' = Asks
    BY <1>6 DEF AddToSlave, Asks
  <2> QED BY <1>1, <1>2, <1>3, <1>6, <2>1 DEF OneInLine, Message
<1> QED BY <1>5, <1>6

\* The storage answers what it was asked.
LEMMA ServeInLine ==
    ASSUME TypeInv, OneInLine, Serve
    PROVE  OneInLine'
<1> SUFFICES ASSUME orderly'
             PROVE  OneInLine'
  BY DEF OneInLine
<1> DEFINE m == Head(toStorage)
<1>1. /\ \A i \in Asks' : i + 1 \in Asks /\ i + 1 # 1 /\ toStorage'[i] = toStorage[i + 1]
      /\ 1 \in DOMAIN toStorage /\ m = toStorage[1] /\ m \in StorageMessage
      /\ Asks \subseteq Int /\ Asks' \subseteq Int
  BY AsksTail DEF Serve
<1>2. orderly /\ slave' = slave
  BY DEF Serve
<1>3. CASE m.kind = "verified"
  <2>1. toNode' = Append(toNode, Answer("done", None)) /\ files' = files
    BY <1>3 DEF Serve
  <2>2. Answer("done", None) \in StorageAnswer
    BY DEF Answer, StorageAnswer
  <2>3. \A i \in Told' : i \in Told /\ toNode'[i] = toNode[i]
    <3>1. Told' \subseteq Told
      BY <2>1, <2>2, ToldAppend
    <3>2. \A i \in DOMAIN toNode : toNode'[i] = toNode[i]
      BY <2>1 DEF TypeInv
    <3> QED BY <3>1, <3>2 DEF Told
  <2>4. \A n, b : Answers(n, b)' <=> Answers(n, b)
    BY <2>1 DEF Answers, Answer
  <2> QED BY <1>1, <1>2, <2>3, <2>4 DEF OneInLine, Message
<1>4. CASE m.kind # "verified"
  <2>1. /\ slave # <<>> /\ m = Message(Head(slave))
        /\ Asks' = {} /\ Told = {}
    BY <1>1, <1>2, <1>4 DEF OneInLine, Asks
  <2>2. PICK x \in StorageAnswer : toNode' = Append(toNode, x) /\ Answers(x, Head(slave))'
    <3>1. Head(slave) \in SlaveAction
      BY <2>1 DEF TypeInv
    <3>2. CASE m.kind = "uris"
      <4>1. toNode' = Append(toNode, [kind |-> "uris", file |-> None, has |-> files])
            /\ files' = files
        BY <3>2 DEF Serve
      <4>2. [kind |-> "uris", file |-> None, has |-> files] \in StorageAnswer
        BY DEF StorageAnswer, TypeInv
      <4> QED BY <1>2, <2>1, <3>2, <4>1, <4>2 DEF Answers, Message
    <3>3. CASE m.kind = "save"
      <4>1. PICK k \in {"duplicate", "address"} : toNode' = Append(toNode, Answer(k, m.file))
        BY <3>3 DEF Serve
      <4>2. files' = files \cup {m.file} /\ m.file \in File
        BY <1>1, <3>3 DEF Serve, StorageMessage
      <4>3. Answer(k, m.file) \in StorageAnswer
        BY <4>2 DEF Answer, StorageAnswer
      <4> QED BY <1>2, <2>1, <3>3, <4>1, <4>2, <4>3 DEF Answers, Message, Answer
    <3>4. CASE m.kind = "delete"
      <4>1. PICK k \in {"done", "missing"} : toNode' = Append(toNode, Answer(k, m.file))
        BY <3>4 DEF Serve
      <4>2. Answer(k, m.file) \in StorageAnswer
        BY <1>1 DEF Answer, StorageAnswer, StorageMessage
      <4> QED BY <1>2, <2>1, <3>4, <4>1, <4>2 DEF Answers, Message, Answer
    <3> QED BY <1>1, <1>4, <3>2, <3>3, <3>4 DEF StorageMessage
  <2>3. \A i \in Told' : i = Len(toNode) + 1 /\ toNode'[i] = x
    BY <2>1, <2>2, ToldAppend
  <2> QED BY <1>2, <2>1, <2>2, <2>3 DEF OneInLine
<1> QED BY <1>3, <1>4
\* With orderly answers the one that is taken is the one of the head, and after it
\* nothing is on the way but what the next action asks.
LEMMA TakenIsTold ==
    ASSUME TypeInv, OneInLine, SlaveTakes, orderly'
    PROVE  /\ orderly
           /\ Answers(Head(toNode), Head(slave))
           /\ Asks = {} /\ Told' = {}
<1> DEFINE m == Head(toNode)
           a == Head(slave)
<1>1. /\ \A i \in Told' : i + 1 \in Told /\ i + 1 # 1 /\ toNode'[i] = toNode[i + 1]
      /\ 1 \in DOMAIN toNode /\ m = toNode[1] /\ m \in StorageAnswer
      /\ Told \subseteq Int /\ Told' \subseteq Int
  BY ToldTail DEF SlaveTakes
<1>2. orderly /\ m.file = a.file /\ slave # <<>> /\ Takes(a, m)
  BY DEF SlaveTakes, Awaited, TypeInv
<1>3. a \in SlaveAction
  BY <1>2 DEF TypeInv
<1>4. m # Answer("done", None)
  <2>1. CASE a.kind = "uris"
    BY <1>2, <2>1 DEF Takes, Answer
  <2>2. CASE a.kind # "uris"
    <3>1. a.file \in File
      BY <1>3, <2>2, SlaveActionShape
    <3> QED BY <1>2, <3>1, RequestsAssumption DEF Answer
  <2> QED BY <2>1, <2>2
<1>5. 1 \in Told
  BY <1>1, <1>4 DEF Told
<1> QED BY <1>1, <1>2, <1>5 DEF OneInLine

\* After an answer was taken the next action is sent.
LEMMA SlaveTakesInLine ==
    ASSUME TypeInv, OneInLine, SlaveTakes
    PROVE  OneInLine'
<1> SUFFICES ASSUME orderly'
             PROVE  OneInLine'
  BY DEF OneInLine
<1>1. Asks = {} /\ Told' = {} /\ slave # <<>> /\ slave \in Seq(SlaveAction)
  BY TakenIsTold DEF SlaveTakes, Awaited, TypeInv
<1>2. NextInSlave \/ (slave' = <<>> /\ UNCHANGED toStorage)
  BY DEF SlaveTakes, UrisArrive, Deleted, UploadSaved, FetchedSaved, DropSlave
<1>3. CASE UNCHANGED toStorage
  <2>1. Asks' = {}
    BY <1>1, <1>3 DEF Asks
  <2> QED BY <1>1, <2>1 DEF OneInLine
<1>4. CASE NextInSlave /\ Len(slave) # 1
  <2>1. /\ slave' = Tail(slave)
        /\ toStorage' = Append(toStorage, Message(slave[2]))
        /\ slave' # <<>> /\ Head(slave') = slave[2]
        /\ slave[2] \in SlaveAction
    <3>1. Len(slave) \in Nat /\ Len(slave) # 0 /\ Len(slave) # 1
      BY <1>1, <1>4, EmptySeq, LenProperties
    <3>2. \A n \in Nat : n # 0 /\ n # 1 => 2 \in 1..n /\ 1 \in 1..(n - 1)
      OBVIOUS
    <3>3. 2 \in 1..Len(slave) /\ 1 \in 1..(Len(slave) - 1)
      BY <3>1, <3>2
    <3> QED BY <1>1, <1>4, <3>3, HeadTailProperties, ElementOfSeq DEF NextInSlave
  <2>2. Message(slave[2]) \in StorageMessage
    BY <2>1, SlaveActionShape
  <2>3. \A i \in Asks' : i = Len(toStorage) + 1 /\ toStorage'[i] = Message(slave[2])
    BY <1>1, <2>1, <2>2, AsksAppend
  <2> QED BY <1>1, <2>1, <2>3 DEF OneInLine
<1> QED BY <1>2, <1>3, <1>4 DEF NextInSlave

\* Every step keeps one question under way.
LEMMA InLineStep ==
    ASSUME Owned, OneInLine, Next
    PROVE  OneInLine'
<1> USE DEF Owned
<1>1. CASE \/ \E p \in Wanted : ContentApplied(p[1], p[2]) \/ StoreCommand(p[1], p[2])
           \/ ChainHandlerFails
           \/ \E p \in Wanted : AskChannel(p)
  BY <1>1, StaysInLine DEF ContentApplied, StoreCommand, ChainHandlerFails, AskChannel, line
<1>2. CASE \E f \in File : RemoveCommand(f) \/ Upload(f)
  <2>1. PICK a \in SlaveAction : AddToSlave(a) /\ UNCHANGED <<files, orderly>>
    BY <1>2 DEF RemoveCommand, Upload, SlaveAction
  <2> QED BY <2>1, AddToSlaveInLine
<1>3. CASE TellVerifiedChannels
  <2>1. [kind |-> "verified", file |-> None] \in StorageMessage
    BY DEF StorageMessage
  <2>2. Asks' \subseteq Asks
    BY <1>3, <2>1, AsksAppend DEF TellVerifiedChannels
  <2>3. \A i \in Asks : toStorage'[i] = toStorage[i]
    BY <1>3, <2>1 DEF TellVerifiedChannels, TypeInv, Asks
  <2>4. Told' = Told /\ UNCHANGED <<slave, toNode, files, orderly>>
    BY <1>3 DEF TellVerifiedChannels, Told, Answer
  <2>5. \A n, b : Answers(n, b)' <=> Answers(n, b)
    BY <2>4 DEF Answers, Answer
  <2> QED BY <2>2, <2>3, <2>4, <2>5 DEF OneInLine, Message
<1>4. CASE \E resolved \in SUBSET Channel : CheckFiles(resolved)
  <2>1. PICK resolved \in SUBSET Channel : CheckFiles(resolved)
    BY <1>4
  <2>2. PICK asks \in SUBSET Wanted :
           /\ IF asks = {} THEN UNCHANGED line ELSE AddToSlave(UrisAction(asks))
           /\ UNCHANGED <<files, orderly>>
    BY <2>1 DEF CheckFiles, Askable
  <2>3. UrisAction(asks) \in SlaveAction
    BY DEF SlaveAction
  <2> QED BY <2>2, <2>3, AddToSlaveInLine, StaysInLine DEF line
<1>5. CASE Serve
  BY <1>5, ServeInLine
<1>6. CASE SlaveTakes
  BY <1>6, SlaveTakesInLine
<1>7. CASE SlaveIgnores
  <2>1. /\ \A i \in Told' : i + 1 \in Told /\ toNode'[i] = toNode[i + 1]
        /\ Told \subseteq Int /\ Told' \subseteq Int
    BY <1>7, ToldTail DEF SlaveIgnores
  <2>2. Asks' = Asks /\ UNCHANGED <<slave, toStorage, files, orderly>>
    BY <1>7 DEF SlaveIgnores, Asks
  <2>3. \A n, b : Answers(n, b)' <=> Answers(n, b)
    BY <2>2 DEF Answers, Answer
  <2>4. ASSUME NEW i \in Told', NEW j \in Told', orderly'
        PROVE  i = j
    BY <2>1, <2>2, <2>4 DEF OneInLine
  <2> QED BY <2>1, <2>2, <2>3, <2>4 DEF OneInLine, Message
<1>8. CASE SlaveExpires
  BY <1>8 DEF SlaveExpires, OneInLine
<1>9. CASE \E c \in Channel : ChannelEnds(c)
  <2>1. PICK c \in Channel : ChannelEnds(c)
    BY <1>9
  <2>2. CASE UNCHANGED <<line, files, orderly>>
    BY <2>2, StaysInLine DEF line
  <2>3. ASSUME NEW p \in fetching, ChannelSends(p)
        PROVE  OneInLine'
    <3>1. SaveAction(p[1], {p}) \in SlaveAction
      BY DEF SlaveAction, TypeInv
    <3> QED BY <2>3, <3>1, AddToSlaveInLine DEF ChannelSends
  <2> QED BY <2>1, <2>2, <2>3 DEF ChannelEnds, ChannelRefuses, FetchEnds
<1>10. CASE Restart
  BY <1>10 DEF Restart, OneInLine, Asks, Told
<1> QED BY <1>1, <1>2, <1>3, <1>4, <1>5, <1>6, <1>7, <1>8, <1>9, <1>10 DEF Next

\* Taking requests off the list takes them off the saved copy, when it saves.
LEMMA PopHolds ==
    ASSUME TypeInv, SavedHolds, NEW entries, Pop(entries), UNCHANGED managed
    PROVE  SavedHolds'
<1>1. CASE {f \in File : <<f, requests[f]>> \in entries} = {}
  BY <1>1 DEF Pop, SavedHolds, TypeInv
<1>2. CASE {f \in File : <<f, requests[f]>> \in entries} # {}
  BY <1>2 DEF Pop, SavedHolds
<1> QED BY <1>1, <1>2

\* Every step keeps the saved copy.
LEMMA SavedStep ==
    ASSUME TypeInv, SavedHolds, Next
    PROVE  SavedHolds'
<1>1. \/ UNCHANGED <<managed, requests, saved>>
      \/ \E p \in Wanted : ContentApplied(p[1], p[2]) \/ StoreCommand(p[1], p[2])
      \/ UNCHANGED <<managed, saved>> /\ requests' = saved
      \/ UNCHANGED <<managed, saved>> /\ \A f \in File : requests'[f] \in {requests[f], None}
      \/ UNCHANGED managed /\ \E entries : Pop(entries)
  <2>1. CASE \/ ChainHandlerFails
             \/ \E f \in File : RemoveCommand(f) \/ Upload(f)
             \/ TellVerifiedChannels \/ Serve \/ SlaveIgnores \/ SlaveExpires \/ Restart
             \/ \E p \in Wanted : AskChannel(p)
    BY <2>1 DEF ChainHandlerFails, RemoveCommand, Upload, TellVerifiedChannels, Serve,
                SlaveIgnores, SlaveExpires, Restart, AskChannel, list
  <2>2. CASE \E resolved \in SUBSET Channel : CheckFiles(resolved)
    BY <2>2 DEF CheckFiles
  <2>3. CASE SlaveTakes
    BY <2>3 DEF SlaveTakes, UrisArrive, FetchedSaved, UploadSaved, Deleted, list
  <2>4. CASE \E c \in Channel : ChannelEnds(c)
    BY <2>4 DEF ChannelEnds, ChannelSends, ChannelRefuses, FetchEnds, list
  <2> QED BY <2>1, <2>2, <2>3, <2>4 DEF Next
<1>2. CASE \E p \in Wanted : ContentApplied(p[1], p[2]) \/ StoreCommand(p[1], p[2])
  BY <1>2 DEF ContentApplied, StoreCommand, SavedHolds
<1>3. CASE UNCHANGED managed /\ \E entries : Pop(entries)
  BY <1>3, PopHolds
<1> QED BY <1>1, <1>2, <1>3 DEF SavedHolds

\* Nothing is under way at the start.
LEMMA SettledInit == Init => Settled
<1> SUFFICES ASSUME Init PROVE Settled
  OBVIOUS
<1>1. Asks = {} /\ Told = {}
  BY DEF Init, Asks, Told
<1> QED BY <1>1, OwnedInit DEF Settled, OneInLine, SavedHolds, Init

\* Every step keeps what the second theorem needs.
LEMMA SettledStep == Settled /\ [Next]_vars => Settled'
<1> SUFFICES ASSUME Settled, [Next]_vars
             PROVE  Settled'
  OBVIOUS
<1>1. CASE Next
  BY <1>1, OwnedStep, InLineStep, SavedStep DEF Settled, Owned
<1>2. CASE UNCHANGED vars
  BY <1>2, OwnedStep, StaysInLine DEF vars, list, line, Settled, SavedHolds
<1> QED BY <1>1, <1>2

\* The body of RequestsLeaveSettled, for one step.
LeavesSettled ==
    orderly' => \A f \in Requested(requests) \ Requested(requests') :
        \/ f \in files /\ f \in announced'
        \/ f \notin Held[requests[f]]
        \/ Cardinality({requests[g] : g \in Requested(requests)}) > MaxUnresolved
        \/ managed /\ requests' = saved /\ saved[f] = None

\* What leaves by a pop was among the entries of the pop.
LEMMA PopLeaves ==
    ASSUME TypeInv, NEW entries, Pop(entries), NEW f \in Requested(requests) \ Requested(requests')
    PROVE  <<f, requests[f]>> \in entries
  BY DEF TypeInv, Pop, Requested

\* A request that leaves when an answer is taken is of a file the storage has.
LEMMA TakenLeavesSettled ==
    ASSUME Settled, SlaveTakes
    PROVE  LeavesSettled
<1> DEFINE m == Head(toNode)
           a == Head(slave)
<1> SUFFICES ASSUME orderly', NEW f \in Requested(requests) \ Requested(requests')
             PROVE  f \in files /\ f \in announced'
  BY DEF LeavesSettled
<1>1. Answers(m, a) /\ a \in SlaveAction /\ TypeInv
  BY TakenIsTold DEF Settled, Owned, TypeInv, SlaveTakes, Awaited
<1>2. \/ a.kind = "uris" /\ UrisArrive(m)
      \/ UNCHANGED list
      \/ a.kind # "uris" /\ \E p \in a.asks : FetchedSaved(m, p)
  BY DEF SlaveTakes, UploadSaved, Deleted
<1>3. CASE a.kind = "uris" /\ UrisArrive(m)
  <2>1. PICK done \in SUBSET Poppable({p \in a.asks : p[1] \in m.has}) :
            /\ Pop(done)
            /\ \E told \in {done} \cup {done \cup {p} : p \in {p \in a.asks : p[1] \in m.has} \ done} :
                  announced' = announced \cup {p[1] : p \in told}
    BY <1>3 DEF UrisArrive
  <2>2. <<f, requests[f]>> \in done
    BY <1>1, <2>1, PopLeaves
  <2>3. f \in m.has
    BY <2>2 DEF Poppable
  <2>4. m.has = files
    BY <1>1, <1>3 DEF Answers
  <2>5. f \in announced'
    BY <2>1, <2>2
  <2> QED BY <2>3, <2>4, <2>5
<1>4. CASE UNCHANGED list
  BY <1>4 DEF list
<1>5. ASSUME a.kind # "uris", NEW p \in a.asks, FetchedSaved(m, p)
      PROVE  f \in files /\ f \in announced'
  <2>1. a = SaveAction(p[1], {p})
    BY <1>1, <1>5, SlaveActionShape
  <2>2. p[1] \in files
    BY <1>1, <2>1 DEF Answers, SaveAction
  <2>3. CASE UNCHANGED list
    BY <2>3 DEF list
  <2>4. CASE Pop({p}) /\ announced' = announced \cup {p[1]}
    <3>1. <<f, requests[f]>> \in {p}
      BY <1>1, <2>4, PopLeaves
    <3> QED BY <2>2, <2>4, <3>1
  <2> QED BY <1>5, <2>3, <2>4 DEF FetchedSaved
<1> QED BY <1>2, <1>3, <1>4, <1>5

\* A request that leaves in a round is one of too many with an unresolved channel.
LEMMA CheckLeavesSettled ==
    ASSUME TypeInv, NEW resolved \in SUBSET Channel, CheckFiles(resolved)
    PROVE  LeavesSettled
<1> DEFINE wanted == {requests[g] : g \in Requested(requests)}
           unresolved == wanted \ resolved
<1> SUFFICES ASSUME NEW f \in Requested(requests) \ Requested(requests')
             PROVE  Cardinality(wanted) > MaxUnresolved
  BY DEF LeavesSettled
<1>1. IsFiniteSet(Requested(requests))
  BY RequestsAssumption, FS_Subset DEF Requested
<1>2. IsFiniteSet(wanted)
  <2> DEFINE pick == [g \in Requested(requests) |-> requests[g]]
  <2>1. pick \in Surjection(Requested(requests), wanted)
    BY Fun_IsSurj
  <2> QED BY <1>1, <2>1, FS_Surjection
<1>3. IsFiniteSet(unresolved) /\ Cardinality(unresolved) <= Cardinality(wanted)
  BY <1>2, FS_Subset
<1>4. Cardinality(unresolved) \in Nat /\ Cardinality(wanted) \in Nat /\ MaxUnresolved \in Nat
  BY <1>2, <1>3, FS_CardinalityType, RequestsAssumption
<1>5. PICK kept \in KeptUnresolved(resolved) :
         requests' = [g \in File |-> IF requests[g] \in resolved \cup kept THEN requests[g] ELSE None]
  BY DEF CheckFiles
<1>6. requests[f] \in unresolved /\ requests[f] \notin kept
  BY <1>5 DEF Requested
<1>7. Cardinality(unresolved) > MaxUnresolved
  <2>1. CASE Cardinality(unresolved) <= MaxUnresolved
    BY <1>5, <1>6, <2>1 DEF KeptUnresolved
  <2> QED BY <1>4, <2>1
<1> QED BY <1>3, <1>4, <1>7

\* Every step takes only settled requests off the list.
LEMMA StepLeavesSettled ==
    ASSUME Settled, [Next]_vars
    PROVE  LeavesSettled
<1> USE DEF Settled, Owned
<1>1. CASE UNCHANGED list
  BY <1>1 DEF LeavesSettled, list
<1>2. CASE \E p \in Wanted : ContentApplied(p[1], p[2]) \/ StoreCommand(p[1], p[2])
  BY <1>2 DEF LeavesSettled, ContentApplied, StoreCommand, WithRequest, Requested, TypeInv
<1>3. CASE requests' = saved
  BY <1>3 DEF LeavesSettled, SavedHolds, Requested, TypeInv
<1>4. CASE SlaveTakes
  BY <1>4, TakenLeavesSettled
<1>5. CASE \E resolved \in SUBSET Channel : CheckFiles(resolved)
  BY <1>5, CheckLeavesSettled
<1>6. ASSUME NEW p \in fetching, p[1] \notin Held[p[2]], Pop({p})
      PROVE  LeavesSettled
  <2> SUFFICES ASSUME NEW f \in Requested(requests) \ Requested(requests')
               PROVE  f \notin Held[requests[f]]
    BY DEF LeavesSettled
  <2>1. <<f, requests[f]>> \in {p}
    BY <1>6, PopLeaves
  <2> QED BY <1>6, <2>1
<1>7. CASE \E c \in Channel : ChannelEnds(c)
  BY <1>1, <1>6, <1>7 DEF ChannelEnds, ChannelSends, ChannelRefuses, FetchEnds
<1> QED BY <1>1, <1>2, <1>3, <1>4, <1>5, <1>7
        DEF Next, vars, ChainHandlerFails, RemoveCommand, Upload, TellVerifiedChannels, Serve,
            SlaveIgnores, SlaveExpires, Restart, AskChannel

\* While the answers of the storage go to the actions that asked, a request leaves the list only
\* when its file is stored and announced, its channel does not have it, too many channels are
\* unresolved, or it was a command's, which is not saved (RequestsLeaveSettled).
THEOREM LeaveSettled == Spec => RequestsLeaveSettled
<1>1. Spec => []Settled
  BY SettledInit, SettledStep, PTL DEF Spec
<1>2. Settled /\ [Next]_vars => [LeavesSettled]_vars
  BY StepLeavesSettled
<1> QED BY <1>1, <1>2, PTL DEF Spec, RequestsLeaveSettled, LeavesSettled
=============================================================================
