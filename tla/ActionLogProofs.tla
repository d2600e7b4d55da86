--------------------------- MODULE ActionLogProofs ---------------------------
(***************************************************************************)
(* Proofs about ActionLog, for every set of transactions and every size    *)
(* and bound:                                                              *)
(*                                                                         *)
(*   LogImplementsStack  the log of entries and reverts, with its scan and *)
(*                       the index kept in memory, implements a stack of   *)
(*                       applied actions with commit and rollback          *)
(*   ReaderHolds         a reader of the log holds a prefix of what is     *)
(*                       committed, and counts its blocks right            *)
(***************************************************************************)
EXTENDS ActionLog, Induction, SequenceTheorems

(***************************************************************************)
(* Playing a log                                                           *)
(***************************************************************************)

\* f holds what is applied after each prefix of the log.
IsPlay(f, log) ==
  f = [n \in 0..Len(log) |-> IF n = 0 THEN <<>> ELSE Play(f[n - 1], log[n])]

\* What a stack may hold that a log has filled.
Held(log) == {log[i].action : i \in DOMAIN log} \union {[type |-> "hole"]}

\* An entry that is played keeps the stack a stack.
LEMMA PlayType ==
  ASSUME NEW V, NEW stack \in Seq(V), NEW e, e.action \in V, [type |-> "hole"] \in V
  PROVE  Play(stack, e) \in Seq(V)
<1>1. CASE stack # <<>>
  <2>1. Front(stack) \in Seq(V)
    BY <1>1 DEF Front
  <2> QED BY <2>1 DEF Play
<1>2. CASE stack = <<>>
  BY <1>2 DEF Play
<1> QED BY <1>1, <1>2

\* Playing a log is a recursion along its entries, and it ends.
LEMMA PlayExists ==
  ASSUME NEW E, NEW log \in Seq(E)
  PROVE  \E f \in [0..Len(log) -> Seq(Held(log))] : IsPlay(f, log)
<1> DEFINE V == Seq(Held(log))
           G == [p \in (1..Len(log)) \X V |-> Play(p[2], log[p[1]])]
<1>1. \A n \in 1..Len(log) : log[n].action \in Held(log)
  BY DEF Held
<1>2. [type |-> "hole"] \in Held(log)
  BY DEF Held
<1>3. G \in [(1..Len(log)) \X V -> V]
  <2>1. ASSUME NEW p \in (1..Len(log)) \X V
        PROVE  Play(p[2], log[p[1]]) \in V
    <3>1. p[1] \in 1..Len(log) /\ p[2] \in V
      OBVIOUS
    <3>2. log[p[1]].action \in Held(log)
      BY <1>1, <3>1
    <3> QED BY <1>2, <3>1, <3>2, PlayType
  <2> QED BY <2>1
<1>4. <<>> \in V /\ Len(log) \in Nat
  OBVIOUS
<1>5. PICK f \in [0..Len(log) -> V] :
         f = [n \in 0..Len(log) |-> IF n = 0 THEN <<>> ELSE G[<<n, f[n - 1]>>]]
  <2> HIDE DEF V, G
  <2>1. \E f \in [0..Len(log) -> V] : Unrolls(f, Len(log), <<>>, G)
    BY <1>3, <1>4, RecursionOnRange
  <2> QED BY <2>1 DEF Unrolls
<1>6. ASSUME NEW n \in 0..Len(log), n # 0
      PROVE  G[<<n, f[n - 1]>>] = Play(f[n - 1], log[n])
  <2>1. n \in 1..Len(log) /\ n - 1 \in 0..Len(log)
    BY <1>4, <1>6
  <2>2. <<n, f[n - 1]>> \in (1..Len(log)) \X V
    BY <1>5, <2>1
  <2> QED BY <2>2
<1>7. f = [n \in 0..Len(log) |-> IF n = 0 THEN <<>> ELSE Play(f[n - 1], log[n])]
  <2> HIDE DEF G, V
  <2> QED BY <1>5, <1>6
<1> QED BY <1>5, <1>7 DEF IsPlay

\* Logs that agree up to an entry are played to the same stack there.
LEMMA PlayAgrees ==
  ASSUME NEW E, NEW log \in Seq(E), NEW other \in Seq(E), NEW f, NEW g,
         IsPlay(f, log), IsPlay(g, other),
         NEW k \in Nat, k <= Len(log), k <= Len(other), \A i \in 1..k : log[i] = other[i]
  PROVE  f[k] = g[k]
<1> DEFINE T == {n \in Nat : n <= k => f[n] = g[n]}
<1>1. 0 \in T
  BY DEF IsPlay
<1>2. \A n \in T : n + 1 \in T
  <2> SUFFICES ASSUME NEW n \in T, n + 1 <= k
               PROVE  f[n + 1] = g[n + 1]
    OBVIOUS
  <2>1. /\ n + 1 \in 0..Len(log) /\ n + 1 \in 0..Len(other) /\ n + 1 # 0
        /\ (n + 1) - 1 = n /\ f[n] = g[n] /\ log[n + 1] = other[n + 1]
    OBVIOUS
  <2>2. f[n + 1] = Play(f[n], log[n + 1])
    BY <2>1 DEF IsPlay
  <2>3. g[n + 1] = Play(g[n], other[n + 1])
    BY <2>1 DEF IsPlay
  <2> QED BY <2>1, <2>2, <2>3
<1>3. T = Nat
  <2> HIDE DEF T
  <2>1. T \in SUBSET Nat
    BY DEF T
  <2> QED BY <1>1, <1>2, <2>1, InductionOnSet
<1> QED BY <1>3

\* What is applied after a log is the end of any play of it.
LEMMA EffectiveIsPlayed ==
  ASSUME NEW E, NEW log \in Seq(E), NEW f, IsPlay(f, log)
  PROVE  Effective(log) = f[Len(log)]
<1> DEFINE g == CHOOSE played :
                  played = [n \in 0..Len(log) |->
                              IF n = 0 THEN <<>> ELSE Play(played[n - 1], log[n])]
<1>1. Effective(log) = g[Len(log)]
  BY DEF Effective
<1>2. IsPlay(g, log)
  BY DEF IsPlay
<1>3. g[Len(log)] = f[Len(log)]
  <2> HIDE DEF g
  <2>1. Len(log) \in Nat
    OBVIOUS
  <2> QED BY <1>2, <2>1, PlayAgrees
<1> QED BY <1>1, <1>3

\* What is applied after the first n entries.
After(log, n) == Effective(SubSeq(log, 1, n))

\* The stack after each prefix comes from the one before by playing one entry.
LEMMA AfterUnfolds ==
  ASSUME NEW E, NEW log \in Seq(E)
  PROVE  /\ After(log, 0) = <<>>
         /\ \A n \in 1..Len(log) : After(log, n) = Play(After(log, n - 1), log[n])
         /\ \A n \in 0..Len(log) : After(log, n) \in Seq(Held(log))
         /\ After(log, Len(log)) = Effective(log)
<1>1. PICK f \in [0..Len(log) -> Seq(Held(log))] : IsPlay(f, log)
  BY PlayExists
<1>2. ASSUME NEW n \in 0..Len(log)
      PROVE  After(log, n) = f[n]
  <2>1. /\ SubSeq(log, 1, n) \in Seq(E) /\ Len(SubSeq(log, 1, n)) = n
        /\ \A i \in 1..n : SubSeq(log, 1, n)[i] = log[i]
    OBVIOUS
  <2>2. PICK s \in Seq(E) : s = SubSeq(log, 1, n)
    BY <2>1
  <2>3. PICK g \in [0..Len(s) -> Seq(Held(s))] : IsPlay(g, s)
    BY PlayExists
  <2>4. Effective(s) = g[n]
    BY <2>1, <2>2, <2>3, EffectiveIsPlayed
  <2>5. g[n] = f[n]
    <3>1. n \in Nat /\ n <= Len(s) /\ n <= Len(log) /\ \A i \in 1..n : s[i] = log[i]
      BY <2>1, <2>2
    <3> QED BY <1>1, <2>3, <3>1, PlayAgrees
  <2> QED BY <2>2, <2>4, <2>5 DEF After
<1>3. \A n \in 1..Len(log) : f[n] = Play(f[n - 1], log[n])
  BY <1>1 DEF IsPlay
<1>4. f[0] = <<>>
  BY <1>1 DEF IsPlay
<1>5. Effective(log) = f[Len(log)]
  BY <1>1, EffectiveIsPlayed
<1>6. \A n \in 1..Len(log) : n - 1 \in 0..Len(log) /\ n \in 0..Len(log)
  OBVIOUS
<1>7. 0 \in 0..Len(log) /\ Len(log) \in 0..Len(log)
  OBVIOUS
<1>8. After(log, 0) = <<>> /\ After(log, Len(log)) = Effective(log)
  BY <1>2, <1>4, <1>5, <1>7
<1>9. \A n \in 1..Len(log) : After(log, n) = Play(After(log, n - 1), log[n])
  BY <1>2, <1>3, <1>6
<1>10. \A n \in 0..Len(log) : After(log, n) \in Seq(Held(log))
  BY <1>1, <1>2
<1> QED BY <1>8, <1>9, <1>10

\* One more entry leaves what is applied after the others, and is played last.
LEMMA AfterAppend ==
  ASSUME NEW E, NEW log \in Seq(E), NEW e \in E
  PROVE  /\ \A n \in 0..Len(log) : After(Append(log, e), n) = After(log, n)
         /\ Effective(Append(log, e)) = Play(Effective(log), e)
<1>1. PICK longer \in Seq(E) : longer = Append(log, e)
  <2>1. Append(log, e) \in Seq(E)
    BY AppendProperties
  <2> QED BY <2>1
<1>2. Len(longer) = Len(log) + 1 /\ longer[Len(log) + 1] = e
  BY <1>1
<1>3. ASSUME NEW n \in 0..Len(log)
      PROVE  After(longer, n) = After(log, n)
  <2>1. SubSeq(longer, 1, n) = SubSeq(log, 1, n)
    BY <1>1
  <2> QED BY <2>1 DEF After
<1>4. Effective(longer) = Play(After(longer, Len(log)), e)
  <2>1. Len(longer) \in 1..Len(longer) /\ Len(longer) - 1 = Len(log)
    BY <1>2
  <2>2. After(longer, Len(longer)) = Play(After(longer, Len(longer) - 1), longer[Len(longer)])
    BY <2>1, AfterUnfolds
  <2>3. After(longer, Len(longer)) = Effective(longer)
    BY AfterUnfolds
  <2> QED BY <1>2, <2>1, <2>2, <2>3
<1>5. After(longer, Len(log)) = Effective(log)
  <2>1. Len(log) \in 0..Len(log)
    OBVIOUS
  <2> QED BY <1>3, <2>1, AfterUnfolds
<1> QED BY <1>1, <1>3, <1>4, <1>5

(***************************************************************************)
(* The invariant of the log                                                *)
(***************************************************************************)

\* From one place of the log to a later one nothing is lost: the same is applied at both, and
\* more in between.
Calm(log, a, b) ==
  /\ a <= b
  /\ After(log, a) = After(log, b)
  /\ \A n \in a..b : Len(After(log, n)) >= Len(After(log, b))

\* An action is logged with its place; a revert is of the action that is on top, and carries the
\* place where that was applied.
EntryOK(log, n) ==
  \/ log[n] = Entry("apply", n - 1, log[n].action)
  \/ \E p \in 0..(n - 2) :
       /\ log[n] = Entry("revert", p, log[n].action)
       /\ log[p + 1] = Entry("apply", p, log[n].action)
       /\ Calm(log, p + 1, n - 1)

\* The blocks of a stack are numbered one after the other.
Numbered(stack) ==
  \A i \in BlocksOf(stack) :
    stack[i].number = Cardinality(BlocksOf(SubSeq(stack, 1, i - 1)))

\* Some action is applied after each entry: the genesis block.
StackOK(log, n) == After(log, n) # <<>> /\ Numbered(After(log, n))

Entries == {actions[i] : i \in DOMAIN actions}

\* The inductive invariant.  The index kept in memory is behind the whole log, but nothing is
\* lost from there to the end.
LogInv ==
  /\ actions \in Seq(Entries)
  /\ saved \in 1..Len(actions)
  /\ revertIndex \in 0..(Len(actions) - 1)
  /\ actions[1] = Genesis
  /\ \A n \in 1..Len(actions) : EntryOK(actions, n) /\ StackOK(actions, n)
  /\ Calm(actions, revertIndex + 1, Len(actions))

\* What the invariant says of a log, it says of any log that begins the same.
LEMMA SameBeginning ==
  ASSUME NEW E, NEW log \in Seq(E), NEW other \in Seq(E),
         NEW m \in Nat, m <= Len(log), m <= Len(other), \A i \in 1..m : log[i] = other[i]
  PROVE  /\ \A n \in 0..m : After(other, n) = After(log, n)
         /\ \A a \in 0..m : \A b \in 0..m : Calm(log, a, b) => Calm(other, a, b)
         /\ \A n \in 1..m : EntryOK(log, n) => EntryOK(other, n)
         /\ \A n \in 1..m : StackOK(log, n) => StackOK(other, n)
<1>1. ASSUME NEW n \in 0..m
      PROVE  After(other, n) = After(log, n)
  <2>1. SubSeq(other, 1, n) = SubSeq(log, 1, n)
    OBVIOUS
  <2> QED BY <2>1 DEF After
<1>2. ASSUME NEW a \in 0..m, NEW b \in 0..m, Calm(log, a, b)
      PROVE  Calm(other, a, b)
  <2>1. \A n \in a..b : n \in 0..m
    OBVIOUS
  <2> QED BY <1>1, <1>2, <2>1 DEF Calm
<1>3. ASSUME NEW n \in 1..m, EntryOK(log, n)
      PROVE  EntryOK(other, n)
  <2>1. log[n] = other[n]
    OBVIOUS
  <2>2. CASE log[n] = Entry("apply", n - 1, log[n].action)
    BY <2>1, <2>2 DEF EntryOK
  <2>3. ASSUME NEW p \in 0..(n - 2),
               /\ log[n] = Entry("revert", p, log[n].action)
               /\ log[p + 1] = Entry("apply", p, log[n].action)
               /\ Calm(log, p + 1, n - 1)
        PROVE  EntryOK(other, n)
    <3>1. p + 1 \in 0..m /\ n - 1 \in 0..m /\ p + 1 \in 1..m
      OBVIOUS
    <3>2. Calm(other, p + 1, n - 1) /\ other[p + 1] = log[p + 1]
      BY <1>2, <2>3, <3>1
    <3> QED BY <2>1, <2>3, <3>2 DEF EntryOK
  <2> QED BY <1>3, <2>2, <2>3 DEF EntryOK
<1>4. ASSUME NEW n \in 1..m, StackOK(log, n)
      PROVE  StackOK(other, n)
  <2>1. n \in 0..m
    OBVIOUS
  <2> QED BY <1>1, <1>4, <2>1 DEF StackOK
<1> QED BY <1>1, <1>2, <1>3, <1>4

\* Nothing is lost over two stretches.
LEMMA CalmOn ==
  ASSUME NEW log, NEW a \in Nat, NEW b \in Nat, NEW c \in Nat, Calm(log, a, b), Calm(log, b, c)
  PROVE  Calm(log, a, c)
<1>1. a <= c /\ After(log, a) = After(log, c) /\ After(log, b) = After(log, c)
  BY DEF Calm
<1>2. ASSUME NEW n \in a..c
      PROVE  Len(After(log, n)) >= Len(After(log, c))
  <2>1. CASE n <= b
    BY <1>1, <2>1 DEF Calm
  <2>2. CASE ~ (n <= b)
    BY <2>2 DEF Calm
  <2> QED BY <2>1, <2>2
<1> QED BY <1>1, <1>2 DEF Calm

\* What an entry does to what is applied.
LEMMA EntryPlays ==
  ASSUME NEW E, NEW log \in Seq(E), NEW n \in 1..Len(log), EntryOK(log, n)
  PROVE  /\ log[n].type \in {"apply", "revert"}
         /\ log[n] = Entry(log[n].type, log[n].index, log[n].action)
         /\ log[n].index \in 0..(n - 1)
         /\ After(log, n - 1) \in Seq(Held(log)) /\ After(log, n) \in Seq(Held(log))
         /\ log[n].type = "apply" =>
              /\ log[n].index = n - 1
              /\ After(log, n) = Append(After(log, n - 1), log[n].action)
              /\ Len(After(log, n)) = Len(After(log, n - 1)) + 1
         /\ log[n].type = "revert" =>
              LET p == log[n].index IN
              /\ p \in 0..(n - 2)
              /\ log[p + 1] = Entry("apply", p, log[n].action)
              /\ Calm(log, p + 1, n - 1)
              /\ After(log, n - 1) = Append(After(log, p), log[n].action)
              /\ After(log, n) = After(log, p)
              /\ After(log, n) = Front(After(log, n - 1))
              /\ Len(After(log, n - 1)) = Len(After(log, n)) + 1
              /\ Last(After(log, n - 1)) = log[n].action
<1>1. /\ \A k \in 1..Len(log) : After(log, k) = Play(After(log, k - 1), log[k])
      /\ \A k \in 0..Len(log) : After(log, k) \in Seq(Held(log))
  BY AfterUnfolds
<1>2. PICK before \in Seq(Held(log)) : before = After(log, n - 1)
  <2>1. n - 1 \in 0..Len(log)
    OBVIOUS
  <2> QED BY <1>1, <2>1
<1>3. PICK stack \in Seq(Held(log)) : stack = After(log, n) /\ stack = Play(before, log[n])
  <2>1. n \in 0..Len(log)
    OBVIOUS
  <2> QED BY <1>1, <1>2, <2>1
<1>4. CASE log[n] = Entry("apply", n - 1, log[n].action)
  <2>1. log[n].type = "apply" /\ log[n].index = n - 1
    BY <1>4 DEF Entry
  <2>2. stack = Append(before, log[n].action)
    BY <1>3, <2>1 DEF Play
  <2>3. Len(stack) = Len(before) + 1
    BY <2>2
  <2>4. n - 1 \in 0..(n - 1)
    OBVIOUS
  <2> QED BY <1>2, <1>3, <1>4, <2>1, <2>2, <2>3, <2>4
<1>5. ASSUME NEW p \in 0..(n - 2),
             /\ log[n] = Entry("revert", p, log[n].action)
             /\ log[p + 1] = Entry("apply", p, log[n].action)
             /\ Calm(log, p + 1, n - 1)
      PROVE  /\ log[n].type = "revert" /\ log[n].index = p
             /\ before = Append(After(log, p), log[n].action)
             /\ stack = Front(before) /\ stack = After(log, p)
             /\ Len(before) = Len(stack) + 1 /\ Last(before) = log[n].action
  <2>1. log[n].type = "revert" /\ log[n].index = p
    BY <1>5 DEF Entry
  <2>2. log[p + 1].type = "apply" /\ log[p + 1].action = log[n].action
    BY <1>5 DEF Entry
  <2>3. PICK below \in Seq(Held(log)) : below = After(log, p)
    <3>1. p \in 0..Len(log)
      OBVIOUS
    <3> QED BY <1>1, <3>1
  <2>4. After(log, p + 1) = Play(below, log[p + 1])
    <3>1. p + 1 \in 1..Len(log) /\ (p + 1) - 1 = p
      OBVIOUS
    <3> QED BY <1>1, <2>3, <3>1
  <2>5. before = Append(below, log[n].action)
    BY <1>2, <1>5, <2>2, <2>4 DEF Calm, Play
  <2>6. PICK a \in Held(log) : a = log[n].action
    BY DEF Held
  <2>7. /\ Len(before) = Len(below) + 1 /\ before # <<>>
        /\ Last(before) = a /\ Front(before) = below
    BY <2>5, <2>6 DEF Last, Front
  <2>8. stack = below
    BY <1>3, <2>1, <2>6, <2>7 DEF Play
  <2> QED BY <2>1, <2>3, <2>5, <2>6, <2>7, <2>8
<1>6. CASE \E p \in 0..(n - 2) : /\ log[n] = Entry("revert", p, log[n].action)
                                /\ log[p + 1] = Entry("apply", p, log[n].action)
                                /\ Calm(log, p + 1, n - 1)
  <2>1. PICK p \in 0..(n - 2) : /\ log[n] = Entry("revert", p, log[n].action)
                                /\ log[p + 1] = Entry("apply", p, log[n].action)
                                /\ Calm(log, p + 1, n - 1)
    BY <1>6
  <2>2. /\ log[n].type = "revert" /\ log[n].index = p
        /\ before = Append(After(log, p), log[n].action)
        /\ stack = Front(before) /\ stack = After(log, p)
        /\ Len(before) = Len(stack) + 1 /\ Last(before) = log[n].action
    BY <1>5, <2>1
  <2>3. p \in 0..(n - 1)
    OBVIOUS
  <2> QED BY <1>2, <1>3, <2>1, <2>2, <2>3
<1> QED BY <1>4, <1>6 DEF EntryOK

(***************************************************************************)
(* The scan of revert()                                                    *)
(***************************************************************************)

\* The scan as a table: one row for each entry, one column for each mark.
IsScan(s) ==
  s = [p \in (-1..(Len(actions) - 1)) \X Nat |->
         LET index == p[1]
             next == IF At(index).type = "revert" THEN p[2] + 1 ELSE p[2] - 1
         IN  IF index < 0 THEN -1
             ELSE IF next >= 0 THEN s[<<index - 1, next>>] ELSE index]

\* The scan ends: the table can be filled row by row.
LEMMA ScanExists ==
  ASSUME NEW E, actions \in Seq(E)
  PROVE  \E s : IsScan(s) /\ \A from : Scan(from) = s[<<from, 0>>]
<1> DEFINE V == [Nat -> Int]
           step(m, n) == IF actions[n].type = "revert" THEN m + 1 ELSE m - 1
           G == [p \in (1..Len(actions)) \X V |->
                   [m \in Nat |-> IF step(m, p[1]) >= 0 THEN p[2][step(m, p[1])] ELSE p[1] - 1]]
           base == [m \in Nat |-> -1]
<1>1. Len(actions) \in Nat /\ base \in V
  OBVIOUS
<1>2. G \in [(1..Len(actions)) \X V -> V]
  OBVIOUS
<1>3. PICK f \in [0..Len(actions) -> V] : Unrolls(f, Len(actions), base, G)
  <2> HIDE DEF V, G, base
  <2> QED BY <1>1, <1>2, RecursionOnRange
<1>4. \A m \in Nat : f[0][m] = -1
  BY <1>1, <1>3 DEF Unrolls
<1>5. ASSUME NEW n \in 1..Len(actions), NEW m \in Nat
      PROVE  f[n][m] = IF step(m, n) >= 0 THEN f[n - 1][step(m, n)] ELSE n - 1
  <2>1. f[n] = G[<<n, f[n - 1]>>]
    <3> HIDE DEF G, base
    <3> QED BY <1>3, <1>5 DEF Unrolls
  <2>2. f[n - 1] \in V /\ <<n, f[n - 1]>> \in (1..Len(actions)) \X V
    <3> HIDE DEF V
    <3>1. n - 1 \in 0..Len(actions)
      BY <1>1, <1>5
    <3> QED BY <1>3, <1>5, <3>1
  <2> QED BY <2>1, <2>2
<1> DEFINE s == [p \in (-1..(Len(actions) - 1)) \X Nat |-> f[p[1] + 1][p[2]]]
<1>6. IsScan(s)
  <2> SUFFICES ASSUME NEW p \in (-1..(Len(actions) - 1)) \X Nat
               PROVE  f[p[1] + 1][p[2]] =
                        LET index == p[1]
                            next == IF At(index).type = "revert" THEN p[2] + 1 ELSE p[2] - 1
                        IN  IF index < 0 THEN -1
                            ELSE IF next >= 0 THEN s[<<index - 1, next>>] ELSE index
    BY DEF IsScan
  <2>1. PICK n \in 0..Len(actions), m \in Nat : p = <<n - 1, m>> /\ p[1] + 1 = n /\ p[2] = m
    <3>1. p[1] + 1 \in 0..Len(actions) /\ p[2] \in Nat /\ p = <<(p[1] + 1) - 1, p[2]>>
      BY <1>1
    <3> QED BY <3>1
  <2>2. CASE n = 0
    BY <1>4, <2>1, <2>2
  <2>3. CASE n # 0
    <3>1. n \in 1..Len(actions) /\ At(p[1]) = actions[n] /\ p[1] = n - 1 /\ ~ (n - 1 < 0)
      BY <1>1, <2>1, <2>3 DEF At
    <3>2. ASSUME step(m, n) >= 0
          PROVE  s[<<n - 2, step(m, n)>>] = f[n - 1][step(m, n)]
      <4>1. PICK k \in Nat : k = step(m, n)
        <5>1. CASE actions[n].type = "revert"
          BY <5>1
        <5>2. CASE actions[n].type # "revert"
          <6>1. step(m, n) = m - 1
            BY <5>2
          <6>2. m - 1 \in Nat
            BY <3>2, <6>1
          <6> QED BY <6>1, <6>2
        <5> QED BY <5>1, <5>2
      <4>2. <<n - 2, k>> \in (-1..(Len(actions) - 1)) \X Nat /\ (n - 2) + 1 = n - 1
        BY <1>1, <3>1
      <4>3. s[<<n - 2, k>>] = f[n - 1][k]
        BY <4>2
      <4> QED BY <4>1, <4>3
    <3>3. f[n][m] = IF step(m, n) >= 0 THEN f[n - 1][step(m, n)] ELSE n - 1
      BY <1>5, <3>1
    <3>4. (n - 1) - 1 = n - 2
      BY <3>1
    <3> HIDE DEF s
    <3> QED BY <2>1, <3>1, <3>2, <3>3, <3>4
  <2> QED BY <2>2, <2>3
<1>7. \A from : Scan(from) = (CHOOSE z : IsScan(z))[<<from, 0>>]
  BY DEF Scan, IsScan
<1>8. IsScan(CHOOSE z : IsScan(z))
  <2> HIDE DEF s
  <2> QED BY <1>6
<1> QED BY <1>7, <1>8

\* The place where the action was put on the stack that has as many others above it as the mark
\* says, with nothing lost below since; there is none when the stack is not so high.
FoundAt(top, k, mark) ==
  LET stack == After(actions, k)
  IN  IF mark < Len(stack)
      THEN /\ top \in 0..(k - 1)
           /\ At(top).type = "apply"
           /\ After(actions, top + 1) = SubSeq(stack, 1, Len(stack) - mark)
           /\ \A n \in (top + 1)..k : Len(After(actions, n)) >= Len(stack) - mark
      ELSE top = -1

\* From the end of a prefix the scan goes to that place.
Finds(s, k, mark) == FoundAt(s[<<k - 1, mark>>], k, mark)

\* The scan looks at one entry.
LEMMA ScanUnfolds ==
  ASSUME NEW s, IsScan(s), actions \in Seq(Entries), NEW mark \in Nat
  PROVE  /\ s[<<-1, mark>>] = -1
         /\ \A k \in 1..Len(actions) :
              IF actions[k].type = "revert" THEN s[<<k - 1, mark>>] = s[<<k - 2, mark + 1>>]
              ELSE IF mark = 0 THEN s[<<k - 1, mark>>] = k - 1
              ELSE s[<<k - 1, mark>>] = s[<<k - 2, mark - 1>>]
<1>1. \A index \in -1..(Len(actions) - 1) :
        s[<<index, mark>>] =
          LET next == IF At(index).type = "revert" THEN mark + 1 ELSE mark - 1
          IN  IF index < 0 THEN -1
              ELSE IF next >= 0 THEN s[<<index - 1, next>>] ELSE index
  BY DEF IsScan
<1>2. ASSUME NEW k \in 1..Len(actions)
      PROVE  IF actions[k].type = "revert" THEN s[<<k - 1, mark>>] = s[<<k - 2, mark + 1>>]
             ELSE IF mark = 0 THEN s[<<k - 1, mark>>] = k - 1
             ELSE s[<<k - 1, mark>>] = s[<<k - 2, mark - 1>>]
  <2>1. PICK index \in -1..(Len(actions) - 1) : index = k - 1
    OBVIOUS
  <2>2. At(index) = actions[k] /\ ~ (index < 0) /\ index - 1 = k - 2
    BY <2>1 DEF At
  <2>3. CASE actions[k].type = "revert"
    <3>1. s[<<index, mark>>] = s[<<index - 1, mark + 1>>]
      BY <1>1, <2>2, <2>3
    <3> QED BY <2>1, <2>2, <2>3, <3>1
  <2>4. CASE actions[k].type # "revert" /\ mark = 0
    <3>1. ~ (mark - 1 >= 0)
      BY <2>4
    <3>2. s[<<index, mark>>] = index
      BY <1>1, <2>2, <2>4, <3>1
    <3> QED BY <2>1, <2>4, <3>2
  <2>5. CASE actions[k].type # "revert" /\ mark # 0
    <3>1. s[<<index, mark>>] = s[<<index - 1, mark - 1>>]
      BY <1>1, <2>2, <2>5
    <3> QED BY <2>1, <2>2, <2>5, <3>1
  <2> QED BY <2>3, <2>4, <2>5
<1>3. s[<<-1, mark>>] = -1
  <2>1. PICK index \in -1..(Len(actions) - 1) : index = -1
    OBVIOUS
  <2>2. index < 0
    BY <2>1
  <2>3. s[<<index, mark>>] = -1
    BY <1>1, <2>2
  <2> QED BY <2>1, <2>3
<1> QED BY <1>2, <1>3

\* What is found from a prefix is found from the next one, where the mark is changed.
LEMMA FoundOn ==
  ASSUME LogInv, NEW k \in 1..Len(actions), NEW top, NEW m \in Nat, NEW mark \in Nat,
         FoundAt(top, k - 1, m),
         \/ actions[k].type = "apply" /\ mark = m + 1
         \/ actions[k].type = "revert" /\ m = mark + 1
  PROVE  FoundAt(top, k, mark)
<1>1. EntryOK(actions, k) /\ actions \in Seq(Entries)
  BY DEF LogInv
<1>2. PICK before \in Seq(Held(actions)) : before = After(actions, k - 1)
  BY <1>1, EntryPlays
<1>3. PICK stack \in Seq(Held(actions)) : stack = After(actions, k)
  BY <1>1, EntryPlays
<1>4. /\ Len(stack) - mark = Len(before) - m
      /\ m < Len(before) => SubSeq(stack, 1, Len(stack) - mark) = SubSeq(before, 1, Len(before) - m)
  <2>1. CASE actions[k].type = "apply" /\ mark = m + 1
    <3>1. stack = Append(before, actions[k].action)
      BY <1>1, <1>2, <1>3, <2>1, EntryPlays
    <3>2. PICK a \in Held(actions) : a = actions[k].action
      BY <1>1 DEF Held
    <3> QED BY <2>1, <3>1, <3>2
  <2>2. CASE actions[k].type = "revert" /\ m = mark + 1
    <3>1. Len(before) = Len(stack) + 1 /\ stack = Front(before)
      BY <1>1, <1>2, <1>3, <2>2, EntryPlays
    <3>2. stack = SubSeq(before, 1, Len(before) - 1)
      BY <3>1 DEF Front
    <3> QED BY <2>2, <3>1, <3>2
  <2> QED BY <2>1, <2>2
<1>5. mark < Len(stack) <=> m < Len(before)
  BY <1>4
<1>6. CASE m < Len(before)
  <2>1. /\ top \in 0..((k - 1) - 1) /\ At(top).type = "apply"
        /\ After(actions, top + 1) = SubSeq(before, 1, Len(before) - m)
        /\ \A n \in (top + 1)..(k - 1) : Len(After(actions, n)) >= Len(before) - m
    BY <1>2, <1>6 DEF FoundAt
  <2>2. top \in 0..(k - 1)
    BY <2>1
  <2>3. ASSUME NEW n \in (top + 1)..k
        PROVE  Len(After(actions, n)) >= Len(stack) - mark
    <3>1. CASE n = k
      BY <1>3, <3>1
    <3>2. CASE n # k
      <4>1. n \in (top + 1)..(k - 1)
        BY <2>1, <3>2
      <4>2. Len(After(actions, n)) >= Len(before) - m
        BY <2>1, <4>1
      <4> QED BY <1>4, <4>2
    <3> QED BY <3>1, <3>2
  <2> QED BY <1>3, <1>4, <1>5, <1>6, <2>1, <2>2, <2>3 DEF FoundAt
<1>7. CASE ~ (m < Len(before))
  BY <1>2, <1>3, <1>5, <1>7 DEF FoundAt
<1> QED BY <1>6, <1>7

\* The scan finds what it looks for, from every prefix with every mark.
LEMMA ScanFinds ==
  ASSUME LogInv, NEW s, IsScan(s)
  PROVE  \A k \in 0..Len(actions) : \A mark \in Nat : Finds(s, k, mark)
<1> DEFINE T == {k \in Nat : k <= Len(actions) => \A mark \in Nat : Finds(s, k, mark)}
<1>1. /\ actions \in Seq(Entries) /\ Len(actions) \in Nat
      /\ After(actions, 0) = <<>>
  BY AfterUnfolds DEF LogInv
<1>2. 0 \in T
  <2> SUFFICES ASSUME NEW mark \in Nat
               PROVE  Finds(s, 0, mark)
    OBVIOUS
  <2>1. s[<<-1, mark>>] = -1 /\ 0 - 1 = -1
    BY <1>1, ScanUnfolds
  <2> QED BY <1>1, <2>1 DEF Finds, FoundAt
<1>3. \A j \in T : j + 1 \in T
  <2> SUFFICES ASSUME NEW j \in T, j + 1 <= Len(actions), NEW mark \in Nat
               PROVE  Finds(s, j + 1, mark)
    OBVIOUS
  <2>1. PICK k \in 1..Len(actions) : k = j + 1 /\ j = k - 1 /\ (k - 1) - 1 = k - 2
    BY <1>1
  <2>2. \A m \in Nat : FoundAt(s[<<k - 2, m>>], k - 1, m)
    BY <2>1 DEF Finds
  <2>3. EntryOK(actions, k)
    BY DEF LogInv
  <2>4. CASE actions[k].type = "apply" /\ mark = 0
    <3>1. s[<<k - 1, mark>>] = k - 1
      BY <1>1, <2>4, ScanUnfolds
    <3>2. PICK stack \in Seq(Held(actions)) : stack = After(actions, k)
      BY <1>1, <2>3, EntryPlays
    <3>3. Len(stack) > 0
      <4>1. Len(stack) = Len(After(actions, k - 1)) + 1 /\ Len(After(actions, k - 1)) \in Nat
        BY <1>1, <2>3, <2>4, <3>2, EntryPlays
      <4> QED BY <4>1
    <3>4. /\ k - 1 \in 0..(k - 1) /\ At(k - 1) = actions[k] /\ (k - 1) + 1 = k
          /\ SubSeq(stack, 1, Len(stack) - mark) = stack
          /\ \A n \in k..k : n = k
      BY <2>4 DEF At
    <3>5. FoundAt(k - 1, k, mark)
      BY <2>4, <3>2, <3>3, <3>4 DEF FoundAt
    <3> QED BY <2>1, <3>1, <3>5 DEF Finds
  <2>5. CASE actions[k].type = "apply" /\ mark # 0
    <3>1. PICK m \in Nat : mark = m + 1 /\ m = mark - 1
      BY <2>5
    <3>2. s[<<k - 1, mark>>] = s[<<k - 2, mark - 1>>]
      <4>1. actions[k].type # "revert"
        BY <2>5
      <4> QED BY <1>1, <2>5, <4>1, ScanUnfolds
    <3>3. FoundAt(s[<<k - 1, mark>>], k, mark)
      BY <2>2, <2>5, <3>1, <3>2, FoundOn
    <3> QED BY <2>1, <3>3 DEF Finds
  <2>6. CASE actions[k].type = "revert"
    <3>1. PICK m \in Nat : m = mark + 1
      OBVIOUS
    <3>2. s[<<k - 1, mark>>] = s[<<k - 2, mark + 1>>]
      BY <1>1, <2>6, ScanUnfolds
    <3>3. FoundAt(s[<<k - 1, mark>>], k, mark)
      BY <2>2, <2>6, <3>1, <3>2, FoundOn
    <3> QED BY <2>1, <3>3 DEF Finds
  <2> QED BY <1>1, <2>3, <2>4, <2>5, <2>6, EntryPlays
<1>4. T = Nat
  <2> HIDE DEF T
  <2>1. T \in SUBSET Nat
    BY DEF T
  <2> QED BY <1>2, <1>3, <2>1, InductionOnSet
<1> QED BY <1>1, <1>4

\* What revert() takes is the action on top: nothing was lost since it was logged.
LEMMA RevertsTop ==
  ASSUME LogInv, NEW top, top = Scan(revertIndex), top # -1
  PROVE  /\ top \in 0..(Len(actions) - 1)
         /\ At(top) = Entry("apply", top, At(top).action)
         /\ Calm(actions, top + 1, Len(actions))
<1>1. PICK s : IsScan(s) /\ \A from : Scan(from) = s[<<from, 0>>]
  BY ScanExists DEF LogInv
<1>2. /\ actions \in Seq(Entries)
      /\ revertIndex + 1 \in 0..Len(actions) /\ (revertIndex + 1) - 1 = revertIndex
  BY DEF LogInv
<1>3. PICK stack \in Seq(Held(actions)) : stack = After(actions, revertIndex + 1)
  BY <1>2, AfterUnfolds
<1>4. FoundAt(top, revertIndex + 1, 0)
  <2>1. Finds(s, revertIndex + 1, 0)
    BY <1>1, <1>2, ScanFinds
  <2> QED BY <1>1, <1>2, <2>1 DEF Finds
<1>5. /\ top \in 0..revertIndex /\ At(top).type = "apply"
      /\ After(actions, top + 1) = SubSeq(stack, 1, Len(stack) - 0)
      /\ \A n \in (top + 1)..(revertIndex + 1) : Len(After(actions, n)) >= Len(stack) - 0
  BY <1>2, <1>3, <1>4 DEF FoundAt
<1>6. Len(stack) - 0 = Len(stack) /\ SubSeq(stack, 1, Len(stack)) = stack
  OBVIOUS
<1>7. top \in 0..(Len(actions) - 1) /\ top + 1 \in 1..Len(actions) /\ top + 1 \in Nat
      /\ top + 1 <= revertIndex + 1 /\ At(top) = actions[top + 1] /\ (top + 1) - 1 = top
  BY <1>2, <1>5 DEF At
<1>8. Calm(actions, top + 1, revertIndex + 1)
  BY <1>3, <1>5, <1>6, <1>7 DEF Calm
<1>9. Calm(actions, top + 1, Len(actions))
  BY <1>2, <1>7, <1>8, CalmOn DEF LogInv
<1>10. EntryOK(actions, top + 1)
  BY <1>7 DEF LogInv
<1>11. /\ At(top) = Entry(At(top).type, At(top).index, At(top).action)
       /\ At(top).index = top
  BY <1>2, <1>5, <1>7, <1>10, EntryPlays, SMTT(30)
<1> QED BY <1>5, <1>7, <1>9, <1>11

\* One entry is added, and the index kept in memory moves to a place from where nothing is lost.
LEMMA AddedKeepsLog ==
  ASSUME LogInv, NEW e, actions' = Append(actions, e), saved' = saved,
         EntryOK(actions', Len(actions')), StackOK(actions', Len(actions')),
         revertIndex' \in 0..Len(actions),
         Calm(actions', revertIndex' + 1, Len(actions'))
  PROVE  LogInv'
<1> DEFINE E == Entries \union {e}
<1>1. /\ actions \in Seq(E) /\ actions' \in Seq(E)
      /\ Len(actions) \in Nat /\ Len(actions') = Len(actions) + 1
      /\ \A i \in 1..Len(actions) : actions[i] = actions'[i]
      /\ Entries' = E /\ actions'[1] = actions[1]
  <2>1. /\ actions \in Seq(E) /\ e \in E /\ Len(actions) \in Nat /\ 1 \in 1..Len(actions)
    BY DEF LogInv
  <2>2. /\ actions' \in Seq(E) /\ Len(actions') = Len(actions) + 1
        /\ \A i \in 1..Len(actions) : actions[i] = actions'[i]
        /\ actions'[Len(actions) + 1] = e
        /\ DOMAIN actions' = 1..(Len(actions) + 1) /\ DOMAIN actions = 1..Len(actions)
    <3> HIDE DEF E
    <3> QED BY <2>1
  <2>3. Entries' = {actions'[i] : i \in DOMAIN actions'}
    BY DEF Entries
  <2>4. Entries' = E
    <3>1. \A i \in 1..(Len(actions) + 1) : i \in 1..Len(actions) \/ i = Len(actions) + 1
      BY <2>1
    <3>2. \A i \in 1..Len(actions) : i \in 1..(Len(actions) + 1)
      BY <2>1
    <3>3. Len(actions) + 1 \in 1..(Len(actions) + 1)
      BY <2>1
    <3> QED BY <2>2, <2>3, <3>1, <3>2, <3>3 DEF Entries
  <2> QED BY <2>1, <2>2, <2>4
<1> HIDE DEF E
<1>2. \A n \in 1..Len(actions) : EntryOK(actions', n) /\ StackOK(actions', n)
  <2>1. \A n \in 1..Len(actions) : EntryOK(actions, n) /\ StackOK(actions, n)
    BY DEF LogInv
  <2>2. Len(actions) <= Len(actions) /\ Len(actions) <= Len(actions')
    BY <1>1
  <2> QED BY <1>1, <2>1, <2>2, SameBeginning
<1>3. \A n \in 1..Len(actions') : EntryOK(actions', n) /\ StackOK(actions', n)
  <2>1. \A n \in 1..Len(actions') : n \in 1..Len(actions) \/ n = Len(actions')
    BY <1>1
  <2> QED BY <1>2, <2>1
<1>4. saved' \in 1..Len(actions') /\ revertIndex' \in 0..(Len(actions') - 1)
  BY <1>1 DEF LogInv
<1> QED BY <1>1, <1>3, <1>4 DEF LogInv

\* What an action does to the number of the blocks.
LEMMA BlocksAppend ==
  ASSUME NEW V, NEW stack \in Seq(V), NEW a \in V
  PROVE  /\ IsFiniteSet(BlocksOf(stack)) /\ Cardinality(BlocksOf(stack)) \in Nat
         /\ Cardinality(BlocksOf(Append(stack, a))) =
              Cardinality(BlocksOf(stack)) + IF a.type = "block" THEN 1 ELSE 0
         /\ \A i \in BlocksOf(Append(stack, a)) :
              \/ i \in BlocksOf(stack)
              \/ i = Len(stack) + 1 /\ a.type = "block"
<1>1. /\ BlocksOf(stack) \in SUBSET (1..Len(stack))
      /\ Len(stack) \in Nat
  BY DEF BlocksOf
<1>2. IsFiniteSet(BlocksOf(stack)) /\ Cardinality(BlocksOf(stack)) \in Nat
  <2>1. IsFiniteSet(1..Len(stack))
    BY <1>1, FS_Interval
  <2>2. IsFiniteSet(BlocksOf(stack))
    BY <1>1, <2>1, FS_Subset
  <2> QED BY <2>2, FS_CardinalityType
<1>3. /\ \A i \in DOMAIN Append(stack, a) : i \in DOMAIN stack \/ i = Len(stack) + 1
      /\ \A i \in DOMAIN stack : i \in DOMAIN Append(stack, a) /\ Append(stack, a)[i] = stack[i]
      /\ Len(stack) + 1 \in DOMAIN Append(stack, a) /\ Append(stack, a)[Len(stack) + 1] = a
  OBVIOUS
<1>4. BlocksOf(Append(stack, a)) =
        IF a.type = "block" THEN BlocksOf(stack) \union {Len(stack) + 1} ELSE BlocksOf(stack)
  BY <1>3 DEF BlocksOf
<1>5. Len(stack) + 1 \notin BlocksOf(stack)
  BY <1>1
<1>6. Cardinality(BlocksOf(stack) \union {Len(stack) + 1}) = Cardinality(BlocksOf(stack)) + 1
  BY <1>2, <1>5, FS_AddElement
<1>7. CASE a.type = "block"
  BY <1>2, <1>4, <1>6, <1>7
<1>8. CASE a.type # "block"
  BY <1>2, <1>4, <1>8
<1> QED BY <1>7, <1>8

\* The next block, and any transaction, keeps the blocks numbered.
LEMMA NumberedAppend ==
  ASSUME NEW V, NEW stack \in Seq(V), NEW a \in V, Numbered(stack),
         a.type = "block" => a.number = Cardinality(BlocksOf(stack))
  PROVE  Numbered(Append(stack, a))
<1> SUFFICES ASSUME NEW i \in BlocksOf(Append(stack, a))
             PROVE  Append(stack, a)[i].number
                      = Cardinality(BlocksOf(SubSeq(Append(stack, a), 1, i - 1)))
  BY DEF Numbered
<1>1. CASE i \in BlocksOf(stack)
  <2>1. i \in 1..Len(stack)
    BY <1>1 DEF BlocksOf
  <2>2. Append(stack, a)[i] = stack[i] /\ SubSeq(Append(stack, a), 1, i - 1) = SubSeq(stack, 1, i - 1)
    BY <2>1
  <2> QED BY <1>1, <2>2 DEF Numbered
<1>2. CASE i = Len(stack) + 1 /\ a.type = "block"
  <2>1. Append(stack, a)[i] = a /\ i - 1 = Len(stack)
        /\ SubSeq(Append(stack, a), 1, Len(stack)) = stack
    BY <1>2
  <2> QED BY <1>2, <2>1
<1> QED BY <1>1, <1>2, BlocksAppend

\* A handler logs an action.
LEMMA InsertKeepsLog ==
  ASSUME LogInv, NEW a, Insert(a),
         a.type = "block" => a.number = Cardinality(BlocksOf(Effective(actions)))
  PROVE  /\ LogInv'
         /\ Effective(actions') = Append(Effective(actions), a)
         /\ \A n \in 0..Len(actions) : After(actions', n) = After(actions, n)
<1> DEFINE e == Entry("apply", Len(actions), a)
           E == Entries \union {e}
<1>1. /\ e = Entry("apply", Len(actions), e.action) /\ e.type = "apply" /\ e.action = a
  BY DEF Entry
<1>2. /\ actions' = Append(actions, e) /\ revertIndex' = Len(actions) /\ saved' = saved
      /\ Len(actions) \in Nat
      /\ actions \in Seq(E) /\ e \in E
      /\ actions' \in Seq(E) /\ Len(actions') = Len(actions) + 1
      /\ actions'[Len(actions')] = e
  BY DEF Insert, LogInv
<1> HIDE DEF e, E
<1>3. /\ Effective(actions') = Append(Effective(actions), a)
      /\ \A n \in 0..Len(actions) : After(actions', n) = After(actions, n)
      /\ After(actions', Len(actions')) = Effective(actions')
      /\ After(actions, Len(actions)) = Effective(actions)
  BY <1>1, <1>2, AfterAppend, AfterUnfolds DEF Play
<1>4. EntryOK(actions', Len(actions'))
  BY <1>1, <1>2 DEF EntryOK
<1>5. StackOK(actions', Len(actions'))
  <2>1. PICK V : V = Held(actions) \union {a}
    OBVIOUS
  <2>2. PICK stack \in Seq(V) : stack = Effective(actions)
    <3>1. Len(actions) \in 0..Len(actions)
      BY <1>2
    <3>2. Effective(actions) \in Seq(Held(actions))
      BY <1>2, <1>3, <3>1, AfterUnfolds
    <3> QED BY <2>1, <3>2
  <2>3. Numbered(stack)
    <3>1. Len(actions) \in 1..Len(actions)
      BY DEF LogInv
    <3> QED BY <1>3, <2>2, <3>1 DEF LogInv, StackOK
  <2>4. Numbered(Append(stack, a)) /\ Append(stack, a) # <<>>
    BY <2>1, <2>2, <2>3, NumberedAppend
  <2> QED BY <1>3, <2>2, <2>4 DEF StackOK
<1>6. Calm(actions', revertIndex' + 1, Len(actions'))
  <2>1. revertIndex' + 1 = Len(actions') /\ Len(actions') \in Nat
    BY <1>2
  <2>2. PICK stack \in Seq(Held(actions')) : stack = After(actions', Len(actions'))
    <3>1. Len(actions') \in 0..Len(actions')
      BY <2>1
    <3> QED BY <1>2, <3>1, AfterUnfolds
  <2>3. Len(stack) >= Len(stack) /\ \A n \in Len(actions')..Len(actions') : n = Len(actions')
    BY <2>1
  <2> QED BY <2>1, <2>2, <2>3 DEF Calm
<1>7. LogInv'
  <2>1. revertIndex' \in 0..Len(actions)
    BY <1>2
  <2> QED BY <1>2, <1>4, <1>5, <1>6, <2>1, AddedKeepsLog
<1> QED BY <1>3, <1>7

\* A handler reverts the action on top.
LEMMA RevertKeepsLog ==
  ASSUME LogInv, Revert
  PROVE  /\ LogInv'
         /\ Effective(actions) # <<>>
         /\ Effective(actions') = Front(Effective(actions))
         /\ \A n \in 0..Len(actions) : After(actions', n) = After(actions, n)
<1>1. PICK top : top = Scan(revertIndex)
  OBVIOUS
<1>2. PICK e : e = [At(top) EXCEPT !.type = "revert"]
  OBVIOUS
<1>3. top > 0 /\ actions' = Append(actions, e) /\ revertIndex' = top - 1 /\ saved' = saved
  BY <1>1, <1>2 DEF Revert
<1>4. /\ top \in 0..(Len(actions) - 1)
      /\ At(top) = Entry("apply", top, At(top).action)
      /\ Calm(actions, top + 1, Len(actions))
  <2>1. top # -1
    BY <1>3
  <2> QED BY <1>1, <2>1, RevertsTop
<1>5. /\ e = Entry("revert", top, e.action) /\ e.action = At(top).action
  BY <1>2, <1>4 DEF Entry
<1> DEFINE E == Entries \union {e}
<1>6. /\ actions \in Seq(E) /\ e \in E /\ Len(actions) \in Nat
      /\ actions' \in Seq(E) /\ Len(actions') = Len(actions) + 1
      /\ actions'[Len(actions')] = e /\ actions'[top + 1] = At(top)
      /\ Len(actions) <= Len(actions) /\ Len(actions) <= Len(actions')
      /\ \A i \in 1..Len(actions) : actions[i] = actions'[i]
  BY <1>3, <1>4 DEF LogInv, At
<1>7. /\ top \in 1..Len(actions) /\ top + 1 \in 0..Len(actions) /\ Len(actions) \in 0..Len(actions)
      /\ top \in 0..(Len(actions') - 2) /\ Len(actions') - 1 = Len(actions)
      /\ Len(actions') \in 1..Len(actions') /\ top \in 0..Len(actions)
  BY <1>3, <1>4, <1>6
<1> HIDE DEF E
<1>8. /\ \A n \in 0..Len(actions) : After(actions', n) = After(actions, n)
      /\ \A a \in 0..Len(actions) : \A b \in 0..Len(actions) :
           Calm(actions, a, b) => Calm(actions', a, b)
  BY <1>6, SameBeginning
<1>9. EntryOK(actions', Len(actions'))
  <2>1. Calm(actions', top + 1, Len(actions))
    BY <1>4, <1>7, <1>8
  <2> QED BY <1>4, <1>5, <1>6, <1>7, <2>1 DEF EntryOK
<1>10. /\ After(actions', Len(actions)) = Append(After(actions', top), e.action)
       /\ After(actions', Len(actions')) = After(actions', top)
       /\ After(actions', Len(actions')) = Front(After(actions', Len(actions)))
       /\ Len(After(actions', Len(actions))) = Len(After(actions', Len(actions'))) + 1
       /\ After(actions', Len(actions')) \in Seq(Held(actions'))
  <2>1. e.type = "revert" /\ e.index = top
    BY <1>5 DEF Entry
  <2>2. PICK log \in Seq(E) : log = actions'
    BY <1>6
  <2>3. PICK n \in 1..Len(log) : n = Len(log)
    BY <1>7, <2>2
  <2>4. EntryOK(log, n) /\ log[n] = e
    BY <1>6, <1>9, <2>2, <2>3
  <2>5. /\ After(log, n) \in Seq(Held(log))
        /\ After(log, n - 1) = Append(After(log, top), e.action)
        /\ After(log, n) = After(log, top)
        /\ After(log, n) = Front(After(log, n - 1))
        /\ Len(After(log, n - 1)) = Len(After(log, n)) + 1
    BY <2>1, <2>4, EntryPlays
  <2> QED BY <1>7, <2>2, <2>3, <2>5
<1>11. /\ After(actions', Len(actions')) = Effective(actions')
       /\ After(actions, Len(actions)) = Effective(actions)
  BY <1>6, AfterUnfolds
<1>12. /\ Effective(actions') = Front(Effective(actions))
       /\ Effective(actions) # <<>>
  <2>1. StackOK(actions, Len(actions))
    <3>1. Len(actions) \in 1..Len(actions)
      BY DEF LogInv
    <3> QED BY <3>1 DEF LogInv
  <2> QED BY <1>7, <1>8, <1>10, <1>11, <2>1 DEF StackOK
<1>13. StackOK(actions', Len(actions'))
  <2>1. StackOK(actions, top)
    BY <1>7 DEF LogInv
  <2> QED BY <1>7, <1>8, <1>10, <2>1 DEF StackOK
<1>14. Calm(actions', top, Len(actions'))
  <2>1. PICK stack \in Seq(Held(actions')) : stack = After(actions', Len(actions'))
    BY <1>10
  <2>2. ASSUME NEW n \in top..Len(actions')
        PROVE  Len(After(actions', n)) >= Len(stack)
    <3>1. CASE n = top
      <4>1. stack = After(actions', top)
        BY <1>10, <2>1
      <4>2. Len(stack) \in Nat
        OBVIOUS
      <4>3. Len(stack) >= Len(stack)
        BY <4>2
      <4>4. After(actions', n) = stack
        BY <3>1, <4>1
      <4> QED BY <4>3, <4>4
    <3>2. CASE n = Len(actions')
      BY <2>1, <3>2
    <3>3. CASE n \in (top + 1)..Len(actions)
      <4>1. Len(After(actions, n)) >= Len(After(actions, Len(actions)))
        BY <1>4, <3>3 DEF Calm
      <4>2. n \in 0..Len(actions)
        BY <1>7, <3>3
      <4>3. PICK here \in Seq(Held(actions)) : here = After(actions, n)
        BY <1>6, <4>2, AfterUnfolds
      <4>4. Len(here) >= Len(stack) + 1
        BY <1>7, <1>8, <1>10, <2>1, <4>1, <4>3
      <4> QED BY <1>8, <4>2, <4>3, <4>4
    <3>4. n = top \/ n = Len(actions') \/ n \in (top + 1)..Len(actions)
      <4>1. PICK l \in Nat : l = Len(actions) /\ Len(actions') = l + 1 /\ n \in top..(l + 1)
        BY <1>6, <1>7
      <4>2. top \in Nat /\ n \in Nat /\ top <= n /\ n <= l + 1
        BY <1>7, <4>1
      <4> QED BY <4>1, <4>2
    <3> QED BY <3>1, <3>2, <3>3, <3>4
  <2>3. top <= Len(actions')
    BY <1>6, <1>7
  <2> QED BY <1>10, <2>1, <2>2, <2>3 DEF Calm
<1>15. LogInv'
  <2>1. revertIndex' \in 0..Len(actions) /\ revertIndex' + 1 = top
    BY <1>3, <1>6, <1>7
  <2> QED BY <1>3, <1>9, <1>13, <1>14, <2>1, AddedKeepsLog
<1> QED BY <1>8, <1>12, <1>15

\* What was not committed is dropped.
LEMMA DiscardKeepsLog ==
  ASSUME LogInv, Discard
  PROVE  /\ LogInv'
         /\ Effective(actions') = Effective(SubSeq(actions, 1, saved))
         /\ \A n \in 0..saved : After(actions', n) = After(actions, n)
<1>1. /\ actions' = SubSeq(actions, 1, saved) /\ revertIndex' = saved - 1 /\ saved' = saved
      /\ actions \in Seq(Entries) /\ saved \in 1..Len(actions) /\ saved \in 1..saved
      /\ (saved - 1) + 1 = saved /\ saved \in Nat /\ saved <= Len(actions)
  BY DEF Discard, LogInv
<1>2. /\ actions' \in Seq(Entries) /\ Len(actions') = saved /\ saved <= Len(actions')
      /\ \A i \in 1..saved : actions[i] = actions'[i]
  BY <1>1
<1>3. /\ \A n \in 0..saved : After(actions', n) = After(actions, n)
      /\ \A n \in 1..saved : EntryOK(actions, n) => EntryOK(actions', n)
      /\ \A n \in 1..saved : StackOK(actions, n) => StackOK(actions', n)
  BY <1>1, <1>2, SameBeginning, ZenonT(30)
<1>4. actions' \in Seq(Entries')
  <2>1. Entries' = {actions'[i] : i \in DOMAIN actions'}
    BY DEF Entries
  <2> QED BY <1>2, <2>1
<1>5. \A n \in 1..Len(actions') : EntryOK(actions', n) /\ StackOK(actions', n)
  <2>1. \A n \in 1..saved : n \in 1..Len(actions)
    BY <1>1
  <2> QED BY <1>2, <1>3, <2>1 DEF LogInv
<1>6. Calm(actions', revertIndex' + 1, Len(actions'))
  <2>1. revertIndex' + 1 = saved /\ Len(actions') = saved
    BY <1>1, <1>2
  <2>2. PICK stack \in Seq(Held(actions')) : stack = After(actions', saved)
    <3>1. saved \in 0..Len(actions')
      BY <1>1, <1>2
    <3> QED BY <1>2, <3>1, AfterUnfolds
  <2>3. Len(stack) >= Len(stack) /\ \A n \in saved..saved : n = saved
    BY <1>1
  <2> QED BY <1>1, <2>1, <2>2, <2>3 DEF Calm
<1>7. actions'[1] = Genesis
  BY <1>1, <1>2 DEF LogInv
<1>8. LogInv'
  BY <1>1, <1>2, <1>4, <1>5, <1>6, <1>7 DEF LogInv
<1> QED BY <1>1, <1>3, <1>8

\* The log starts with the genesis block.
LEMMA LogInit ==
  ASSUME Init
  PROVE  LogInv /\ Stack!Init
<1>1. /\ actions = <<Genesis>> /\ revertIndex = 0 /\ saved = 1
      /\ Len(actions) = 1 /\ DOMAIN actions = {1} /\ actions[1] = Genesis
  BY DEF Init
<1>2. actions \in Seq(Entries)
  BY <1>1 DEF Entries
<1>3. /\ After(actions, 0) = <<>>
      /\ After(actions, 1) = Play(After(actions, 0), actions[1])
      /\ After(actions, 1) = Effective(actions)
  <2>1. 1 \in 1..Len(actions) /\ 1 - 1 = 0
    BY <1>1
  <2>2. /\ After(actions, 0) = <<>>
        /\ \A n \in 1..Len(actions) : After(actions, n) = Play(After(actions, n - 1), actions[n])
        /\ After(actions, Len(actions)) = Effective(actions)
    BY <1>2, AfterUnfolds
  <2> QED BY <1>1, <2>1, <2>2
<1>4. /\ Genesis.type = "apply" /\ Genesis = Entry("apply", 1 - 1, Genesis.action)
      /\ Genesis.action = Block(0)
  BY DEF Genesis, Entry
<1>5. Effective(actions) = <<Block(0)>>
  BY <1>1, <1>3, <1>4 DEF Play
<1>6. EntryOK(actions, 1)
  BY <1>1, <1>4 DEF EntryOK
<1>7. StackOK(actions, 1)
  <2>1. <<>> \in Seq({Block(0)}) /\ Block(0) \in {Block(0)}
    OBVIOUS
  <2>2. BlocksOf(<<>>) = {} /\ Cardinality({}) = 0
    BY FS_EmptySet DEF BlocksOf
  <2>3. Numbered(<<>>)
    BY <2>2 DEF Numbered
  <2>4. Numbered(Append(<<>>, Block(0)))
    BY <2>1, <2>2, <2>3, NumberedAppend DEF Block
  <2>5. Append(<<>>, Block(0)) = <<Block(0)>> /\ <<Block(0)>> # <<>>
    OBVIOUS
  <2> QED BY <1>3, <1>5, <2>4, <2>5 DEF StackOK
<1>8. Calm(actions, 1, 1)
  <2>1. \A n \in 1..1 : n = 1
    OBVIOUS
  <2>2. Len(<<Block(0)>>) >= Len(<<Block(0)>>)
    OBVIOUS
  <2> QED BY <1>3, <1>5, <2>1, <2>2 DEF Calm
<1>9. LogInv
  <2>1. \A n \in 1..Len(actions) : n = 1
    BY <1>1
  <2>2. saved \in 1..Len(actions) /\ revertIndex \in 0..(Len(actions) - 1)
        /\ revertIndex + 1 = 1 /\ Len(actions) = 1
    BY <1>1
  <2> QED BY <1>1, <1>2, <1>6, <1>7, <1>8, <2>1, <2>2 DEF LogInv
<1>10. Stack!Init
  BY <1>1, <1>3, <1>5 DEF Stack!Init, Block, After
<1> QED BY <1>9, <1>10

\* Every step of the log is a step of the stack, or none of its business.
LEMMA LogStep ==
  ASSUME LogInv, [Next]_vars
  PROVE  LogInv' /\ [Stack!Next]_Stack!vars
<1>1. saved \in 0..saved /\ saved \in 0..Len(actions)
  BY DEF LogInv
<1>2. ASSUME NEW t \in Tx, Insert(Transaction(t))
      PROVE  LogInv' /\ Stack!Push
  <2>1. Transaction(t).type # "block" /\ saved' = saved
    BY <1>2 DEF Transaction, Insert
  <2>2. /\ LogInv'
        /\ Effective(actions') = Append(Effective(actions), Transaction(t))
        /\ After(actions', saved) = After(actions, saved)
    BY <1>1, <1>2, <2>1, InsertKeepsLog
  <2> QED BY <2>1, <2>2 DEF Stack!Push, Transaction, After
<1>3. CASE LogBlock
  <2>1. PICK a : a = Block(Cardinality(BlocksOf(Effective(actions))))
    OBVIOUS
  <2>2. Insert(a) /\ a.number = Cardinality(BlocksOf(Effective(actions))) /\ saved' = saved
    BY <1>3, <2>1 DEF LogBlock, Block, Insert
  <2>3. /\ LogInv'
        /\ Effective(actions') = Append(Effective(actions), a)
        /\ After(actions', saved) = After(actions, saved)
    BY <1>1, <2>2, InsertKeepsLog
  <2>4. /\ Stack!Blocks(Effective(actions)) = BlocksOf(Effective(actions))
        /\ \A S : Stack!Cardinality(S) = Cardinality(S)
    BY DEF Stack!Blocks, BlocksOf, Stack!Cardinality, Cardinality
  <2>5. Effective(actions') = Append(Effective(actions),
          [type |-> "block", number |-> Stack!Cardinality(Stack!Blocks(Effective(actions)))])
    BY <2>1, <2>3, <2>4 DEF Block
  <2>6. Stack!Push
    <3>1. Effective(SubSeq(actions', 1, saved')) = Effective(SubSeq(actions, 1, saved))
      BY <2>2, <2>3 DEF After
    <3> QED BY <2>5, <3>1 DEF Stack!Push
  <2> QED BY <2>3, <2>6 DEF Stack!Next
<1>4. CASE LogTransaction
  BY <1>2, <1>4 DEF LogTransaction, Stack!Next
<1>5. CASE Revert
  <2>1. /\ LogInv' /\ saved' = saved
        /\ Effective(actions) # <<>>
        /\ Effective(actions') = Front(Effective(actions))
        /\ After(actions', saved) = After(actions, saved)
    BY <1>1, <1>5, RevertKeepsLog DEF Revert
  <2>2. Stack!Pop
    BY <2>1 DEF Stack!Pop, Front, After
  <2> QED BY <2>1, <2>2 DEF Stack!Next
<1>6. CASE Commit
  <2>1. /\ actions' = actions /\ revertIndex' = revertIndex /\ saved' = Len(actions)
        /\ SubSeq(actions, 1, Len(actions)) = actions
        /\ Len(actions) \in 1..Len(actions)
    BY <1>6 DEF Commit, LogInv
  <2>2. LogInv'
    BY <2>1 DEF LogInv, Entries
  <2>3. Stack!Commit
    BY <2>1 DEF Stack!Commit
  <2> QED BY <2>2, <2>3 DEF Stack!Next
<1>7. CASE Discard
  <2>1. /\ LogInv' /\ saved' = saved
        /\ Effective(actions') = Effective(SubSeq(actions, 1, saved))
        /\ After(actions', saved) = After(actions, saved)
    BY <1>1, <1>7, DiscardKeepsLog DEF Discard
  <2>2. Stack!Drop
    BY <2>1 DEF Stack!Drop, After
  <2> QED BY <2>1, <2>2 DEF Stack!Next
<1>8. CASE UNCHANGED logVars
  <2>1. LogInv'
    BY <1>8 DEF logVars, LogInv, Entries
  <2> QED BY <1>8, <2>1 DEF logVars, Stack!vars
<1> QED BY <1>3, <1>4, <1>5, <1>6, <1>7, <1>8
        DEF Next, vars, logVars, Request, Deliver, Lose

\* The log of a node is a stack with commit and rollback to the handlers that use it: revert()
\* always takes the action on top, whatever was reverted, discarded or reloaded before
\* (ImplementsStack).
THEOREM LogImplementsStack == Spec => ImplementsStack
<1>1. Init => LogInv /\ Stack!Init
  BY LogInit
<1>2. LogInv /\ [Next]_vars => LogInv' /\ [Stack!Next]_Stack!vars
  BY LogStep
<1> QED BY <1>1, <1>2, PTL DEF Spec, ImplementsStack, Stack!Spec

(***************************************************************************)
(* The reader                                                              *)
(***************************************************************************)

\* A reader that has taken the first n entries: it holds what is applied there, and its head is
\* the number of the last block it holds.
ReaderAt(n) ==
  [next |-> n, view |-> After(actions, n),
   head |-> IF n = 0 THEN 0 ELSE Cardinality(BlocksOf(After(actions, n))) - 1]

\* The place after the last entry of a response, or after what the reader had.
Reached(start, entries, k) == IF k = 0 THEN start ELSE entries[k].index + 1

\* What was left out of a response between two of its entries changes nothing.
Linked(start, entries) ==
  \A k \in 1..Len(entries) :
    /\ entries[k].index \in 0..(Len(actions) - 1)
    /\ entries[k] = [At(entries[k].index) EXCEPT !.index = entries[k].index]
    /\ Calm(actions, Reached(start, entries, k - 1), entries[k].index)
    /\ At(entries[k].index).type = "revert" => At(entries[k].index).index < start

\* What get_actions has put together when it comes to an index.
CollectedOK(r, start, max, index) ==
  /\ r \in [leading : BOOLEAN, count : Int, stack : Seq([type : {"apply", "revert"}, index : Nat,
                                                       action : Held(actions)])]
  /\ Linked(start, r.stack)
  /\ r.count < max => Calm(actions, Reached(start, r.stack, Len(r.stack)), index)
  /\ r.leading /\ r.count < max => \A i \in start..(index - 1) : At(i).type = "revert"

\* What the invariant says of the entry at an index.
LEMMA AtIndex ==
  ASSUME LogInv, NEW i \in 0..(Len(actions) - 1)
  PROVE  /\ At(i) = actions[i + 1] /\ i + 1 \in 1..Len(actions) /\ i \in 0..Len(actions)
         /\ i + 1 \in 0..Len(actions) /\ i + 1 \in Nat
         /\ At(i).type \in {"apply", "revert"}
         /\ At(i) = Entry(At(i).type, At(i).index, At(i).action)
         /\ At(i).index \in 0..i /\ At(i).action \in Held(actions)
         /\ After(actions, i) \in Seq(Held(actions)) /\ After(actions, i + 1) \in Seq(Held(actions))
         /\ After(actions, i + 1) = Play(After(actions, i), At(i))
         /\ At(i).type = "apply" =>
              /\ At(i).index = i
              /\ After(actions, i + 1) = Append(After(actions, i), At(i).action)
              /\ Len(After(actions, i + 1)) = Len(After(actions, i)) + 1
         /\ At(i).type = "revert" =>
              LET p == At(i).index IN
              /\ p \in 0..(i - 1)
              /\ At(p).type = "apply"
              /\ Calm(actions, p + 1, i)
              /\ After(actions, i) = Append(After(actions, p), At(i).action)
              /\ After(actions, i + 1) = After(actions, p)
              /\ Len(After(actions, i)) = Len(After(actions, i + 1)) + 1
<1>1. PICK n \in 1..Len(actions) : n = i + 1 /\ n - 1 = i /\ At(i) = actions[n]
  BY DEF At, LogInv
<1>2. EntryOK(actions, n) /\ actions \in Seq(Entries)
  BY DEF LogInv
<1>3. After(actions, n) = Play(After(actions, n - 1), actions[n])
  BY <1>2, AfterUnfolds
<1>4. actions[n].action \in Held(actions)
  BY <1>2 DEF Held
<1>5. /\ actions[n].type \in {"apply", "revert"}
      /\ actions[n] = Entry(actions[n].type, actions[n].index, actions[n].action)
      /\ actions[n].index \in 0..(n - 1)
      /\ After(actions, n - 1) \in Seq(Held(actions)) /\ After(actions, n) \in Seq(Held(actions))
      /\ actions[n].type = "apply" =>
           /\ actions[n].index = n - 1
           /\ After(actions, n) = Append(After(actions, n - 1), actions[n].action)
           /\ Len(After(actions, n)) = Len(After(actions, n - 1)) + 1
  BY <1>2, EntryPlays
<1>6. ASSUME actions[n].type = "revert"
      PROVE  LET p == actions[n].index IN
             /\ p \in 0..(n - 2)
             /\ actions[p + 1].type = "apply"
             /\ Calm(actions, p + 1, n - 1)
             /\ After(actions, n - 1) = Append(After(actions, p), actions[n].action)
             /\ After(actions, n) = After(actions, p)
             /\ Len(After(actions, n - 1)) = Len(After(actions, n)) + 1
  <2>1. PICK p : p = actions[n].index
    OBVIOUS
  <2>2. /\ p \in 0..(n - 2)
        /\ actions[p + 1] = Entry("apply", p, actions[n].action)
        /\ Calm(actions, p + 1, n - 1)
        /\ After(actions, n - 1) = Append(After(actions, p), actions[n].action)
        /\ After(actions, n) = After(actions, p)
        /\ Len(After(actions, n - 1)) = Len(After(actions, n)) + 1
    BY <1>2, <1>6, <2>1, EntryPlays
  <2> QED BY <2>1, <2>2 DEF Entry
<1>7. /\ i \in 0..Len(actions) /\ i + 1 \in 0..Len(actions) /\ i + 1 \in Nat
      /\ n - 2 = i - 1
  BY <1>1
<1>8. At(i).type = "revert" =>
        LET p == At(i).index IN
        /\ p \in 0..(i - 1)
        /\ At(p).type = "apply"
        /\ Calm(actions, p + 1, i)
        /\ After(actions, i) = Append(After(actions, p), At(i).action)
        /\ After(actions, i + 1) = After(actions, p)
        /\ Len(After(actions, i)) = Len(After(actions, i + 1)) + 1
  BY <1>1, <1>6, <1>7 DEF At
<1> QED BY <1>1, <1>3, <1>4, <1>5, <1>7, <1>8

\* The reader takes an entry: between what it has and the entry nothing was lost.
LEMMA TakeMoves ==
  ASSUME LogInv, NEW a \in Nat, NEW j \in 0..(Len(actions) - 1), Calm(actions, a, j)
  PROVE  Take(ReaderAt(a), [At(j) EXCEPT !.index = j]) = ReaderAt(j + 1)
<1>1. PICK e : e = [At(j) EXCEPT !.index = j]
  OBVIOUS
<1>2. /\ e.index = j /\ e.type = At(j).type /\ e.action = At(j).action
      /\ At(j).type \in {"apply", "revert"}
  BY <1>1, AtIndex DEF Entry
<1>3. PICK before \in Seq(Held(actions)) : before = After(actions, j)
  BY AtIndex
<1>4. PICK stack \in Seq(Held(actions)) : stack = After(actions, j + 1)
  BY AtIndex
<1>5. After(actions, a) = before /\ stack = Play(before, At(j)) /\ j + 1 # 0
  BY <1>3, <1>4, AtIndex DEF Calm
<1>6. Play(before, e) = Play(before, At(j))
  BY <1>2 DEF Play
<1>7. PICK x \in Held(actions) : x = At(j).action
  BY AtIndex
<1>8. Cardinality(BlocksOf(before)) \in Nat /\ Cardinality(BlocksOf(stack)) \in Nat
  BY <1>7, BlocksAppend
<1>9. CASE a = 0
  <2>1. j = 0
    <3>1. SUFFICES ASSUME j # 0 PROVE FALSE
      OBVIOUS
    <3>2. before = <<>>
      BY <1>5, <1>9, AfterUnfolds DEF LogInv
    <3>3. j \in 1..Len(actions)
      BY <3>1
    <3> QED BY <1>3, <3>2, <3>3 DEF LogInv, StackOK
  <2>2. At(j) = Genesis
    BY <2>1 DEF At, LogInv
  <2>3. x = Block(0) /\ x.type = "block" /\ At(j).type = "apply"
    BY <1>7, <2>2 DEF Genesis, Entry, Block
  <2>4. before = <<>>
    BY <1>5, <1>9, AfterUnfolds DEF LogInv
  <2>5. stack = Append(before, x)
    BY <1>5, <1>7, <2>3 DEF Play
  <2>6. Cardinality(BlocksOf(before)) = 0
    <3>1. BlocksOf(before) = {}
      BY <2>4 DEF BlocksOf
    <3> QED BY <3>1, FS_EmptySet
  <2>7. Cardinality(BlocksOf(stack)) = 1
    BY <2>3, <2>5, <2>6, BlocksAppend
  <2> QED BY <1>1, <1>2, <1>4, <1>5, <1>6, <1>7, <1>9, <2>3, <2>7 DEF Take, ReaderAt
<1>10. CASE a # 0 /\ At(j).type = "apply"
  <2>1. stack = Append(before, x)
    BY <1>5, <1>7, <1>10 DEF Play
  <2>2. Cardinality(BlocksOf(stack)) =
          Cardinality(BlocksOf(before)) + IF x.type = "block" THEN 1 ELSE 0
    BY <2>1, BlocksAppend
  <2> QED BY <1>1, <1>2, <1>4, <1>5, <1>6, <1>7, <1>8, <1>10, <2>2 DEF Take, ReaderAt
<1>11. CASE a # 0 /\ At(j).type = "revert"
  <2>1. PICK p : p = At(j).index
    OBVIOUS
  <2>2. /\ p \in 0..(j - 1)
        /\ before = Append(After(actions, p), x)
        /\ stack = After(actions, p)
    BY <1>3, <1>4, <1>7, <1>11, <2>1, AtIndex
  <2>3. before = Append(stack, x)
    BY <2>2
  <2>4. Cardinality(BlocksOf(before)) =
          Cardinality(BlocksOf(stack)) + IF x.type = "block" THEN 1 ELSE 0
    BY <2>3, BlocksAppend
  <2> QED BY <1>1, <1>2, <1>4, <1>5, <1>6, <1>7, <1>8, <1>11, <2>4 DEF Take, ReaderAt
<1> QED BY <1>2, <1>9, <1>10, <1>11

\* The type of what is collected.
CollectedEntry == [type : {"apply", "revert"}, index : Nat, action : Held(actions)]

\* A revert that is left out of a response takes back its last entry.
LEMMA UnseenIsLast ==
  ASSUME LogInv, NEW start \in 0..Len(actions), NEW entries \in Seq(CollectedEntry),
         NEW index \in start..(Len(actions) - 1), Linked(start, entries),
         Calm(actions, Reached(start, entries, Len(entries)), index),
         At(index).type = "revert", At(index).index >= start
  PROVE  /\ Len(entries) # 0
         /\ entries[Len(entries)].index = At(index).index
<1>1. PICK p : p = At(index).index
  OBVIOUS
<1>2. /\ start \in Nat /\ index \in 0..(Len(actions) - 1) /\ Len(actions) \in Nat
      /\ Len(entries) \in Nat
  BY DEF LogInv
<1>3. /\ p \in 0..(index - 1) /\ p >= start
      /\ Calm(actions, p + 1, index)
      /\ After(actions, index + 1) = After(actions, p)
      /\ Len(After(actions, index)) = Len(After(actions, index + 1)) + 1
      /\ After(actions, index) \in Seq(Held(actions))
  BY <1>1, <1>2, AtIndex
<1>4. PICK h \in Nat : h = Len(After(actions, p)) /\ Len(After(actions, index)) = h + 1
  <2>1. p \in 0..(Len(actions) - 1)
    BY <1>2, <1>3
  <2>2. After(actions, p) \in Seq(Held(actions))
    BY <2>1, AtIndex
  <2>3. Len(After(actions, p)) \in Nat
    BY <2>2
  <2> QED BY <1>3, <2>3
<1>5. CASE Len(entries) = 0
  <2>1. Reached(start, entries, Len(entries)) = start
    BY <1>5 DEF Reached
  <2>2. p \in start..index
    BY <1>2, <1>3
  <2>3. h >= h + 1
    BY <1>4, <2>1, <2>2 DEF Calm
  <2> QED BY <2>3
<1>6. CASE Len(entries) # 0
  <2>1. PICK k \in 1..Len(entries) : k = Len(entries)
    BY <1>2, <1>6
  <2>2. PICK q \in 0..(Len(actions) - 1) :
          /\ q = entries[k].index
          /\ At(q).type = "revert" => At(q).index < start
    BY DEF Linked
  <2>3. Calm(actions, q + 1, index)
    <3>1. Reached(start, entries, Len(entries)) = q + 1
      BY <1>6, <2>1, <2>2 DEF Reached
    <3> QED BY <3>1
  <2>4. q + 1 <= index /\ After(actions, q + 1) = After(actions, index)
    BY <2>3 DEF Calm
  <2>5. p <= q
    <3>1. SUFFICES ASSUME ~ (p <= q) PROVE FALSE
      OBVIOUS
    <3>2. p \in (q + 1)..index
      BY <1>2, <1>3, <3>1
    <3>3. h >= h + 1
      BY <1>4, <2>3, <3>2 DEF Calm
    <3> QED BY <3>3
  <2>6. ASSUME p # q
        PROVE  FALSE
    <3>1. q \in (p + 1)..index
      BY <1>2, <1>3, <2>4, <2>5, <2>6
    <3>2. Len(After(actions, q)) >= h + 1
      BY <1>3, <1>4, <3>1 DEF Calm
    <3>3. PICK g \in Nat : g = Len(After(actions, q))
      <4>1. After(actions, q) \in Seq(Held(actions))
        BY AtIndex
      <4> QED BY <4>1
    <3>4. CASE At(q).type = "apply"
      <4>1. Len(After(actions, q + 1)) = g + 1
        BY <3>3, <3>4, AtIndex
      <4> QED BY <1>4, <2>4, <3>2, <3>3, <4>1
    <3>5. CASE At(q).type = "revert"
      <4>1. PICK o : o = At(q).index
        OBVIOUS
      <4>2. /\ o \in 0..(q - 1) /\ Calm(actions, o + 1, q)
            /\ Len(After(actions, q)) = Len(After(actions, q + 1)) + 1
        BY <3>5, <4>1, AtIndex
      <4>3. p \in (o + 1)..q
        <5>1. o < start
          BY <2>2, <3>5, <4>1
        <5>2. o \in Nat /\ q \in Nat /\ p \in Nat /\ o < p
          BY <1>2, <1>3, <4>2, <5>1
        <5> QED BY <2>5, <5>2
      <4>4. h >= g
        BY <1>4, <3>3, <4>2, <4>3 DEF Calm
      <4> QED BY <1>4, <3>2, <3>3, <4>4
    <3> QED BY <3>4, <3>5, AtIndex
  <2> QED BY <1>1, <1>6, <2>1, <2>2, <2>6
<1> QED BY <1>5, <1>6

\* get_actions looks at one more entry.
LEMMA CollectStep ==
  ASSUME LogInv, NEW start \in 0..Len(actions), NEW max \in Nat,
         NEW index \in start..(Len(actions) - 1), NEW r, CollectedOK(r, start, max, index)
  PROVE  CollectedOK(Collect(start, max, r, index), start, max, index + 1)
<1>1. /\ start \in Nat /\ index \in 0..(Len(actions) - 1) /\ Len(actions) \in Nat
      /\ index \in Nat
  BY DEF LogInv
<1>2. PICK e : e = At(index)
  OBVIOUS
<1>3. /\ e.type \in {"apply", "revert"} /\ e = Entry(e.type, e.index, e.action)
      /\ e.index \in 0..index /\ e.action \in Held(actions)
  BY <1>1, <1>2, AtIndex
<1>4. PICK entries \in Seq(CollectedEntry) : entries = r.stack
  BY DEF CollectedOK, CollectedEntry
<1>5. r.leading \in BOOLEAN /\ r.count \in Int /\ Linked(start, entries) /\ Len(entries) \in Nat
  BY <1>4 DEF CollectedOK
<1>6. \A a : Size(a) \in Int
  BY ActionLogAssumption DEF Size
<1>7. PICK next : next = Collect(start, max, r, index)
  OBVIOUS
<1>8. CASE r.count >= max
  <2>1. next = r
    BY <1>7, <1>8 DEF Collect
  <2>2. ~ (r.count < max)
    BY <1>5, <1>8
  <2> QED BY <1>7, <2>1, <2>2 DEF CollectedOK
<1>9. ASSUME r.count < max
      PROVE  /\ Calm(actions, Reached(start, entries, Len(entries)), index)
             /\ r.leading => \A i \in start..(index - 1) : At(i).type = "revert"
             /\ ~ (r.count >= max)
  BY <1>4, <1>5, <1>9 DEF CollectedOK
<1> DEFINE leading == r.leading /\ e.type = "revert"
           unseen == ~ leading /\ e.type = "revert" /\ e.index >= start
<1>10. CASE r.count < max /\ ~ unseen
  <2>1. PICK x : x = [e EXCEPT !.index = index]
    OBVIOUS
  <2>2. x \in CollectedEntry /\ x.index = index
    BY <1>1, <1>3, <2>1 DEF Entry, CollectedEntry
  <2>3. PICK more \in Seq(CollectedEntry) : more = Append(entries, x)
    <3>1. Append(entries, x) \in Seq(CollectedEntry)
      BY <2>2, AppendProperties
    <3> QED BY <3>1
  <2>4. /\ Len(more) = Len(entries) + 1 /\ more[Len(entries) + 1] = x
        /\ \A k \in 1..Len(entries) : more[k] = entries[k]
    BY <2>2, <2>3
  <2>5. next = [leading |-> leading, count |-> r.count + Size(e.action), stack |-> more]
    BY <1>2, <1>4, <1>7, <1>9, <1>10, <2>1, <2>3 DEF Collect
  <2>6. \A k \in 0..Len(entries) : Reached(start, more, k) = Reached(start, entries, k)
    BY <2>4 DEF Reached
  <2>7. e.type = "revert" => e.index < start
    <3>1. SUFFICES ASSUME e.type = "revert", ~ (e.index < start) PROVE FALSE
      OBVIOUS
    <3>2. r.leading
      BY <1>1, <1>3, <1>10, <3>1
    <3>3. e.index \in 0..(index - 1) /\ At(e.index).type = "apply"
      BY <1>1, <1>2, <3>1, AtIndex
    <3>4. e.index \in start..(index - 1)
      BY <1>1, <3>1, <3>3
    <3>5. At(e.index).type = "revert"
      BY <1>9, <1>10, <3>2, <3>4
    <3> QED BY <3>3, <3>5
  <2>8. Linked(start, more)
    <3> SUFFICES ASSUME NEW k \in 1..Len(more)
                 PROVE  /\ more[k].index \in 0..(Len(actions) - 1)
                        /\ more[k] = [At(more[k].index) EXCEPT !.index = more[k].index]
                        /\ Calm(actions, Reached(start, more, k - 1), more[k].index)
                        /\ At(more[k].index).type = "revert" => At(more[k].index).index < start
      BY DEF Linked
    <3>1. CASE k \in 1..Len(entries)
      <4>1. k - 1 \in 0..Len(entries)
        BY <3>1
      <4>2. Reached(start, more, k - 1) = Reached(start, entries, k - 1) /\ more[k] = entries[k]
        BY <2>4, <2>6, <3>1, <4>1
      <4> QED BY <1>5, <3>1, <4>2 DEF Linked
    <3>2. CASE k = Len(entries) + 1
      <4>1. k - 1 = Len(entries) /\ k - 1 \in 0..Len(entries) /\ more[k] = x
        BY <1>5, <2>4, <3>2
      <4>2. Reached(start, more, k - 1) = Reached(start, entries, Len(entries))
        BY <2>6, <4>1
      <4> QED BY <1>1, <1>2, <1>9, <1>10, <2>1, <2>2, <2>7, <4>1, <4>2
    <3> QED BY <1>5, <2>4, <3>1, <3>2
  <2>9. Calm(actions, Reached(start, more, Len(more)), index + 1)
    <3>1. Reached(start, more, Len(more)) = index + 1
      BY <1>5, <2>2, <2>4 DEF Reached
    <3>2. PICK stack \in Seq(Held(actions)) : stack = After(actions, index + 1)
      BY <1>1, AtIndex
    <3>3. /\ index + 1 <= index + 1 /\ Len(stack) >= Len(stack)
          /\ \A n \in (index + 1)..(index + 1) : n = index + 1
      BY <1>1
    <3> QED BY <3>1, <3>2, <3>3 DEF Calm
  <2>10. leading => \A i \in start..((index + 1) - 1) : At(i).type = "revert"
    <3> SUFFICES ASSUME leading, NEW i \in start..((index + 1) - 1)
                 PROVE  At(i).type = "revert"
      OBVIOUS
    <3>1. i \in start..(index - 1) \/ i = index
      BY <1>1
    <3> QED BY <1>2, <1>9, <1>10, <3>1
  <2>11. leading \in BOOLEAN /\ r.count + Size(e.action) \in Int
    BY <1>5, <1>6
  <2>12. PICK count \in Int : count = r.count + Size(e.action)
    BY <2>11
  <2>13. PICK l \in BOOLEAN : l = leading
    OBVIOUS
  <2>14. next = [leading |-> l, count |-> count, stack |-> more]
    BY <2>5, <2>12, <2>13
  <2>15. next.stack = more /\ next.leading = l
    BY <2>14
  <2>16. next \in [leading : BOOLEAN, count : Int, stack : Seq(CollectedEntry)]
    BY <2>14
  <2> HIDE DEF leading, unseen
  <2> QED BY <1>7, <2>8, <2>9, <2>10, <2>13, <2>15, <2>16 DEF CollectedOK, CollectedEntry
<1>11. CASE r.count < max /\ unseen
  <2>1. PICK p : p = e.index
    OBVIOUS
  <2>2. /\ Len(entries) # 0
        /\ entries[Len(entries)].index = p
    BY <1>2, <1>5, <1>9, <1>11, <2>1, UnseenIsLast
  <2>3. PICK fewer \in Seq(CollectedEntry) : fewer = Front(entries)
    <3>1. Front(entries) \in Seq(CollectedEntry)
      BY <1>5, <2>2 DEF Front
    <3> QED BY <3>1
  <2>4. PICK k \in 1..Len(entries) : k = Len(entries) /\ Len(fewer) = k - 1 /\ k - 1 \in Nat
    <3>1. Len(entries) - 1 \in Nat /\ Len(entries) \in 1..Len(entries)
      BY <1>5, <2>2
    <3>2. Len(fewer) = Len(entries) - 1
      <4>1. PICK n \in Nat : n = Len(entries) - 1
        BY <3>1
      <4>2. n <= Len(entries) /\ fewer = SubSeq(entries, 1, n)
        BY <1>5, <2>3, <4>1 DEF Front
      <4>3. Len(fewer) = n
        BY <1>5, <4>2
      <4> QED BY <4>1, <4>3
    <3> QED BY <3>1, <3>2
  <2>5. \A i \in 1..(k - 1) : fewer[i] = entries[i] /\ i \in 1..Len(entries)
    BY <2>3, <2>4 DEF Front
  <2>6. next = [leading |-> FALSE, count |-> r.count - Size(Last(entries).action), stack |-> fewer]
    BY <1>2, <1>4, <1>7, <1>9, <1>11, <2>3 DEF Collect
  <2>7. \A i \in 0..(k - 1) : Reached(start, fewer, i) = Reached(start, entries, i)
    BY <2>4, <2>5 DEF Reached
  <2>8. Linked(start, fewer)
    <3> SUFFICES ASSUME NEW i \in 1..Len(fewer)
                 PROVE  /\ fewer[i].index \in 0..(Len(actions) - 1)
                        /\ fewer[i] = [At(fewer[i].index) EXCEPT !.index = fewer[i].index]
                        /\ Calm(actions, Reached(start, fewer, i - 1), fewer[i].index)
                        /\ At(fewer[i].index).type = "revert" => At(fewer[i].index).index < start
      BY DEF Linked
    <3>1. i - 1 \in 0..(k - 1) /\ i \in 1..(k - 1)
      BY <2>4
    <3>2. /\ Reached(start, fewer, i - 1) = Reached(start, entries, i - 1)
          /\ fewer[i] = entries[i] /\ i \in 1..Len(entries)
      BY <2>5, <2>7, <3>1
    <3> QED BY <1>5, <3>2 DEF Linked
  <2>9. PICK b : b = Reached(start, entries, k - 1) /\ b = Reached(start, fewer, Len(fewer))
    <3>1. k - 1 \in 0..(k - 1)
      BY <2>4
    <3> QED BY <2>4, <2>7, <3>1
  <2>10. Calm(actions, b, p) /\ b \in Nat
    <3>1. Calm(actions, b, p)
      BY <1>5, <2>2, <2>4, <2>9 DEF Linked
    <3>2. PICK j \in Nat : j = k - 1
      BY <2>4
    <3>3. b = IF j = 0 THEN start ELSE entries[j].index + 1
      BY <2>9, <3>2 DEF Reached
    <3>4. CASE j = 0
      BY <1>1, <3>1, <3>3, <3>4
    <3>5. CASE j # 0
      <4>1. j \in 1..Len(entries)
        BY <2>4, <3>2, <3>5
      <4>2. entries[j].index \in 0..(Len(actions) - 1)
        BY <1>5, <4>1 DEF Linked
      <4> QED BY <3>1, <3>3, <3>5, <4>2
    <3> QED BY <3>4, <3>5
  <2>11. Calm(actions, p, index + 1) /\ p \in Nat
    <3>1. /\ p \in 0..(index - 1) /\ Calm(actions, p + 1, index)
          /\ After(actions, index + 1) = After(actions, p)
          /\ Len(After(actions, index)) = Len(After(actions, index + 1)) + 1
      BY <1>1, <1>2, <1>11, <2>1, AtIndex
    <3>2. PICK stack \in Seq(Held(actions)) : stack = After(actions, index + 1)
      BY <1>1, AtIndex
    <3>3. ASSUME NEW n \in p..(index + 1)
          PROVE  Len(After(actions, n)) >= Len(stack)
      <4>1. Len(stack) \in Nat
        OBVIOUS
      <4>2. CASE n = p
        BY <3>1, <3>2, <4>1, <4>2
      <4>3. CASE n = index + 1
        BY <3>2, <4>1, <4>3
      <4>4. CASE n \in (p + 1)..index
        <5>1. Len(After(actions, n)) >= Len(stack) + 1
          BY <3>1, <3>2, <4>4 DEF Calm
        <5>2. n \in 0..(Len(actions) - 1)
          BY <1>1, <3>1, <4>4
        <5>3. After(actions, n) \in Seq(Held(actions))
          BY <5>2, AtIndex
        <5>4. Len(After(actions, n)) \in Nat
          BY <5>3
        <5> QED BY <4>1, <5>1, <5>4
      <4> QED BY <1>1, <3>1, <4>2, <4>3, <4>4
    <3>4. p <= index + 1 /\ p \in Nat
      BY <1>1, <3>1
    <3> QED BY <3>1, <3>2, <3>3, <3>4 DEF Calm
  <2>12. Calm(actions, Reached(start, fewer, Len(fewer)), index + 1)
    <3>1. index + 1 \in Nat
      BY <1>1
    <3> QED BY <2>9, <2>10, <2>11, <3>1, CalmOn
  <2>13. r.count - Size(Last(entries).action) \in Int
    BY <1>5, <1>6
  <2>14. PICK count \in Int : count = r.count - Size(Last(entries).action)
    BY <2>13
  <2>15. next.stack = fewer /\ next.leading = FALSE
    BY <2>6
  <2>16. next \in [leading : BOOLEAN, count : Int, stack : Seq(CollectedEntry)]
    BY <2>6, <2>14
  <2> HIDE DEF leading, unseen
  <2> QED BY <1>7, <2>8, <2>12, <2>15, <2>16 DEF CollectedOK, CollectedEntry
<1> QED BY <1>5, <1>8, <1>10, <1>11

\* The type of what get_actions puts together.
Gathering == [leading : BOOLEAN, count : Int, stack : Seq(CollectedEntry)]

\* get_actions keeps the type, whatever it has put together.
LEMMA CollectType ==
  ASSUME LogInv, NEW start \in Nat, NEW max \in Nat, NEW index \in 0..(Len(actions) - 1),
         NEW r \in Gathering
  PROVE  Collect(start, max, r, index) \in Gathering
<1>1. PICK e : e = At(index)
  OBVIOUS
<1>2. /\ e.type \in {"apply", "revert"} /\ e = Entry(e.type, e.index, e.action)
      /\ index \in Nat /\ e.action \in Held(actions)
  BY <1>1, AtIndex
<1>3. PICK x : x = [e EXCEPT !.index = index]
  OBVIOUS
<1>4. x \in CollectedEntry
  BY <1>2, <1>3 DEF Entry, CollectedEntry
<1>5. PICK entries \in Seq(CollectedEntry) : entries = r.stack
  BY DEF Gathering
<1>6. Append(entries, x) \in Seq(CollectedEntry)
  BY <1>4, AppendProperties
<1>7. Front(entries) \in Seq(CollectedEntry)
  <2>1. CASE entries = <<>>
    <3>1. Front(entries) = <<>>
      BY <2>1 DEF Front
    <3> QED BY <3>1
  <2>2. CASE entries # <<>>
    BY <2>2 DEF Front
  <2> QED BY <2>1, <2>2
<1>8. PICK fewer \in Seq(CollectedEntry) : fewer = Front(entries)
  BY <1>7
<1>9. PICK more \in Seq(CollectedEntry) : more = Append(entries, x)
  BY <1>6
<1>10. r.leading \in BOOLEAN /\ r.count \in Int /\ \A a : Size(a) \in Int
  BY ActionLogAssumption DEF Gathering, Size
<1>11. PICK up \in Int : up = r.count + Size(e.action)
  BY <1>10
<1>12. PICK down \in Int : down = r.count - Size(Last(entries).action)
  BY <1>10
<1>13. \/ Collect(start, max, r, index) = r
       \/ Collect(start, max, r, index) = [leading |-> FALSE, count |-> down, stack |-> fewer]
       \/ Collect(start, max, r, index)
            = [leading |-> r.leading /\ e.type = "revert", count |-> up, stack |-> more]
  BY <1>1, <1>3, <1>5, <1>8, <1>9, <1>11, <1>12 DEF Collect
<1>14. PICK l \in BOOLEAN : l = (r.leading /\ e.type = "revert")
  OBVIOUS
<1>15. \/ Collect(start, max, r, index) = r
       \/ Collect(start, max, r, index) = [leading |-> FALSE, count |-> down, stack |-> fewer]
       \/ Collect(start, max, r, index) = [leading |-> l, count |-> up, stack |-> more]
  BY <1>13, <1>14
<1>16. /\ r \in Gathering
       /\ [leading |-> FALSE, count |-> down, stack |-> fewer] \in Gathering
       /\ [leading |-> l, count |-> up, stack |-> more] \in Gathering
  BY <1>8, <1>9, <1>11, <1>12, <1>14 DEF Gathering
<1> QED BY <1>15, <1>16

\* Nothing is put together before the first entry is looked at.
LEMMA CollectStarts ==
  ASSUME LogInv, NEW start \in 0..Len(actions), NEW max \in Nat,
         NEW r, r = [leading |-> start < Len(actions), count |-> 0, stack |-> <<>>]
  PROVE  r \in Gathering /\ CollectedOK(r, start, max, start)
<1>1. start \in Nat /\ Len(actions) \in Nat
  BY DEF LogInv
<1>2. \/ r = [leading |-> TRUE, count |-> 0, stack |-> <<>>]
      \/ r = [leading |-> FALSE, count |-> 0, stack |-> <<>>]
  <2>1. CASE start < Len(actions)
    BY <2>1, Zenon
  <2>2. CASE ~ (start < Len(actions))
    <3>1. (start < Len(actions)) = FALSE
      BY <1>1, <2>2
    <3> QED BY <3>1
  <2> QED BY <2>1, <2>2
<1>3. r \in Gathering /\ r.stack = <<>>
  BY <1>2 DEF Gathering
<1>4. After(actions, start) \in Seq(Held(actions))
  BY AfterUnfolds DEF LogInv
<1>5. PICK h \in Nat : h = Len(After(actions, start))
  BY <1>4
<1>6. Calm(actions, start, start)
  <2>1. \A n \in start..start : n = start
    BY <1>1
  <2> QED BY <1>1, <1>5, <2>1 DEF Calm
<1>7. Linked(start, r.stack) /\ Reached(start, r.stack, Len(r.stack)) = start
  BY <1>3 DEF Linked, Reached
<1>8. \A i \in start..(start - 1) : FALSE
  BY <1>1
<1> QED BY <1>3, <1>6, <1>7, <1>8 DEF CollectedOK, Gathering, CollectedEntry

\* get_actions looks at the entries one after the other: induction along the log.
LEMMA CollectedIsOK ==
  ASSUME LogInv, NEW start \in 0..Len(actions), NEW max \in Nat
  PROVE  CollectedOK(Collected(start, max), start, max, Len(actions))
<1>1. PICK N \in Nat : N = Len(actions) - start /\ start + N = Len(actions) /\ start \in Nat
  <2>1. Len(actions) \in Nat
    BY DEF LogInv
  <2>2. Len(actions) - start \in Nat /\ start + (Len(actions) - start) = Len(actions)
        /\ start \in Nat
    BY <2>1
  <2> QED BY <2>2
<1>2. PICK base : base = [leading |-> start < Len(actions), count |-> 0, stack |-> <<>>]
  OBVIOUS
<1>3. base \in Gathering /\ CollectedOK(base, start, max, start)
  BY <1>2, CollectStarts
<1>4. PICK G : G = [p \in (1..N) \X Gathering |-> Collect(start, max, p[2], start + p[1] - 1)]
  OBVIOUS
<1>5. G \in [(1..N) \X Gathering -> Gathering]
  <2>1. ASSUME NEW p \in (1..N) \X Gathering
        PROVE  Collect(start, max, p[2], start + p[1] - 1) \in Gathering
    <3>1. PICK i \in 0..(Len(actions) - 1) : i = start + p[1] - 1
      BY <1>1
    <3>2. p[2] \in Gathering
      OBVIOUS
    <3> QED BY <1>1, <3>1, <3>2, CollectType
  <2> QED BY <1>4, <2>1
<1>6. PICK f \in [0..N -> Gathering] : Unrolls(f, N, base, G)
  BY <1>3, <1>5, RecursionOnRange
<1> DEFINE step(g) == [n \in 0..N |-> IF n = 0 THEN base
                                      ELSE Collect(start, max, g[n - 1], start + n - 1)]
           looked == CHOOSE g : g = step(g)
<1>7. f = step(f)
  <2>1. ASSUME NEW n \in 0..N, n # 0
        PROVE  G[<<n, f[n - 1]>>] = Collect(start, max, f[n - 1], start + n - 1)
    <3>1. n \in 1..N /\ n - 1 \in 0..N
      BY <1>1, <2>1
    <3>2. <<n, f[n - 1]>> \in (1..N) \X Gathering
      BY <1>6, <3>1
    <3> QED BY <1>4, <3>2
  <2> QED BY <1>6, <2>1 DEF Unrolls
<1>8. looked = step(looked)
  <2> HIDE DEF step
  <2> QED BY <1>7
<1>9. Collected(start, max) = looked[N]
  BY <1>1, <1>2 DEF Collected
<1> HIDE DEF looked
<1> DEFINE S == {n \in Nat : n <= N => CollectedOK(looked[n], start, max, start + n)}
<1>10. 0 \in S
  <2>1. looked[0] = base
    BY <1>1, <1>8
  <2>2. start + 0 = start
    BY <1>1
  <2> QED BY <1>3, <2>1, <2>2
<1>11. ASSUME NEW n \in S
       PROVE  n + 1 \in S
  <2>1. SUFFICES ASSUME n + 1 <= N
                 PROVE  CollectedOK(looked[n + 1], start, max, start + (n + 1))
    OBVIOUS
  <2>2. /\ n + 1 \in 0..N /\ n + 1 # 0 /\ (n + 1) - 1 = n /\ start + (n + 1) - 1 = start + n
        /\ start + (n + 1) = (start + n) + 1 /\ n <= N
    BY <1>1, <2>1
  <2>3. looked[n + 1] = Collect(start, max, looked[n], start + n)
    BY <1>8, <2>2
  <2>4. start + n \in start..(Len(actions) - 1)
    BY <1>1, <2>1
  <2>5. CollectedOK(looked[n], start, max, start + n)
    BY <2>2
  <2>6. CollectedOK(Collect(start, max, looked[n], start + n), start, max, (start + n) + 1)
    BY <2>4, <2>5, CollectStep
  <2> QED BY <2>2, <2>3, <2>6
<1>12. S = Nat
  <2> HIDE DEF S
  <2>1. S \in SUBSET Nat
    BY DEF S
  <2> QED BY <1>10, <1>11, <2>1, InductionOnSet
<1>13. CollectedOK(looked[N], start, max, start + N)
  BY <1>1, <1>12
<1> QED BY <1>1, <1>9, <1>13

\* What a reader may hold while it takes the entries of a response.
Reading == [next : Nat, view : Seq(Held(actions)), head : Int]

\* A reader that has taken an entry is a reader.
LEMMA TakeType ==
  ASSUME NEW r \in Reading, NEW e \in CollectedEntry
  PROVE  Take(r, e) \in Reading
<1>1. PICK stack \in Seq(Held(actions)) : stack = r.view
  BY DEF Reading
<1>2. e.action \in Held(actions) /\ e.index \in Nat
  BY DEF CollectedEntry
<1>3. [type |-> "hole"] \in Held(actions)
  BY DEF Held
<1>4. PICK view \in Seq(Held(actions)) : view = Play(r.view, e)
  BY <1>1, <1>2, <1>3, PlayType
<1>5. PICK next \in Nat : next = e.index + 1
  BY <1>2
<1>6. r.head \in Int
  BY DEF Reading
<1>7. PICK head \in Int : head = IF e.action.type # "block" THEN r.head
                                 ELSE IF e.type = "revert" THEN r.head - 1
                                 ELSE IF r.next = 0 THEN r.head ELSE r.head + 1
  BY <1>6
<1>8. Take(r, e) = [next |-> next, view |-> view, head |-> head]
  BY <1>4, <1>5, <1>7 DEF Take
<1> QED BY <1>8 DEF Reading

\* A reader that has taken a whole prefix of the log is a reader.
LEMMA ReaderAtType ==
  ASSUME LogInv, NEW n \in 0..Len(actions)
  PROVE  ReaderAt(n) \in Reading
<1>1. PICK stack \in Seq(Held(actions)) : stack = After(actions, n)
  BY AfterUnfolds DEF LogInv
<1>2. [type |-> "hole"] \in Held(actions)
  BY DEF Held
<1>3. PICK c \in Nat : c = Cardinality(BlocksOf(stack))
  BY <1>2, BlocksAppend
<1>4. PICK head \in Int : head = IF n = 0 THEN 0 ELSE c - 1
  OBVIOUS
<1>5. n \in Nat
  BY DEF LogInv
<1>6. ReaderAt(n) = [next |-> n, view |-> stack, head |-> head]
  BY <1>1, <1>3, <1>4 DEF ReaderAt
<1> QED BY <1>5, <1>6 DEF Reading

\* The reader takes a response: induction along its entries.
LEMMA TakesAll ==
  ASSUME LogInv, NEW start \in 0..Len(actions), NEW entries \in Seq(CollectedEntry),
         Linked(start, entries)
  PROVE  /\ Reached(start, entries, Len(entries)) \in 0..Len(actions)
         /\ FoldLeft(Take, ReaderAt(start), entries)
              = ReaderAt(Reached(start, entries, Len(entries)))
<1>1. PICK n \in Nat : n = Len(entries) /\ DOMAIN entries = 1..n
                       /\ \A i \in 1..n : entries[i] \in CollectedEntry
  OBVIOUS
<1>2. PICK S : S = 1..n
  OBVIOUS
<1>3. IsFiniteSet(S) /\ DOMAIN entries = S /\ \A i \in S : entries[i] \in CollectedEntry
  BY <1>1, <1>2, FS_Interval
<1>4. PICK c : c = [s \in SUBSET S |-> Max(s)]
  OBVIOUS
<1>5. ASSUME NEW s \in SUBSET S, s # {}
      PROVE  Max(s) \in s /\ \A i \in s : i <= Max(s)
  <2>1. s \in SUBSET (0..n)
    BY <1>2, <1>5
  <2> QED BY <1>5, <2>1, GreatestNumber
<1>6. Chooses(c, S)
  BY <1>4, <1>5 DEF Chooses
<1>7. PICK base : base = ReaderAt(start)
  OBVIOUS
<1>8. base \in Reading
  BY <1>7, ReaderAtType
<1>9. PICK G : G = [q \in S \X Reading |-> Take(q[2], entries[q[1]])]
  OBVIOUS
<1>10. G \in [S \X Reading -> Reading]
  BY <1>3, <1>9, TakeType
<1>11. PICK f \in [SUBSET S -> Reading] : Unfolds(f, S, c, base, G)
  BY <1>3, <1>6, <1>8, <1>10, RecursionOnSubsets
<1> DEFINE step(g) == [s \in SUBSET DOMAIN entries |-> IF s = {} THEN base
                                          ELSE LET x == Max(s)
                                               IN  Take(g[s \ {x}], entries[x])]
           iter == CHOOSE g : g = step(g)
<1>12. f = step(f)
  <2>1. ASSUME NEW s \in SUBSET S, s # {}
        PROVE  G[<<c[s], f[s \ {c[s]}]>>] = Take(f[s \ {Max(s)}], entries[Max(s)])
    <3>1. c[s] = Max(s) /\ c[s] \in S /\ f[s \ {c[s]}] \in Reading
      BY <1>4, <1>6, <1>11, <2>1 DEF Chooses
    <3> QED BY <1>9, <3>1
  <2> QED BY <1>3, <1>11, <2>1 DEF Unfolds
<1>13. iter = step(iter)
  <2> HIDE DEF step
  <2> QED BY <1>12
<1>14. FoldLeft(Take, ReaderAt(start), entries) = iter[S]
  BY <1>3, <1>7 DEF FoldLeft, MapThenFoldSet
<1> HIDE DEF iter
<1>15. ASSUME NEW k \in 0..n
       PROVE  Reached(start, entries, k) \in 0..Len(actions)
  <2>1. CASE k = 0
    BY <2>1 DEF Reached
  <2>2. CASE k # 0
    <3>1. k \in 1..n
      BY <2>2
    <3>2. entries[k].index \in 0..(Len(actions) - 1)
      BY <1>1, <3>1 DEF Linked
    <3>3. Len(actions) \in Nat
      BY DEF LogInv
    <3>4. entries[k].index + 1 \in 0..Len(actions)
      BY <3>2, <3>3
    <3> QED BY <2>2, <3>4 DEF Reached
  <2> QED BY <2>1, <2>2
<1> DEFINE T == {k \in Nat : k <= n => iter[1..k] = ReaderAt(Reached(start, entries, k))}
<1>16. 0 \in T
  <2>1. 1..0 = {} /\ {} \in SUBSET S
    OBVIOUS
  <2>2. iter[1..0] = base
    BY <1>3, <1>13, <2>1
  <2>3. Reached(start, entries, 0) = start
    BY DEF Reached
  <2> QED BY <1>7, <2>2, <2>3
<1>17. ASSUME NEW k \in T
       PROVE  k + 1 \in T
  <2>1. SUFFICES ASSUME k + 1 <= n
                 PROVE  iter[1..(k + 1)] = ReaderAt(Reached(start, entries, k + 1))
    OBVIOUS
  <2>2. PICK m \in 1..n : m = k + 1
    BY <2>1
  <2>3. k \in 0..n /\ k = m - 1
    BY <2>1, <2>2
  <2>4. PICK s \in SUBSET S : s = 1..m
    BY <1>2
  <2>5. m \in s /\ s # {} /\ \A i \in s : i \in Nat /\ i <= m
    BY <2>4
  <2>6. Max(s) = m
    <3>1. PICK x \in s : x = Max(s) /\ \A i \in s : i <= x
      BY <1>5, <2>5
    <3> QED BY <2>5, <3>1
  <2>7. s \ {m} = 1..k
    BY <2>3, <2>4
  <2>8. iter[s] = Take(iter[1..k], entries[m])
    BY <1>3, <1>13, <2>5, <2>6, <2>7
  <2>9. iter[1..k] = ReaderAt(Reached(start, entries, k))
    BY <2>3
  <2>10. PICK j \in 0..(Len(actions) - 1) :
           /\ j = entries[m].index
           /\ entries[m] = [At(j) EXCEPT !.index = j]
           /\ Calm(actions, Reached(start, entries, k), j)
    BY <1>1, <2>3 DEF Linked
  <2>11. Reached(start, entries, k) \in Nat
    BY <1>15, <2>3
  <2>12. Reached(start, entries, m) = j + 1
    BY <2>10 DEF Reached
  <2> QED BY <2>2, <2>4, <2>8, <2>9, <2>10, <2>11, <2>12, TakeMoves
<1>18. T = Nat
  <2> HIDE DEF T
  <2>1. T \in SUBSET Nat
    BY DEF T
  <2> QED BY <1>16, <1>17, <2>1, InductionOnSet
<1>19. iter[1..n] = ReaderAt(Reached(start, entries, n))
  BY <1>18
<1>20. Reached(start, entries, n) \in 0..Len(actions)
  BY <1>15
<1> QED BY <1>1, <1>2, <1>14, <1>19, <1>20

\* The inductive invariant of the reader.  What it has taken is a prefix of what is committed, and
\* so is what it has taken after the response on its way: a discarded handler cannot take from
\* the reader what was sent to it.
ReaderInv ==
  /\ \E n \in 0..saved : reader = ReaderAt(n)
  /\ inFlight # <<>> => \E n \in 0..saved : FoldLeft(Take, reader, inFlight[1]) = ReaderAt(n)

\* What is committed stays, whatever the node does.
LEMMA CommittedStays ==
  ASSUME LogInv, [Next]_vars
  PROVE  /\ saved \in Nat /\ saved' \in Nat /\ saved <= saved'
         /\ \A n \in 0..saved : After(actions', n) = After(actions, n)
<1>1. saved \in 1..Len(actions) /\ saved \in Nat /\ \A n \in 0..saved : n \in 0..Len(actions)
  BY DEF LogInv
<1>2. ASSUME NEW a, Insert(a), a.type = "block" => a.number = Cardinality(BlocksOf(Effective(actions)))
      PROVE  saved' = saved /\ \A n \in 0..saved : After(actions', n) = After(actions, n)
  BY <1>1, <1>2, InsertKeepsLog DEF Insert
<1>3. CASE LogBlock
  <2>1. PICK a : a = Block(Cardinality(BlocksOf(Effective(actions)))) /\ Insert(a)
    BY <1>3 DEF LogBlock
  <2>2. a.number = Cardinality(BlocksOf(Effective(actions)))
    BY <2>1 DEF Block
  <2> QED BY <1>1, <1>2, <2>1, <2>2
<1>4. CASE LogTransaction
  <2>1. PICK t \in Tx : Insert(Transaction(t))
    BY <1>4 DEF LogTransaction
  <2>2. Transaction(t).type # "block"
    BY DEF Transaction
  <2> QED BY <1>1, <1>2, <2>1, <2>2
<1>5. CASE Revert
  BY <1>1, <1>5, RevertKeepsLog DEF Revert
<1>6. CASE Discard
  BY <1>1, <1>6, DiscardKeepsLog DEF Discard
<1>7. CASE Commit
  <2>1. actions' = actions /\ saved' = Len(actions)
    BY <1>7 DEF Commit
  <2> QED BY <1>1, <2>1
<1>8. CASE UNCHANGED logVars
  BY <1>1, <1>8 DEF logVars
<1> QED BY <1>3, <1>4, <1>5, <1>6, <1>7, <1>8
        DEF Next, vars, logVars, Request, Deliver, Lose

\* A reader that does not move keeps its invariant while the node works.
LEMMA ReaderWaits ==
  ASSUME LogInv, ReaderInv, [Next]_vars, UNCHANGED <<reader, inFlight>>
  PROVE  ReaderInv'
<1>1. /\ saved \in Nat /\ saved' \in Nat /\ saved <= saved'
      /\ \A n \in 0..saved : n \in 0..saved' /\ ReaderAt(n)' = ReaderAt(n)
  BY CommittedStays DEF ReaderAt
<1>2. \E n \in 0..saved' : reader' = ReaderAt(n)'
  <2>1. PICK n \in 0..saved : reader = ReaderAt(n)
    BY DEF ReaderInv
  <2> QED BY <1>1, <2>1
<1>3. ASSUME inFlight' # <<>>
      PROVE  \E n \in 0..saved' : FoldLeft(Take, reader', inFlight'[1]) = ReaderAt(n)'
  <2>1. PICK n \in 0..saved : FoldLeft(Take, reader, inFlight[1]) = ReaderAt(n)
    BY <1>3 DEF ReaderInv
  <2> QED BY <1>1, <2>1
<1> QED BY <1>2, <1>3 DEF ReaderInv

\* The node answers: what it sends takes the reader to a place of the log.
LEMMA RequestKeepsReader ==
  ASSUME LogInv, ReaderInv, NEW max \in MaxCounts, Request(max)
  PROVE  ReaderInv'
<1>1. max \in Nat /\ saved = Len(actions) /\ Len(actions) \in Nat
  BY ActionLogAssumption DEF Request, LogInv
<1>2. PICK start \in 0..Len(actions) : start = reader.next /\ reader = ReaderAt(start)
  <2>1. PICK n \in 0..Len(actions) : reader = ReaderAt(n)
    BY <1>1 DEF ReaderInv
  <2> QED BY <2>1 DEF ReaderAt
<1>3. PICK entries \in Seq(CollectedEntry) :
         /\ entries = Collected(start, max).stack
         /\ Linked(start, entries)
  BY <1>1, CollectedIsOK DEF CollectedOK, CollectedEntry
<1>4. PICK n \in 0..Len(actions) : FoldLeft(Take, reader, entries) = ReaderAt(n)
  BY <1>2, <1>3, TakesAll
<1>5. inFlight' = <<entries>> /\ inFlight'[1] = entries
  BY <1>2, <1>3 DEF Request
<1>6. UNCHANGED <<actions, saved, reader>>
  BY DEF Request, logVars
<1>7. \A i \in Nat : ReaderAt(i)' = ReaderAt(i)
  BY <1>6 DEF ReaderAt
<1>8. start \in 0..saved' /\ reader' = ReaderAt(start)'
  BY <1>1, <1>2, <1>6, <1>7
<1>9. n \in 0..saved' /\ FoldLeft(Take, reader', inFlight'[1]) = ReaderAt(n)'
  BY <1>1, <1>4, <1>5, <1>6, <1>7
<1> QED BY <1>8, <1>9 DEF ReaderInv

\* The reader takes the response, or loses it.
LEMMA AnswerKeepsReader ==
  ASSUME LogInv, ReaderInv, Deliver \/ Lose
  PROVE  ReaderInv'
<1>1. UNCHANGED <<actions, saved>> /\ inFlight # <<>> /\ inFlight' = <<>>
  BY DEF Deliver, Lose, logVars
<1>2. \A i \in Nat : ReaderAt(i)' = ReaderAt(i)
  BY <1>1 DEF ReaderAt
<1>3. PICK n \in 0..saved : reader' = ReaderAt(n)
  <2>1. CASE Deliver
    BY <1>1, <2>1 DEF Deliver, ReaderInv
  <2>2. CASE Lose
    BY <2>2 DEF Lose, ReaderInv
  <2> QED BY <2>1, <2>2
<1>4. n \in 0..saved' /\ reader' = ReaderAt(n)'
  <2>1. n \in Nat
    BY DEF LogInv
  <2> QED BY <1>1, <1>2, <1>3, <2>1
<1> QED BY <1>1, <1>4 DEF ReaderInv

\* Every step keeps the invariant of the reader.
LEMMA ReaderStep ==
  ASSUME LogInv, ReaderInv, [Next]_vars
  PROVE  ReaderInv'
<1>1. CASE UNCHANGED <<reader, inFlight>>
  BY <1>1, ReaderWaits
<1>2. CASE \E max \in MaxCounts : Request(max)
  BY <1>2, RequestKeepsReader
<1>3. CASE Deliver \/ Lose
  BY <1>3, AnswerKeepsReader
<1> QED BY <1>1, <1>2, <1>3
        DEF Next, vars, LogBlock, LogTransaction, Insert, Revert, Commit, Discard

\* The head a reader counts is the number of its last block.
LEMMA HeadIsLastBlock ==
  ASSUME NEW V, NEW stack \in Seq(V), Numbered(stack), BlocksOf(stack) # {}
  PROVE  stack[Max(BlocksOf(stack))].number = Cardinality(BlocksOf(stack)) - 1
<1>1. PICK h \in Nat : h = Len(stack) /\ DOMAIN stack = 1..h
  OBVIOUS
<1>2. PICK blocks \in SUBSET (0..h) : blocks = BlocksOf(stack) /\ blocks \subseteq 1..h
  <2>1. BlocksOf(stack) \subseteq 1..h
    BY <1>1 DEF BlocksOf
  <2>2. 1..h \subseteq 0..h
    OBVIOUS
  <2> QED BY <2>1, <2>2
<1>3. PICK m \in blocks : m = Max(blocks) /\ \A i \in blocks : i <= m
  BY <1>2, GreatestNumber
<1>4. BlocksOf(SubSeq(stack, 1, m - 1)) = blocks \ {m}
  <2>1. m \in 1..h /\ m - 1 \in 0..h
    BY <1>2, <1>3
  <2>2. /\ DOMAIN SubSeq(stack, 1, m - 1) = 1..(m - 1)
        /\ \A i \in 1..(m - 1) : SubSeq(stack, 1, m - 1)[i] = stack[i]
    BY <1>1, <2>1
  <2>3. \A i \in 1..h : i \in 1..(m - 1) <=> i < m
    BY <2>1
  <2>4. \A i \in 1..(m - 1) : i \in 1..h
    BY <2>1
  <2>5. \A i \in blocks : i # m => i < m
    BY <1>2, <1>3
  <2>6. blocks = {i \in 1..h : stack[i].type = "block"}
    BY <1>1, <1>2 DEF BlocksOf
  <2>7. BlocksOf(SubSeq(stack, 1, m - 1)) = {i \in 1..(m - 1) : stack[i].type = "block"}
    BY <2>2 DEF BlocksOf
  <2>8. \A i \in 1..(m - 1) : i # m
    BY <2>1
  <2> QED BY <2>3, <2>4, <2>5, <2>6, <2>7, <2>8
<1>5. IsFiniteSet(blocks) /\ Cardinality(blocks \ {m}) = Cardinality(blocks) - 1
  <2>1. IsFiniteSet(0..h)
    BY FS_Interval
  <2>2. IsFiniteSet(blocks)
    BY <2>1, FS_Subset
  <2> QED BY <1>3, <2>2, FS_RemoveElement
<1>6. stack[m].number = Cardinality(BlocksOf(SubSeq(stack, 1, m - 1)))
  BY <1>2, <1>3 DEF Numbered
<1> QED BY <1>2, <1>3, <1>4, <1>5, <1>6

\* The invariants give what the reader is promised.
LEMMA ReaderInvHolds ==
  ASSUME LogInv, ReaderInv
  PROVE  ReaderHoldsPrefix
<1>1. PICK n \in 0..Len(actions) : reader.next = n /\ reader = ReaderAt(n)
  <2>1. PICK n \in 0..saved : reader = ReaderAt(n)
    BY DEF ReaderInv
  <2>2. n \in 0..Len(actions)
    BY DEF LogInv
  <2> QED BY <2>1, <2>2 DEF ReaderAt
<1>2. PICK stack \in Seq(Held(actions)) : stack = After(actions, n)
  BY AfterUnfolds DEF LogInv
<1>3. /\ reader.view = stack
      /\ reader.head = IF n = 0 THEN 0 ELSE Cardinality(BlocksOf(stack)) - 1
  BY <1>1, <1>2 DEF ReaderAt
<1>4. ASSUME BlocksOf(stack) # {}
      PROVE  reader.head = stack[Max(BlocksOf(stack))].number
  <2>1. n # 0
    <3>1. SUFFICES ASSUME n = 0 PROVE FALSE
      OBVIOUS
    <3>2. stack = <<>>
      BY <1>2, <3>1, AfterUnfolds DEF LogInv
    <3> QED BY <1>4, <3>2 DEF BlocksOf
  <2>2. n \in 1..Len(actions)
    BY <2>1 DEF LogInv
  <2>3. Numbered(stack)
    BY <1>2, <2>2 DEF LogInv, StackOK
  <2> QED BY <1>3, <1>4, <2>1, <2>3, HeadIsLastBlock
<1>5. stack = Effective(SubSeq(actions, 1, reader.next))
  BY <1>1, <1>2 DEF After
<1> QED BY <1>3, <1>4, <1>5 DEF ReaderHoldsPrefix

\* However its requests are cut and whatever was reverted, discarded or lost in between, the
\* reader holds what was applied after the last entry it has seen, and the head it counts is the
\* number of its last block (ReaderHoldsPrefix).
THEOREM ReaderHolds == Spec => []ReaderHoldsPrefix
<1>1. Init => LogInv /\ ReaderInv
  <2> SUFFICES ASSUME Init PROVE LogInv /\ ReaderInv
    OBVIOUS
  <2>1. LogInv
    BY LogInit
  <2>2. After(actions, 0) = <<>>
    BY <2>1, AfterUnfolds DEF LogInv
  <2>3. reader = ReaderAt(0) /\ reader.next = 0 /\ inFlight = <<>> /\ saved = 1
    BY <2>2 DEF Init, ReaderAt
  <2> QED BY <2>1, <2>3 DEF ReaderInv
<1>2. LogInv /\ ReaderInv /\ [Next]_vars => LogInv' /\ ReaderInv'
  BY LogStep, ReaderStep
<1>3. LogInv /\ ReaderInv => ReaderHoldsPrefix
  BY ReaderInvHolds
<1> QED BY <1>1, <1>2, <1>3, PTL DEF Spec
=============================================================================
