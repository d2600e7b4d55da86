----------------------------- MODULE ActionLog -----------------------------
(***************************************************************************)
(* The action log of a node, and a reader that follows it.                 *)
(*                                                                         *)
(* The log is a file that only grows: a reverted action is not removed, a  *)
(* copy of it marked as a revert is added.  revert() finds the action that *)
(* is on top by scanning back over matching pairs, from an index kept in   *)
(* memory.  A reader (the commander) asks for the entries from the one     *)
(* after the last it has seen; the node leaves out the pairs it has not    *)
(* seen, and the reader must end up with exactly what is applied.          *)
(***************************************************************************)
EXTENDS Integers, Sequences, SequencesExt

CONSTANTS
  Tx,           \* pool transactions
  BlockSize,    \* get_action_size of a block (a transaction's is 1)
  MaxCounts,    \* values of max_count in a request
  Maintenance,  \* TRUE: the node may be started with an option that reverts
                \* its last blocks or its last actions
  MaxLength     \* bound: entries of the log

ASSUME ActionLogAssumption ==
  /\ BlockSize \in Nat \ {0}
  /\ MaxCounts \subseteq Nat \ {0}
  /\ Maintenance \in BOOLEAN
  /\ MaxLength \in Nat

VARIABLES
  actions,      \* the entries [type, index, action]; indices start at 0
  revertIndex,  \* m_revert_index
  saved,        \* how many entries are committed
  inFlight,     \* the response on its way to the reader: one at most, in a
                \* sequence
  reader        \* [next, view, head]: start_index, what the reader holds as
                \* applied, head_block_index

logVars == <<actions, revertIndex, saved>>
vars == <<actions, revertIndex, saved, inFlight, reader>>

Block(number) == [type |-> "block", number |-> number]
Transaction(t) == [type |-> "tx", id |-> t]
Entry(type, index, action) == [type |-> type, index |-> index, action |-> action]

\* The entry at an index, as the code counts.
At(index) == actions[index + 1]

Size(action) == IF action.type = "block" THEN BlockSize ELSE 1

\* What is applied after one more entry.  A revert takes off the action on top; a
\* revert of anything else would leave a hole that no later entry mends.
Play(stack, e) ==
  IF e.type = "apply" THEN Append(stack, e.action)
  ELSE IF stack # <<>> /\ Last(stack) = e.action THEN Front(stack)
  ELSE Append(stack, [type |-> "hole"])

\* What is applied after a log has been played from its start.
Effective(log) ==
  LET played[n \in 0..Len(log)] == IF n = 0 THEN <<>> ELSE Play(played[n - 1], log[n])
  IN  played[Len(log)]

\* Where the blocks are in a stack.
BlocksOf(stack) == {i \in DOMAIN stack : stack[i].type = "block"}

-----------------------------------------------------------------------------
Genesis == Entry("apply", 0, Block(0))

Init ==
  /\ actions = <<Genesis>>
  /\ revertIndex = 0
  /\ saved = 1
  /\ inFlight = <<>>
  /\ reader = [next |-> 0, view |-> <<>>, head |-> 0]

\* insert, called by log_block and log_transaction
Insert(action) ==
  /\ Len(actions) < MaxLength
  /\ actions' = Append(actions, Entry("apply", Len(actions), action))
  /\ revertIndex' = Len(actions)
  /\ UNCHANGED <<saved, inFlight, reader>>

LogBlock == Insert(Block(Cardinality(BlocksOf(Effective(actions)))))
LogTransaction == \E t \in Tx : Insert(Transaction(t))

\* Fault: the scan stops at the first action it meets.
ScanShallow(from) ==
  LET met == {i \in 0..from : At(i).type = "apply"}
  IN  IF met = {} THEN -1 ELSE CHOOSE i \in met : \A j \in met : j <= i

\* The scan of revert(): the index it stops at, -1 where it throws.  The mark
\* counts the reverts whose action has not been met yet.
Scan(from) ==
  LET scan[p \in (-1..(Len(actions) - 1)) \X Nat] ==
        LET index == p[1]
            next == IF At(index).type = "revert" THEN p[2] + 1 ELSE p[2] - 1
        IN  IF index < 0 THEN -1
            ELSE IF next >= 0 THEN scan[<<index - 1, next>>] ELSE index
  IN  scan[<<from, 0>>]

\* No handler reverts the genesis block.
Revert ==
  LET top == Scan(revertIndex)
  IN
  /\ Len(actions) < MaxLength
  /\ top > 0
  /\ actions' = Append(actions, [At(top) EXCEPT !.type = "revert"])
  /\ revertIndex' = top - 1
  /\ UNCHANGED <<saved, inFlight, reader>>

\* The end of a handler.  Those that revert end by logging a block, except at a
\* start that reverts blocks or actions.
Commit ==
  /\ saved < Len(actions)
  /\ Maintenance \/ Last(actions).type = "apply"
  /\ saved' = Len(actions)
  /\ UNCHANGED <<actions, revertIndex, inFlight, reader>>

\* A handler throws, or the process stops and starts again.
Discard ==
  /\ actions' = SubSeq(actions, 1, saved)
  /\ revertIndex' = saved - 1
  /\ UNCHANGED <<saved, inFlight, reader>>

-----------------------------------------------------------------------------
(* get_actions and the loop of daemon_rpc::sync *)

\* Fault: the reader is told the index a revert carries, not its place.
CollectOwnIndex(start, max, r, index) ==
  LET e == At(index)
      leading == r.leading /\ e.type = "revert"
      unseen == ~ leading /\ e.type = "revert" /\ e.index >= start
  IN  IF r.count >= max THEN r
      ELSE IF unseen
           THEN [leading |-> FALSE, count |-> r.count - Size(Last(r.stack).action),
                 stack |-> Front(r.stack)]
           ELSE [leading |-> leading, count |-> r.count + Size(e.action),
                 stack |-> Append(r.stack, e)]

\* One entry of the log is looked at: the leading reverts are kept whatever they
\* revert; later a revert of an entry the reader has not seen takes its
\* action off the response instead.
Collect(start, max, r, index) ==
  LET e == At(index)
      leading == r.leading /\ e.type = "revert"
      unseen == ~ leading /\ e.type = "revert" /\ e.index >= start
  IN  IF r.count >= max THEN r
      ELSE IF unseen
           THEN [leading |-> FALSE, count |-> r.count - Size(Last(r.stack).action),
                 stack |-> Front(r.stack)]
           ELSE [leading |-> leading, count |-> r.count + Size(e.action),
                 stack |-> Append(r.stack, [e EXCEPT !.index = index])]

Collected(start, max) ==
  LET looked[n \in 0..(Len(actions) - start)] ==
        IF n = 0 THEN [leading |-> start < Len(actions), count |-> 0, stack |-> <<>>]
        ELSE Collect(start, max, looked[n - 1], start + n - 1)
  IN  looked[Len(actions) - start]

\* The first loop looks for the next entry before it sees that there is none.
ReadsPastEnd(start, max) ==
  LET r == Collected(start, max)
  IN  r.leading /\ r.count < max

\* The node answers between two handlers.
Request(max) ==
  /\ inFlight = <<>>
  /\ saved = Len(actions)
  /\ ~ ReadsPastEnd(reader.next, max)
  /\ inFlight' = <<Collected(reader.next, max).stack>>
  /\ UNCHANGED <<logVars, reader>>

\* Fault: reverts are skipped.
TakeApplied(r, e) ==
  [next |-> e.index + 1,
   view |-> IF e.type = "apply" THEN Append(r.view, e.action) ELSE r.view,
   head |-> r.head]

\* The reader takes the entries of a response one by one.
Take(r, e) ==
  LET block == e.action.type = "block"
  IN  [next |-> e.index + 1,
       view |-> Play(r.view, e),
       head |-> IF ~ block THEN r.head
                ELSE IF e.type = "revert" THEN r.head - 1
                ELSE IF r.next = 0 THEN r.head ELSE r.head + 1]

Deliver ==
  /\ inFlight # <<>>
  /\ reader' = FoldLeft(Take, reader, inFlight[1])
  /\ inFlight' = <<>>
  /\ UNCHANGED logVars

\* The connection breaks or the reader stops: what it held is what it had stored.
Lose ==
  /\ inFlight # <<>>
  /\ inFlight' = <<>>
  /\ UNCHANGED <<logVars, reader>>

Next ==
  \/ LogBlock \/ LogTransaction \/ Revert \/ Commit \/ Discard
  \/ \E max \in MaxCounts : Request(max)
  \/ Deliver \/ Lose

Spec == Init /\ [][Next]_vars

\* A handler ends.  Requests are served between two handlers by the loop that
\* runs the handlers, and the reader keeps asking; connections do not always break.
Fairness ==
  /\ WF_vars(Commit \/ Discard)
  /\ SF_vars(\E max \in MaxCounts : Request(max))
  /\ SF_vars(Deliver)

FairSpec == Spec /\ Fairness

-----------------------------------------------------------------------------
(* Properties *)

\* What has not been reverted is a stack of the applied actions, and a discarded
\* handler leaves no trace in it.
Stack == INSTANCE AppliedStack WITH
  applied <- Effective(actions),
  committed <- Effective(SubSeq(actions, 1, saved))
ImplementsStack == Stack!Spec

\* However its requests are cut by max_count and whatever was left out of the
\* responses, the reader holds exactly what was applied after the last entry it
\* has seen: it never misses an action and never reverts one it does not hold.
\* "assert(block_log.block_number == block_index)" in the reader: the head it
\* counts is the number of the last block it holds.
ReaderHoldsPrefix ==
  LET blocks == BlocksOf(reader.view)
  IN  /\ reader.view = Effective(SubSeq(actions, 1, reader.next))
      /\ blocks # {} => reader.head = reader.view[Max(blocks)].number

\* The reader gets to hold what the node has committed, again and again, unless
\* every request reads past the end: that needs an option that reverts blocks or
\* actions, after which the log may end in nothing but reverts.
Stuck == Maintenance /\ \A max \in MaxCounts : ReadsPastEnd(reader.next, max)
ReaderCatchesUp == []<>(reader.view = Effective(SubSeq(actions, 1, saved)) \/ Stuck)
=============================================================================
