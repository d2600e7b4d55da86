----------------------------- MODULE ForkChoice -----------------------------
(***************************************************************************)
(* How a node chooses the chain it is on: sync_worker, called every second, *)
(* and the two sessions it starts.                                         *)
(*                                                                         *)
(* Peers tell the head of their chain and the best next block they know of. *)
(* header_worker compares consensus sums and asks one peer for its headers, *)
(* or mines.  Headers that arrive lie in headers_actions_data until their  *)
(* session ends; block_worker takes those that cost the least to follow,   *)
(* whatever their sum, and only what is costly has to be voted for.  So    *)
(* the choice is made of three steps, each of which reads what an earlier  *)
(* one left, while the head may change in between.                         *)
(*                                                                         *)
(* Blocks are the nodes of a given tree; what is in them is Ledger's.      *)
(***************************************************************************)
EXTENDS Integers, Sequences, FiniteSets, FiniteSetsExt, SequencesExt

CONSTANTS
  Peer,
  Block, Genesis, Parent, Delta,  \* the tree; Delta[b]: header.delta
  OwnBlock,        \* OwnBlock[b]: what this node mines on b, None if is_miner()
                   \* does not hold there (or the tree ends there: a bound)
  MinerBalance,    \* MinerBalance[b]: the balance of the miner of b
  Stake,           \* Stake[p]: the balance of a peer
  OwnStake,
  None,            \* no value
  BlockMineDelay, BlockWaitDelay, BlockSafeDelay,
  NodesTimeShift,
  SyncTimer,       \* SYNC_TIMER, how long a session lives
  InsertLength,    \* BLOCK_INSERT_LENGTH
  PollMin,         \* thresholds of the vote: participants, those with a stake,
  PollStakeMin,    \* and participants for a vote without majority
  PollMany,
  FreezeBefore,    \* the option freeze_before_block
  MaxTime          \* bound: the node's clock

ASSUME ForkChoiceAssumption ==
  /\ IsFiniteSet(Block) /\ IsFiniteSet(Peer)
  /\ Genesis \in Block
  /\ Parent \in [Block \ {Genesis} -> Block]
  /\ Delta \in [Block -> Nat] /\ \A b \in Block \ {Genesis} : Delta[b] > 0
  /\ OwnBlock \in [Block -> (Block \ {Genesis}) \union {None}]
  /\ \A b \in Block : OwnBlock[b] # None => Parent[OwnBlock[b]] = b
  /\ MinerBalance \in [Block -> Nat]
  /\ Stake \in [Peer -> Nat] /\ OwnStake \in Nat
  /\ None \notin Block \union Peer
  /\ {BlockWaitDelay, BlockSafeDelay, NodesTimeShift, MaxTime} \subseteq Nat
  /\ {BlockMineDelay, InsertLength, SyncTimer} \subseteq Nat \ {0}
  /\ BlockMineDelay > BlockWaitDelay
  /\ BlockMineDelay > BlockSafeDelay + NodesTimeShift

\* The blocks are a tree: each is one above its parent.
ASSUME TreeAssumption ==
  \E height \in [Block -> 0..Cardinality(Block)] :
    /\ height[Genesis] = 0
    /\ \A b \in Block \ {Genesis} : height[b] = height[Parent[b]] + 1

VARIABLES
  head,        \* the head of the node's chain
  mined,       \* the blocks this node has mined
  now,         \* the node's clock
  responses,   \* all_sync_info.sync_responses: [own, promised] or None
  headers,     \* all_sync_info.headers_actions_data, see Entries
  blockSync,   \* the session_action_block in progress, or None
  votes        \* m_votes: [block, since] or None, one address for each peer

vars == <<head, mined, now, responses, headers, blockSync, votes>>

ChainOf[b \in Block] == IF b = Genesis THEN {b} ELSE {b} \union ChainOf[Parent[b]]
NumberOf == [b \in Block |-> Cardinality(ChainOf[b]) - 1]
SumOf == [b \in Block |-> MapThenSumSet(LAMBDA a : Delta[a], ChainOf[b])]

Age == now - NumberOf[head] * BlockMineDelay

\* A header entry: "asked" while the session waits for headers, "ready" when they
\* lie here, "taken" when a block session moved them out.
Entries == [phase : {"asked", "ready", "taken"}, front : Block,
            lcb : Block \union {None}, reverts : BOOLEAN, since : 0..MaxTime]

-----------------------------------------------------------------------------
\* The program starts, with any chain it may have stored.
Init ==
  /\ now = 0
  /\ head = Genesis
  /\ mined = {}
  /\ responses = [p \in Peer |-> None]
  /\ headers = [p \in Peer |-> None]
  /\ blockSync = None
  /\ votes = [p \in Peer |-> None]

\* A peer tells its head and what it promises: what it may mine next, or what it
\* was promised itself.
SyncResponse(p) ==
  \E b \in Block :
    /\ ChainOf[b] \intersect ({OwnBlock[a] : a \in Block} \ {None}) \subseteq mined
    /\ NumberOf[b] * BlockMineDelay <= now + NodesTimeShift
    /\ \E promised \in {c \in Block : c = b \/ NumberOf[c] = NumberOf[b] + 1} :
         responses' = [responses EXCEPT ![p] = [own |-> b, promised |-> promised]]
    /\ UNCHANGED <<head, mined, now, headers, blockSync, votes>>

-----------------------------------------------------------------------------
(* block_worker *)

\* A vote lives for two SYNC_TIMERs.  It is replaced by one with a greater stake
\* only: a peer without stake leaves a blank vote, taken up again each time.
UpdatedVotes ==
  [p \in Peer |->
     IF votes[p] # None /\ now - votes[p].since < 2 * SyncTimer THEN votes[p]
     ELSE IF responses[p] = None THEN None
     ELSE IF Stake[p] = 0 THEN [block |-> None, since |-> -2 * SyncTimer]
     ELSE [block |-> responses[p].own, since |-> now]]

Participants(poll) == {p \in Peer : poll[p] # None}
WithStake(poll) == {p \in Participants(poll) : Stake[p] > 0}
Approval(poll, b) ==
  MapThenSumSet(LAMBDA p : Stake[p] + 1, {p \in Participants(poll) : poll[p].block = b})
    + (IF b = head THEN OwnStake + 1 ELSE 0)
AllVotes(poll) == MapThenSumSet(LAMBDA p : Stake[p] + 1, Participants(poll)) + OwnStake + 1

WonMajority(poll, b) ==
  /\ 2 * Approval(poll, b) > AllVotes(poll)
  /\ Cardinality(Participants(poll)) > PollMin
  /\ Cardinality(WithStake(poll)) > PollStakeMin

\* b may be the most approved, whoever was counted first among equals.
MostApproved(poll, b) ==
  /\ Approval(poll, b) > OwnStake
  /\ \A p \in Participants(poll) : Approval(poll, poll[p].block) <= Approval(poll, b)
  /\ Approval(poll, head) <= Approval(poll, b)
  /\ Cardinality(Participants(poll)) > PollMany
  /\ Cardinality(WithStake(poll)) > PollStakeMin

CostWithoutAge(lcb) ==
  LET count == NumberOf[head] - NumberOf[lcb]
  IN  IF count = 0 THEN 0 ELSE (count - 1) * BlockMineDelay

\* reverts_required, in units of time
Cost(lcb) ==
  LET count == NumberOf[head] - NumberOf[lcb]
  IN  IF count = 0 THEN 0
      ELSE (count - 1) * BlockMineDelay + (IF Age < BlockMineDelay THEN Age ELSE BlockMineDelay)

\* Headers that still start from a block of the chain.
Usable == {p \in Peer : /\ headers[p] # None
                        /\ headers[p].phase = "ready"
                        /\ headers[p].lcb \in ChainOf[head]}
CostOf(p) == Cost(headers[p].lcb)
Cheapest(S) == {p \in S : \A q \in S : CostOf(p) <= CostOf(q)}

Assessed ==
  [p \in Peer |-> IF p \in Usable THEN [headers[p] EXCEPT !.reverts = CostOf(p) > 0]
                  ELSE headers[p]]

Safe == {p \in Usable : CostOf(p) <= BlockSafeDelay}
Winners(poll) == {p \in Usable \ Safe : WonMajority(poll, headers[p].front)}
Favoured(poll) == {p \in Usable \ Safe : MostApproved(poll, headers[p].front)}

Candidates(poll) ==
  IF Winners(poll) # {} THEN Cheapest(Winners(poll))
  ELSE IF Safe # {} THEN Cheapest(Safe)
  ELSE Cheapest(Favoured(poll))

StartBlocks(poll, p) ==
  /\ blockSync' = [peer |-> p, lcb |-> headers[p].lcb, front |-> headers[p].front,
                   phase |-> "loading", voted |-> p \notin Safe, since |-> now]
  /\ headers' = [Assessed EXCEPT ![p].phase = "taken"]
  /\ UNCHANGED <<head, mined>>

-----------------------------------------------------------------------------
(* header_worker *)

\* The responses are looked at in the order of an unordered_map.  A peer whose
\* headers were assessed is passed over, and so is then who has the same head.
LookAt(r, p) ==
  LET b == responses[p].own
  IN  IF responses[p] = None THEN r
      ELSE IF Assessed[p] # None /\ Assessed[p].reverts
           THEN [r EXCEPT !.requested = @ \union {b}]
      ELSE IF /\ b # head
              /\ r.sum < SumOf[b]
              /\ NumberOf[r.block] <= NumberOf[b]
              /\ b \notin r.requested
           THEN [r EXCEPT !.peer = p, !.block = b, !.sum = SumOf[b]]
      ELSE r
Orders == SetToSeqs(Peer)
Scans ==
  {FoldLeft(LookAt, [peer |-> None, block |-> head, sum |-> 0, requested |-> {}], order) :
     order \in Orders}

\* own_sync_info().c_sum and net_sync_info().c_sum
OwnSum == SumOf[head] + (IF OwnBlock[head] = None THEN 0 ELSE Delta[OwnBlock[head]])
NetSum ==
  LET promised == {responses[p].promised : p \in {q \in Peer : responses[q] # None}}
      next     == {b \in promised : NumberOf[b] = NumberOf[head] + 1}
  IN  Max({0} \union {SumOf[b] : b \in next})

\* Too late to wait for a block that was promised.
TooLateNever == FALSE
TooLate == BlockMineDelay + BlockWaitDelay < Age

SyncNow(scan) ==
  LET level == NumberOf[scan.block] = NumberOf[head]
  IN
  \/ /\ NumberOf[head] + 1 < NumberOf[scan.block]
     /\ BlockMineDelay + BlockWaitDelay <= Age
  \/ SumOf[head] < scan.sum /\ level
  \/ Age < BlockSafeDelay /\ SumOf[head] = scan.sum /\ level /\ scan.block # head
  \/ /\ OwnSum < scan.sum
     /\ NetSum <= scan.sum \/ TooLate
  \/ /\ OwnSum >= scan.sum /\ scan.peer # None
     /\ BlockMineDelay - BlockWaitDelay <= Age /\ Age < BlockMineDelay

MineNow(scan) ==
  /\ ~ SyncNow(scan)
  /\ OwnSum >= scan.sum
  /\ \/ BlockMineDelay + BlockWaitDelay <= Age
     \/ BlockMineDelay <= Age /\ OwnSum >= NetSum

\* A peer's headers are asked for once: with an entry there the action ends.
AskHeaders(scan) ==
  /\ headers' = IF Assessed[scan.peer] # None THEN Assessed
                ELSE [Assessed EXCEPT ![scan.peer] =
                        [phase |-> "asked", front |-> scan.block, lcb |-> None,
                         reverts |-> FALSE, since |-> now]]
  /\ UNCHANGED <<head, mined, blockSync>>

Mine ==
  /\ head' = OwnBlock[head]
  /\ mined' = mined \union {OwnBlock[head]}
  /\ headers' = Assessed
  /\ UNCHANGED blockSync

Idle == blockSync = None

\* sync_worker
Worker ==
  LET poll == UpdatedVotes
  IN
  /\ NumberOf[head] + 1 < FreezeBefore
  /\ Idle
  /\ votes' = poll
  /\ \/ \E p \in Candidates(poll) : StartBlocks(poll, p)
     \/ /\ Candidates(poll) = {}
        /\ \E scan \in Scans :
             \/ SyncNow(scan) /\ AskHeaders(scan)
             \/ MineNow(scan) /\ OwnBlock[head] # None /\ Mine
             \/ /\ ~ SyncNow(scan) /\ (~ MineNow(scan) \/ OwnBlock[head] = None)
                /\ headers' = Assessed
                /\ UNCHANGED <<head, mined, blockSync>>
  /\ UNCHANGED <<now, responses>>

-----------------------------------------------------------------------------
(* The sessions *)

\* session_action_header: the headers down to the last block that the chain of the
\* promised header has in common with the node's, the header itself left out.
LastCommonWithFront(front) ==
  CHOOSE b \in ChainOf[front] \intersect ChainOf[head] :
    \A a \in ChainOf[front] \intersect ChainOf[head] : NumberOf[a] <= NumberOf[b]
LastCommon(front) ==
  CHOOSE b \in ChainOf[Parent[front]] \intersect ChainOf[head] :
    \A a \in ChainOf[Parent[front]] \intersect ChainOf[head] : NumberOf[a] <= NumberOf[b]

HeadersArrive(p) ==
  /\ headers[p] # None
  /\ headers[p].phase = "asked"
  /\ NumberOf[headers[p].front] * BlockMineDelay <= now + NodesTimeShift
  /\ headers' = [headers EXCEPT ![p].phase = "ready", ![p].lcb = LastCommon(headers[p].front)]
  /\ UNCHANGED <<head, mined, now, responses, blockSync, votes>>

\* session_action_block: the next InsertLength blocks have arrived.  One block in
\* place of one with the same sum is taken only for a richer miner.
Batch(s) == {b \in ChainOf[s.front] : /\ NumberOf[b] > NumberOf[s.lcb]
                                      /\ NumberOf[b] <= NumberOf[s.lcb] + InsertLength}
KeepsOwnNever(s, last) == FALSE
KeepsOwn(s, last) ==
  /\ Cardinality(Batch(s)) = 1
  /\ NumberOf[s.lcb] = NumberOf[head] - 1
  /\ MinerBalance[head] >= MinerBalance[last]
  /\ SumOf[head] = SumOf[last]

BlocksArrive ==
  LET s    == blockSync
      last == CHOOSE b \in Batch(s) : \A a \in Batch(s) : NumberOf[a] <= NumberOf[b]
      keep == KeepsOwn(s, last)
  IN
  /\ blockSync # None
  /\ s.phase = "loading"
  /\ s.lcb \in ChainOf[head]
  /\ head' = IF keep THEN head ELSE last
  /\ blockSync' = IF keep \/ last = s.front THEN [s EXCEPT !.phase = "done"]
                  ELSE [s EXCEPT !.lcb = last]
  /\ UNCHANGED <<mined, now, responses, headers, votes>>

\* A session ends: it is over, it was refused, the peer left, or it ran out of time.
HeadersEnd(p) ==
  /\ headers[p] # None
  /\ headers' = [headers EXCEPT ![p] = None]
  /\ UNCHANGED <<head, mined, now, responses, blockSync, votes>>

BlocksEnd ==
  /\ blockSync # None
  /\ blockSync' = None
  /\ UNCHANGED <<head, mined, now, responses, headers, votes>>

Tick ==
  /\ now < MaxTime
  /\ now' = now + 1
  /\ headers' = [p \in Peer |-> IF headers[p] # None /\ headers[p].since + SyncTimer < now'
                                THEN None ELSE headers[p]]
  /\ blockSync' = IF blockSync # None /\ blockSync.since + SyncTimer < now' THEN None ELSE blockSync
  /\ UNCHANGED <<head, mined, responses, votes>>

Next ==
  \/ \E p \in Peer : SyncResponse(p) \/ HeadersArrive(p) \/ HeadersEnd(p)
  \/ Worker \/ BlocksArrive \/ BlocksEnd \/ Tick

Spec == Init /\ [][Next]_vars

\* sync_worker runs every second while a session lives for SYNC_TIMER of them; a peer
\* that keeps being asked answers some time; sessions end; the clock goes on.
StartsBlocks == Worker /\ blockSync' # None
FairSpec ==
  /\ Spec
  /\ WF_vars(Worker) /\ SF_vars(StartsBlocks) /\ SF_vars(BlocksArrive) /\ WF_vars(BlocksEnd)
  /\ WF_vars(Tick)
  /\ \A p \in Peer : SF_vars(HeadersArrive(p)) /\ WF_vars(HeadersEnd(p))
-----------------------------------------------------------------------------
\* Types; and headers that arrived begin right after their last common block (what
\* check_headers_vector and the assertions of process_response are about).
TypeOK ==
  /\ head \in Block /\ mined \subseteq Block /\ now \in 0..MaxTime
  /\ responses \in [Peer -> [own : Block, promised : Block] \union {None}]
  /\ headers \in [Peer -> Entries \union {None}]
  /\ \A p \in Peer : headers[p] # None /\ headers[p].phase # "asked" =>
       headers[p].lcb \in ChainOf[Parent[headers[p].front]]
  /\ blockSync \in [peer : Peer, lcb : Block, front : Block, phase : {"loading", "done"},
                    voted : BOOLEAN, since : 0..MaxTime] \union {None}
  /\ votes \in [Peer -> [block : Block \union {None}, since : Int] \union {None}]

\* Without a vote a node gives up one block at most, and only while that block is
\* young, as block_worker's unsafe_time_to_revert wants, give or take the time the
\* session takes: headers that lie here, blocks that come late and a head that was
\* replaced in between do not make it more.
UnvotedSwitchIsShallow ==
  [][ LET given == ChainOf[head] \ ChainOf[head']
      IN  given # {} /\ ~ blockSync.voted =>
            Cardinality(given) = 1 /\ Age <= BlockSafeDelay + SyncTimer ]_vars

\* A block is replaced by another with the same sum only when the new one has a richer
\* miner: so two nodes do not swap their blocks for ever.  A vote may replace it with
\* more, then nobody looks at the balances.
EqualSwitchNeedsRicher ==
  [][ /\ head' # head /\ SumOf[head'] = SumOf[head] /\ NumberOf[head'] = NumberOf[head]
      /\ Parent[head'] = Parent[head]
      /\ ~ blockSync.voted \/ blockSync.lcb = Parent[head]
      => MinerBalance[head'] > MinerBalance[head] ]_vars

\* A node whose peers stay on the chain of b, one of them with b itself, gets to b
\* when it does not leave that chain: also when a better block was promised to it
\* that never comes.
Offered(b) ==
  /\ \E p \in Peer : responses[p] # None /\ responses[p].own = b
  /\ \A p \in Peer : responses[p] # None => responses[p].own \in ChainOf[b]
  /\ head \in ChainOf[b]
CatchesUp == \A b \in Block : <>[]Offered(b) => <>[](head = b)
=============================================================================
