---------------------------- MODULE MCForkChoice ----------------------------
(***************************************************************************)
(* Small instances of ForkChoice: a node that may mine "own" beside the    *)
(* first block of its peers, which have a second one, and a node that only *)
(* follows and is promised a better block.                                 *)
(***************************************************************************)
EXTENDS ForkChoice, TLC

MCParent == [b \in Block \ {Genesis} |-> IF b = "second" THEN "first" ELSE Genesis]
MCOwnBlock == [b \in Block |-> IF b = Genesis THEN "own" ELSE None]
NoMiner == [b \in Block |-> None]

MCMinerBalance == [b \in Block |-> IF b = "own" THEN 1 ELSE 2]
MCStake == [p \in Peer |-> 2]
NoStake == [p \in Peer |-> 0]
Peers == Permutations(Peer)

\* First blocks with the same sum; a block that is promised to be the better one.
EqualDelta == [b \in Block |-> IF b = Genesis THEN 0 ELSE 2]
PromisedDelta == [b \in Block |-> CASE b = Genesis -> 0 [] b = "better" -> 2 [] OTHER -> 1]
=============================================================================
