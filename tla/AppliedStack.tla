---------------------------- MODULE AppliedStack ----------------------------
(***************************************************************************)
(* What the action log of a node promises to the rest of the program: a    *)
(* stack of the actions that are applied.  A handler pushes and pops, then *)
(* commits everything or drops everything; a stop of the process drops     *)
(* what was not committed.                                                 *)
(***************************************************************************)
EXTENDS Integers, Sequences, FiniteSets

CONSTANT Tx   \* pool transactions; blocks are numbered

VARIABLES
  applied,    \* the stack a handler works on
  committed   \* the stack a restart finds

vars == <<applied, committed>>

Blocks(stack) == {i \in DOMAIN stack : stack[i].type = "block"}

Init ==
  /\ applied = <<[type |-> "block", number |-> 0]>>
  /\ committed = applied

\* A block is logged on top of the blocks that are applied.
Push ==
  /\ \/ \E t \in Tx : applied' = Append(applied, [type |-> "tx", id |-> t])
     \/ applied' = Append(applied, [type |-> "block", number |-> Cardinality(Blocks(applied))])
  /\ UNCHANGED committed

Pop ==
  /\ applied # <<>>
  /\ applied' = SubSeq(applied, 1, Len(applied) - 1)
  /\ UNCHANGED committed

Commit == committed' = applied /\ UNCHANGED applied

Drop == applied' = committed /\ UNCHANGED committed

Next == Push \/ Pop \/ Commit \/ Drop

Spec == Init /\ [][Next]_vars
=============================================================================
