-------------------------- MODULE MCTransactionFlow --------------------------
(***************************************************************************)
(* Small instances of TransactionFlow: one transaction with a single       *)
(* signature ("t"), and one with two authors: its two single-signature     *)
(* forms "a" and "b" and the complete form "ab".                           *)
(***************************************************************************)
EXTENDS TransactionFlow

MCTx == {"t", "a", "b", "ab"}
MCComplete == {"t", "ab"}
MCParts == [t \in MCTx |-> IF t = "ab" THEN {"a", "b"} ELSE {}]

\* "ab" is created before the first block and can be mined late, "t" is created
\* when the first block is due.
MCCreation == [t \in MCTx |-> IF t = "t" THEN 2 ELSE 1]

\* "ab" leaves the last NODES_TIME_SHIFT of the allowed lifetime unused, "t" uses it.
MixedExpiry == [t \in MCTx |-> MCCreation[t] + IF t = "t" THEN 6 ELSE 5]

\* The longest lifetime signed_transaction_validate allows.
FullExpiry == [t \in MCTx |-> MCCreation[t] + 6]

=============================================================================
