------------------------------ MODULE MCLedger ------------------------------
(***************************************************************************)
(* A small instance of Ledger: the node and one other account, a transfer  *)
(* to the node, and a file by both authors, signed by one ("a", "b") or by *)
(* both ("ab").  The fee of the file is paid by the node, which can do so  *)
(* in some orders only.                                                    *)
(***************************************************************************)
EXTENDS Ledger

MCAddress == {"own", "peer"}
MCGenesis == [x \in MCAddress |-> IF x = "own" THEN 2 ELSE 4]

MCTx == {"in", "a", "b", "ab"}
MCComplete == {"in", "ab"}
MCParts == [t \in MCTx |-> IF t = "ab" THEN {"a", "b"} ELSE {}]
MCFile == [type |-> "File", authors |-> <<"own", "peer">>, uri |-> "u"]
MCAction == [t \in MCTx |->
  IF t = "in" THEN [type |-> "Transfer", from |-> "peer", to |-> "own", amount |-> 3]
  ELSE MCFile]
MCFee == [t \in MCTx |-> IF t = "in" THEN 1 ELSE 3]
MCCreation == [t \in MCTx |-> IF t = "in" THEN 0 ELSE 1]
MCExpiry == [t \in MCTx |-> 4]
=============================================================================
