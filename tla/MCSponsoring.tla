---------------------------- MODULE MCSponsoring ----------------------------
(***************************************************************************)
(* A small instance of Sponsoring: one unit, "x" runs from genesis and     *)
(* ends between two blocks, "y" begins later, "z" is over before it comes  *)
(* and can only be paid when "x" was cancelled.                            *)
(***************************************************************************)
EXTENDS Sponsoring

MCItem(sponsor, start, finish, amount) ==
  [type |-> "Sponsor", sponsor |-> sponsor, unit |-> "u",
   start |-> start, finish |-> finish, amount |-> amount]
MCAction == [t \in {"x", "y", "z", "cancel"} |->
  CASE t = "x" -> MCItem("a", 0, 3, 7)
    [] t = "y" -> MCItem("b", 3, 6, 4)
    [] t = "z" -> MCItem("a", -3, 0, 5)
    [] OTHER   -> [type |-> "Cancel", sponsor |-> "a", unit |-> "u", of |-> "x"]]
MCCreation == [t \in {"x", "y", "z", "cancel"} |->
  CASE t = "y" -> 1 [] t = "x" -> 2 [] t = "cancel" -> 3 [] OTHER -> 4]
MCFirstBalance == [s \in {"a", "b"} |-> 8]
ActionOf == [t \in Tx |-> MCAction[t]]
CreationOf == [t \in Tx |-> MCCreation[t]]
=============================================================================
