---------------------------- MODULE MCLogClients ----------------------------
(***************************************************************************)
(* The two programs that follow the log of a node, each in worlds of its   *)
(* own: for the commander coins between accounts, one of which signs       *)
(* blocks, a channel whose contents are approved again, and a storage with *)
(* reports of what it served; for the storage manager two storages, a file *)
(* stored before and after it is in a unit, and reports of two files.      *)
(***************************************************************************)
EXTENDS Commander, StorageManager

Tx0(kind, from) == [kind |-> kind, from |-> from, to |-> "", amount |-> 0, fee |-> 0]
Transfer(from, to, amount, fee) ==
  [Tx0("transfer", from) EXCEPT !.to = to, !.amount = amount, !.fee = fee]
Sponsor == [Tx0("sponsor", "b") EXCEPT !.amount = 2, !.fee = 1]
UnitOf(uri, files) ==
  [channel |-> "ch", content |-> "c", uri |-> uri, files |-> files] @@ Tx0("unit", "au")
Unit(uri) == UnitOf(uri, {"f"})
Content(uris, fee) ==
  [channel |-> "ch", content |-> "c", uris |-> uris] @@ [Tx0("content", "ch") EXCEPT !.fee = fee]
Update(storage, status) ==
  [storage |-> storage, file |-> "f", status |-> status] @@ Tx0("update", storage)
Report(served) == [served |-> served] @@ Tx0("statistics", "ch")

Coins == {Transfer("a", "b", 1, 1), Transfer("b", "a", 2, 0), Sponsor}
Channel == {Unit("u"), Unit("v"), Content(<<"u">>, 1), Content(<<"u", "v">>, 0)}
Hosting == {Unit("u"), Update("st", "store"), Update("st", "remove"),
            Report("f" :> 2), Report("f" :> 1)}
Keeping == {Unit("u"), Unit("v"), Update("st", "store"), Update("st", "remove"),
            Update("su", "store")}
Clearing == {Unit("u"), Update("st", "store"), Report("f" :> 4)}
Reading == {UnitOf("u", {"f", "g"}), Update("st", "store"),
            Report("f" :> 4 @@ "g" :> 1), Report("f" :> 2)}

World(client, tx, pooled, authority, accounts, blockMax, length) ==
  [client |-> client, tx |-> tx, pooled |-> pooled, authorities |-> {authority},
   accounts |-> accounts,
   genesis |-> <<[to |-> "a", amount |-> 9], [to |-> "b", amount |-> 9],
                 [to |-> "ch", amount |-> 9]>>,
   reward |-> IF client = "manager" THEN 0 ELSE 3,
   kept |-> TRUE, blockMax |-> blockMax, length |-> length, new |-> 1]
RewardsLost(w) == [w EXCEPT !.kept = FALSE]

MCWorlds ==
  {World("commander", Coins, Coins, "a", {"a", "b"}, 2, 3),
   World("commander", Coins, Coins, "a", {"a", "b"}, 1, 4),
   RewardsLost(World("commander", Coins, Coins, "a", {"a", "b"}, 1, 3)),
   World("commander", Channel, Channel, "ch", {"ch"}, 2, 4),
   World("commander", Hosting, Hosting, "st", {"st"}, 2, 3),
   World("manager", Keeping, {Unit("u")}, "a", {"st", "su"}, 2, 3),
   World("manager", Clearing, {}, "a", {"st"}, 3, 6),
   World("manager", Reading, {}, "a", {"st", "su"}, 2, 4)}
\* A channel lets another address sign for it.
RightsWorld == {World("commander", {Tx0("authorization", "ch")}, {}, "a", {}, 1, 3)}

vars == <<world, commanderVars, managerVars>>

Init ==
  /\ world \in Worlds
  /\ CommanderInit
  /\ ManagerInit

Next ==
  /\ UNCHANGED world
  /\ \/ world.client = "commander" /\ CommanderNext /\ UNCHANGED managerVars
     \/ world.client = "manager" /\ ManagerNext /\ UNCHANGED commanderVars

Spec == Init /\ [][Next]_vars

\* Whatever the node's log brings and takes back, a reader can process it: none of
\* the checks of the commander's tables, nor of the manager's, throws, so neither
\* is left behind for good.  (The logic_errors of commander/daemon_rpc.cpp and
\* daemon_manager.cpp; the kinds of transactions commander/utility.cpp does not
\* know and a unit named twice are not in these worlds.  Where the reward logs
\* are lost no block with a reward can be taken back, and nothing is said.)
LogIsAlwaysTaken == (db.ok \/ ~ world.kept) /\ sm.ok
=============================================================================
