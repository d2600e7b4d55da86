---------------------------- MODULE MCCatalogue ----------------------------
(***************************************************************************)
(* Small instances of Catalogue, one for each setting.                     *)
(*   service  two channels and a storage are there, one channel serves a   *)
(*            unit of the other; reports, and a transfer that takes a      *)
(*            channel below its threshold                                  *)
(*   sharing  both channels serve a unit that one of them has              *)
(*   library  a storage follows the chain: a unit and its content          *)
(*   keeping  the storage no longer holds a file, and holds it again       *)
(*   rights   an author is given the channel's rights, takes the channel's *)
(*            away; the channel cannot do so itself                        *)
(*   late     a node that is paid and then mines; a content signed before  *)
(*            the role of its channel                                      *)
(***************************************************************************)
EXTENDS Catalogue

MCAddress == {"m", "own", "au", "ch", "ch2", "st"}
MCKind == {"Transfer", "File", "ContentUnit", "Content", "Role", "StorageUpdate",
           "AuthorizationUpdate", "ServiceStatistics", "Block"}

Role(node, kind) == [type |-> "Role", node |-> node, kind |-> kind]
Report(server, unit, peer, count) ==
  [type |-> "ServiceStatistics", server |-> server, block |-> 1,
   items |-> {[unit |-> unit, file |-> "f", peer |-> peer, count |-> count]}]
Right(status, owner, actor, kinds) ==
  [type |-> "AuthorizationUpdate", status |-> status, owner |-> owner, actor |-> actor,
   kinds |-> kinds]
Store(status) == [type |-> "StorageUpdate", storage |-> "st", uri |-> "f", status |-> status]

MCAction ==
  [channel |-> Role("ch", "channel"), other |-> Role("ch2", "channel"),
   storage |-> Role("st", "storage"),
   file    |-> [type |-> "File", authors |-> <<"au", "m">>, uri |-> "f"],
   unit    |-> [type |-> "ContentUnit", uri |-> "u", authors |-> <<"au">>, channel |-> "ch",
                content |-> 1, files |-> <<"f">>],
   content |-> [type |-> "Content", channel |-> "ch", content |-> 1, units |-> <<"u">>],
   hold    |-> Store("store"), drop |-> Store("remove"), again |-> Store("store"),
   served  |-> Report("ch2", "u", "st", 5), stored |-> Report("st", None, "ch2", 6),
   own     |-> Report("ch", "u", "st", 6),
   both    |-> [Report("st", None, "ch", 6) EXCEPT
                  !.items = @ \union Report("st", None, "ch2", 6).items],
   spend   |-> [type |-> "Transfer", from |-> "ch2", to |-> "m", amount |-> 1],
   fund    |-> [type |-> "Transfer", from |-> "m", to |-> "au", amount |-> 1],
   some    |-> Right("store", "ch", "au", {"Content"}),
   all     |-> Right("store", "ch", "au", {}),
   oust    |-> Right("remove", "ch", "ch", {}),
   resign  |-> Right("remove", "ch", "ch", {}),
   leave   |-> Right("remove", "ch", "au", {})]
MCTx == DOMAIN MCAction
MCSigners == [t \in MCTx |->
  IF t = "file" THEN <<"au", "m">>
  ELSE IF t \in {"unit", "oust"} THEN <<"au">>
  ELSE IF t \in {"served", "spend", "other"} THEN <<"ch2">>
  ELSE IF t \in {"stored", "both", "storage", "hold", "drop", "again"} THEN <<"st">>
  ELSE IF t = "fund" THEN <<"m">> ELSE <<"ch">>]
MCCreation == [t \in MCTx |->
  IF t = "other" THEN 0 ELSE IF t \in {"content", "spend", "hold", "unit", "own"} THEN 2
  ELSE IF t \in {"channel", "drop", "served", "stored", "both", "oust"} THEN 3
  ELSE 1]

AllFresh == [a \in MCAddress |-> a]
OneHost == [a \in MCAddress |-> IF a = "ch2" THEN "st" ELSE a]
MCFresh == {AllFresh, OneHost}

Setting(address, kind, first, offered) ==
  [address |-> address, kind |-> kind, first |-> first, offered |-> offered]
Service == Setting("own", "blockchain", <<"other", "storage", "file", "unit">>,
                   {"served", "stored", "spend"})
Sharing == Setting("own", "blockchain", <<"channel", "other", "storage", "file", "unit">>,
                   {"served", "own", "both"})
Library == Setting("st", "storage", <<"storage", "file">>, {"unit", "channel", "content"})
Keeping == Setting("st", "storage", <<"storage", "file", "hold">>, {"drop", "again"})
Rights == Setting("own", "blockchain", <<"file", "unit">>,
                  {"all", "oust", "leave", "some", "resign"})
Late == Setting("au", "blockchain", <<"file", "unit">>, {"fund", "channel", "content"})
MCSettings == {Service, Sharing, Library, Keeping, Rights, Late}
OnlyLate == {Late}
OnlyService == {Service}

MCFirstBalance == [a \in MCAddress |->
  CASE a \in {"own", "m", "ch2"} -> 2 [] a = "au" -> 0 [] OTHER -> 2]
MCRank == [a \in MCAddress |->
  CASE a = "au" -> 1 [] a = "ch" -> 2 [] a = "ch2" -> 3 [] a = "m" -> 4 [] a = "own" -> 5
    [] OTHER -> 6]
MCThreshold == [k \in {"channel", "storage", "miner"} |-> IF k = "channel" THEN 2 ELSE 1]
=============================================================================
