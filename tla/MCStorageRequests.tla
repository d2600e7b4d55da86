------------------------- MODULE MCStorageRequests -------------------------
(* One file is wanted from a channel that lacks it or from one that has it. *)
EXTENDS StorageRequests, TLC

MCWanted == {<<"f", "d">>, <<"g", "c">>, <<"g", "d">>}
MCHeld == ("c" :> {"f"}) @@ ("d" :> {"f", "g"})
============================================================================
