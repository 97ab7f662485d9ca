----------------------------- MODULE MCSessions -----------------------------
(***************************************************************************)
(* Small instances of Sessions for TLC.  Codes are strings, so that NoCode *)
(* can be told apart from them; a cfg chooses the operations.              *)
(***************************************************************************)
EXTENDS Sessions, TLC

MCCodes    == {"K1", "K2", "K3"}
MCOneHouse == 1 :> "K1"
MCTwoHouses == 1 :> "K1" @@ 2 :> "K2"

Visits    == {"LogIn", "Me"}

MCSymmetry == Permutations(Requests) \cup Permutations(Clients)
=============================================================================
