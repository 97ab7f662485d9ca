---------------------------- MODULE MCWebClient ----------------------------
(***************************************************************************)
(* A small instance of WebClient for TLC: somebody invited alone, who may  *)
(* bring a companion, and a child with an age, for whom the ids are used   *)
(* up.                                                                     *)
(***************************************************************************)
EXTENDS WebClient

MCOneHouse == {1}

MCStarts == {[children |-> {}, guests |-> 1], [children |-> {1}, guests |-> 2]}
=============================================================================
