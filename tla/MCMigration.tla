---------------------------- MODULE MCMigration ----------------------------
(***************************************************************************)
(* A small instance of Migration for TLC: a first release, one whose       *)
(* second script is broken, the one that mends it, and two directories     *)
(* that must be refused.                                                   *)
(***************************************************************************)
EXTENDS Migration

Good(v)   == [version |-> v, wellFormed |-> TRUE, sound |-> TRUE]
Broken(v) == [Good(v) EXCEPT !.sound = FALSE]

MCBinaries ==
    {{Good(1)}, {Good(1), Broken(2)}, {Good(1), Good(2), Good(3)},
     {Good(1), Broken(1)}, {Good(1), [Good(2) EXCEPT !.wellFormed = FALSE]}}
=============================================================================
