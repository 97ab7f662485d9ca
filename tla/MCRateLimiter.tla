--------------------------- MODULE MCRateLimiter ---------------------------
(***************************************************************************)
(* Small instances of RateLimiter for TLC.                                 *)
(***************************************************************************)
EXTENDS RateLimiter, TLC

MCKeys == {"10.0.0.1", "10.0.0.2"}

\* The phone stays behind the watched address, the laptop moves.
MCComesFrom == [r \in Requests |-> IF r = "phone" THEN {"10.0.0.1"} ELSE MCKeys]
=============================================================================
