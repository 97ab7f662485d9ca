------------------------------ MODULE MCServer ------------------------------
(***************************************************************************)
(* A small instance of Server for TLC: a save, a download and a probe      *)
(* compete for one connection to write and one to read.                    *)
(***************************************************************************)
EXTENDS Server, TLC

MCPlans == "save" :> <<"read", "write", "log", "read">>
              @@ "export" :> <<"read", "stream">>
              @@ "ready" :> <<"pingWrite", "pingRead">>
=============================================================================
