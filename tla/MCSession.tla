------------------------------ MODULE MCSession ------------------------------
(***************************************************************************)
(* SessionServer on small instances: the ids of the requests are strings,  *)
(* everything else a configuration chooses is a bound or the engine.       *)
(***************************************************************************)
EXTENDS SessionRestore

NoRequests == {}
OneApproval == {"a"}
OneQuestion == {"q"}
=============================================================================
