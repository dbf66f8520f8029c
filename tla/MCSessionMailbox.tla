--------------------------- MODULE MCSessionMailbox ---------------------------
(* The instance TLC checks. *)
EXTENDS SessionMailbox

=============================================================================
