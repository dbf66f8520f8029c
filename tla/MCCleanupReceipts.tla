------------------------- MODULE MCCleanupReceipts -------------------------
(* CleanupReceipts with one receipt the server never answers. *)
EXTENDS CleanupReceipts

MCStubborn == {<<1, "cleanup_failed", 1>>}
=============================================================================
