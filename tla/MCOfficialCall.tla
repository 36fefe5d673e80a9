--------------------------- MODULE MCOfficialCall ---------------------------
(* Small instances of OfficialCall for TLC. *)
EXTENDS OfficialCall, TLC
=============================================================================
