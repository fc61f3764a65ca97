--------------------------- MODULE MCSuperVersion ---------------------------
(* Small instances of SuperVersion for TLC. *)
EXTENDS SuperVersion

CONSTANTS t1, t2
=============================================================================
