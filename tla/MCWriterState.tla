--------------------------- MODULE MCWriterState ---------------------------
(* Small instances of WriterState for TLC. *)
EXTENDS WriterState

CONSTANTS l, f1, f2

Group == <<l, f1, f2>>
=============================================================================
