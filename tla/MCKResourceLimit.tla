--------------------------- MODULE MCKResourceLimit ---------------------------
(* Small instances of KResourceLimit.                                          *)
EXTENDS KResourceLimit
=============================================================================
