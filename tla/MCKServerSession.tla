--------------------------- MODULE MCKServerSession ---------------------------
EXTENDS KServerSession

CONSTANTS c1, c2, s1, s2

\* One thread sends synchronous requests only, the other both kinds.
OneAsync == [c \in Clients |-> IF c = c1 THEN {FALSE} ELSE BOOLEAN]
=============================================================================
