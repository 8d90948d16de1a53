------------------------- MODULE MCKAddressArbiter -------------------------
(* Small instances of KAddressArbiter.                                      *)
EXTENDS KAddressArbiter

CONSTANTS a, b, c

Three           == {a, b, c}
ThreePriorities == a :> 1 @@ b :> 2 @@ c :> 2
\* Of the words -2..1, a value that few are less than and one that most are.
OddValues       == {-1, 1}
=============================================================================
