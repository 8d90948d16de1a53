----------------------------- MODULE MCKScheduler -----------------------------
(* Two threads of one priority that may run on either core.  One may be bound to    *)
(* core 0, the other raised above the priority from which threads are not taken.    *)
EXTENDS KScheduler

CONSTANTS a, b

AnyCore  == [t \in Threads |-> Cores]
Equal    == [t \in Threads |-> 3]
Raised   == [t \in Threads |-> IF t = b THEN {1} ELSE {}]
Bound    == [t \in Threads |-> IF t = a THEN {{0}} ELSE {}]
EachCore == [c \in Cores |-> 3]
=============================================================================
