----------------------- MODULE MCKSynchronizationObject -----------------------
(* Small instances of KSynchronizationObject.                                  *)
EXTENDS KSynchronizationObject

CONSTANTS x, y

\* No handle, one object twice in a row or around the other, and both in the
\* other order.
Duplicates == {<<>>, <<x, x>>, <<x, y, x>>, <<y, x>>}
=============================================================================
