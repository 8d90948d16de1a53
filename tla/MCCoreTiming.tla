----------------------------- MODULE MCCoreTiming -----------------------------
(* Small instances of CoreTiming.                                              *)
EXTENDS CoreTiming, TLC

CONSTANTS once, loop

\* One type that is scheduled once and one that loops.
OnceAndLoop == once :> 0 @@ loop :> 1
=============================================================================
