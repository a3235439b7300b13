------------------------- MODULE MCResourceLimiter ------------------------
(* Small instances of ResourceLimiter for TLC.                             *)
EXTENDS ResourceLimiter, TLC

CONSTANTS p1, p2, a, b, c

\* Two threads of one process, of which b asks with priority, and one of another.
ProcessOfThree == a :> p1 @@ b :> p1 @@ c :> p2
PriorityOfThree == a :> 0 @@ b :> 1 @@ c :> 0
=============================================================================
