------------------------------ MODULE MCPacer -------------------------------
(***************************************************************************)
(* Instances of Pacer for TLC.                                             *)
(***************************************************************************)
EXTENDS Pacer, TLC

CONSTANTS p1, p2, p3

\* Two processes with an interval that leaves room for jitter and one with a
\* shorter one.
MixedInterval == p1 :> 3 @@ p2 :> 3 @@ p3 :> 1

=============================================================================
