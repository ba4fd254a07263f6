--------------------------- MODULE MCJobScheduler ---------------------------
(***************************************************************************)
(* An instance of JobScheduler for TLC: nodes whose options differ.        *)
(* MCServices checks the lease itself, MCSettles its takeover.             *)
(***************************************************************************)
EXTENDS JobScheduler, TLC

CONSTANTS n1, n2

\* n2 was deployed with a shorter lease than n1.
MixedLease == n1 :> 7 @@ n2 :> 3
MixedHeartbeat == n1 :> 3 @@ n2 :> 1

TokenSymmetry == Permutations(Tokens)
=============================================================================
