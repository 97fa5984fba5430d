-------------------------- MODULE MCCommandDelivery -------------------------
(***************************************************************************)
(* The instance TLC checks: two people use the same key, one of them       *)
(* another one as well.                                                    *)
(***************************************************************************)
EXTENDS CommandDelivery, TLC

CONSTANTS mine, theirs, other, q1, q2

Keys == mine :> "k1" @@ theirs :> "k1" @@ other :> "k2"

AnyCall == Permutations(Call)
=============================================================================
