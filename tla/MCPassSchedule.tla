--------------------------- MODULE MCPassSchedule ---------------------------
(***************************************************************************)
(* The instance TLC checks.                                                *)
(***************************************************************************)
EXTENDS PassSchedule, TLC

CONSTANTS s1, j1, j2, j3

\* Two TLEs that disagree on the end of the first pass and the time of the second.
TwoTles == 1 :> (s1 :> {1, 3, 4}) @@ 2 :> (s1 :> {1, 2, 4})

AnyJob == Permutations(Job)
=============================================================================
