------------------------ MODULE MC_ProjectInvitation ------------------------
(***************************************************************************)
(* One address whose identity was deleted and made anew: Cognito answers   *)
(* the old sub for a while after the new one signs in.                     *)
(***************************************************************************)
EXTENDS ProjectInvitation, TLC

CONSTANTS e1, u1, u2

MCIdentities == {<<e1, u1>>, <<e1, u2>>}

Symmetry == Permutations(Requests) \cup Permutations(Subs)
=============================================================================
