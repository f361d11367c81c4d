---------------------------- MODULE MCUserToken ----------------------------
(* Two reviews at once and four grants: a login, a trade each for the reviews, *)
(* and another login, before or after the first is stored, or a second trade. *)
(* The reviews are interchangeable, but symmetry is not used because a        *)
(* liveness property is checked.                                              *)
EXTENDS UserToken

CONSTANTS r1, r2
=============================================================================
