------------------------- MODULE MC_UpstreamLogin -------------------------
(* Model-checking instance of UpstreamLogin: two callback ids and two     *)
(* concurrent login_finish tasks, enough for a forged request racing an   *)
(* honest one, a replay of one callback, and a mix of two logins' values. *)
EXTENDS UpstreamLogin, TLC

CONSTANTS c1, c2, r1, r2

MCCallbackId == {c1, c2}
MCRequests == {r1, r2}

Symmetry == Permutations(MCCallbackId) \cup Permutations(MCRequests)
=============================================================================
