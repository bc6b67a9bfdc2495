---------------------- MODULE MC_IdentityReconciler ----------------------
(* Model-checking instance of IdentityReconciler: one local account, room *)
(* for two federated ones, two providers that may share a `sub`, and two  *)
(* or three concurrent logins.                                             *)
EXTENDS IdentityReconciler, TLC

CONSTANTS u1, u2, u3, e1, e2, e3, s1, s2, p1, p2, t1, t2, t3, birthdate, phone

MCUsers == {u1, u2, u3}
MCEmails == {e1, e2, e3}
MCSubs == {s1, s2}
MCProviders == {p1, p2}
MCClaimFields == {birthdate}
MCTasks2 == {t1, t2}
MCTasks3 == {t1, t2, t3}

Symmetry ==
    Permutations(MCUsers) \cup Permutations(MCEmails) \cup Permutations(MCSubs)
    \cup Permutations(MCProviders) \cup Permutations(MCTasks3)
=============================================================================
