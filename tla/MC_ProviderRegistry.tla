------------------------ MODULE MC_ProviderRegistry ------------------------
EXTENDS ProviderRegistry, TLC

CONSTANTS i1, i2, t1, t2

MCIds == {i1, i2}
MCTasks1 == {t1}
MCTasks2 == {t1, t2}

(* Ids and tasks are interchangeable; all properties are safety *)
Symmetry == Permutations(MCIds) \cup Permutations(MCTasks2)
=============================================================================
