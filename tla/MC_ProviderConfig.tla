------------------------- MODULE MC_ProviderConfig -------------------------
EXTENDS ProviderConfig

(* A letter, the separator cleanup_scope splits on, and whitespace it   *)
(* does not split on.                                                    *)
MCTyped == {"a", " ", "\t"}
=============================================================================
