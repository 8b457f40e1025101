------------------------- MODULE MCProviderAccess -------------------------
(* Small instances of ProviderAccess for TLC. *)
EXTENDS ProviderAccess, TLC

\* Progressive cooldowns, the last of which repeats.
MCCooldowns == <<1, 2>>

\* Which worker is which makes no difference.
Symmetry == Permutations(Workers)
=============================================================================
