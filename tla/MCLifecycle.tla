----------------------------- MODULE MCLifecycle -----------------------------
(* Lifecycle on a machine the product knows, one it must ask about, and    *)
(* one that is no HP.                                                      *)
EXTENDS Lifecycle, TLC

MCHardware == {[mfg |-> "HP", board |-> "8BE5", bios |-> "F.25"],
               [mfg |-> "HP", board |-> "8A4C", bios |-> "F.10"],
               [mfg |-> "other", board |-> "X", bios |-> "1"]}
Slots == Permutations(P)
=============================================================================
