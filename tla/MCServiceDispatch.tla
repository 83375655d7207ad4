------------------------- MODULE MCServiceDispatch -------------------------
(* The two slots the menu uses, which meet in CMD_READ_STATE.  Ticks are   *)
(* of 50 ms: cooldowns of two, a call of at most one, a bucket of two      *)
(* writes.                                                                 *)
EXTENDS ServiceDispatch

MCCooldown == [s \in Cached |-> IF s = "temp" THEN 3 ELSE 2]
=============================================================================
