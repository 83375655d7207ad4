---------------------------- MODULE MCMenuCache ----------------------------
(* MenuCache with two thermal modes.                                       *)
EXTENDS MenuCache
CONSTANTS cool, perf
=============================================================================
