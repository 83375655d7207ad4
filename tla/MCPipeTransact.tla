--------------------------- MODULE MCPipeTransact ---------------------------
(* PipeTransact with the installed tray and one copy of the executable     *)
(* that was started from somewhere else.                                   *)
EXTENDS PipeTransact
CONSTANTS tray, copy
=============================================================================
