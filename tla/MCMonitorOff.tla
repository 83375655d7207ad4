---------------------------- MODULE MCMonitorOff ----------------------------
(* MonitorOff with the UI thread and a second caller, and room for three   *)
(* workers: one that owns the broadcast and two still on their way out.    *)
EXTENDS MonitorOff
CONSTANTS ui, other, w1, w2, w3
=============================================================================
