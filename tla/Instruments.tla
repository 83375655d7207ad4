---------------------------- MODULE Instruments ----------------------------
(***************************************************************************)
(* The tray's instruments, the microphone and the graphics library, share  *)
(* nothing: a behaviour follows one of them.                               *)
(***************************************************************************)
EXTENDS NoiseAdapt, Gpu

VARIABLE part
vars == <<part, noiseVars, gpuVars>>

Init == /\ part \in {"microphone", "graphics"}
        /\ NoiseInit /\ GpuInit
        /\ part = "graphics" => file = NoFile /\ coolsense = 0
Next == \/ part = "microphone" /\ NoiseNext /\ UNCHANGED <<part, gpuVars>>
        \/ part = "graphics" /\ GpuNext /\ UNCHANGED <<part, noiseVars>>

Spec == Init /\ [][Next]_vars /\ NoiseFairness /\ GpuFairness
=============================================================================
