------------------------------- MODULE Xtask -------------------------------
(***************************************************************************)
(* xtask's commands share no state but the repository: a behaviour follows *)
(* one of them, with the workflows that run it, from its own first state.  *)
(***************************************************************************)
EXTENDS Supply, Release, Closure, AccountTrial

VARIABLE command
vars == <<command, exploreVars, supplyVars, releaseVars, closureVars, trialVars>>

(* main: the subcommand decides. *)
Init == /\ command \in {"explore", "gate", "verify-artifact", "audit-dll-closure", "vsa-spike"}
        /\ ExploreInit /\ missed = (command # "explore")
        /\ today = (IF command = "gate" THEN MaxDay ELSE 0)
        /\ IF command = "gate" THEN SupplyInit ELSE SupplyIdle
        /\ IF command = "verify-artifact" THEN ReleaseInit ELSE ReleaseIdle
        /\ IF command = "audit-dll-closure" THEN ClosureInit ELSE ClosureIdle
        /\ IF command = "vsa-spike" THEN TrialInit ELSE TrialIdle

Others(own) == UNCHANGED <<command, own>>
Next == \/ /\ command = "explore" /\ ExploreNext
           /\ Others(<<supplyVars, releaseVars, closureVars, trialVars>>)
        \/ /\ command = "gate" /\ SupplyNext
           /\ Others(<<exploreVars, releaseVars, closureVars, trialVars>>)
        \/ /\ command = "verify-artifact" /\ ReleaseNext
           /\ Others(<<exploreVars, supplyVars, closureVars, trialVars>>)
        \/ /\ command = "audit-dll-closure" /\ Walk
           /\ Others(<<exploreVars, supplyVars, releaseVars, trialVars>>)
        \/ /\ command = "vsa-spike" /\ TrialNext
           /\ Others(<<exploreVars, supplyVars, releaseVars, closureVars>>)

Spec == Init /\ [][Next]_vars
=============================================================================
