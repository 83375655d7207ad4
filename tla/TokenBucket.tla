---------------------------- MODULE TokenBucket ----------------------------
(***************************************************************************)
(* The service's WriteLimiter and the arithmetic of allow_write            *)
(* (app/src/service.rs), for every module in which a write costs a token.  *)
(* A unit is what the bucket regains in one tick, so the refill rate is    *)
(* one; a write costs Cost units and the bucket holds Burst of them.  The  *)
(* code's numbers (5 writes of burst, 5 a second) are Burst = 5 * Cost     *)
(* with a tick of 200 ms / Cost.  The fractions of an f64 between two      *)
(* ticks are not modelled.                                                 *)
(***************************************************************************)
EXTENDS Naturals

CONSTANTS Burst, Cost

ASSUME BucketAssumption == /\ Burst \in Nat /\ Cost \in Nat
                           /\ 0 < Cost /\ Cost <= Burst

VARIABLES tokens,    \* WriteLimiter.tokens, in units
          idle       \* ticks since WriteLimiter.last; a gap longer than Burst
                     \* refills no more than Burst does

Least(a, b) == IF a <= b THEN a ELSE b

(* (self.tokens + refill).min(Self::BURST), i ticks after self.last        *)
Refilled(t, i) == Least(t + i, Burst)

(* self.tokens >= 1.0 once refilled                                        *)
Allowed(t, i) == Refilled(t, i) >= Cost

(* self.tokens when allow_write returns: refilled, and paid for if granted *)
TokensAfter(t, i) ==
  IF Allowed(t, i) THEN Refilled(t, i) - Cost ELSE Refilled(t, i)
=============================================================================
