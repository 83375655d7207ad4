---------------------------- MODULE WriteLimiter ----------------------------
(***************************************************************************)
(* The token bucket in front of every BIOS/EC write, seen over time.       *)
(* Clocks are ages: idle is the time since self.last (Instant is           *)
(* monotonic).  An observation window that may be opened at any moment     *)
(* counts what the bucket granted since.                                   *)
(***************************************************************************)
EXTENDS TokenBucket

CONSTANT MaxWindow   \* longest window observed (bound)

ASSUME WindowAssumption == MaxWindow \in Nat

VARIABLES elapsed,   \* ticks since the observation window was opened
          granted    \* units granted since then

limiterVars == <<tokens, idle, elapsed, granted>>

LimiterTypeOK == /\ tokens \in 0..Burst
                 /\ idle \in 0..Burst
                 /\ elapsed \in 0..MaxWindow
                 /\ granted \in Nat

LimiterInit == /\ tokens = Burst
               /\ idle = 0
               /\ elapsed = 0
               /\ granted = 0

Elapse == /\ elapsed < MaxWindow
          /\ elapsed' = elapsed + 1
          /\ idle' = Least(idle + 1, Burst)
          /\ UNCHANGED <<tokens, granted>>

(* Changed forms: the time of a denied call is not remembered, so its      *)
(* refill is counted again; the bucket is not capped at BURST; a denial    *)
(* drops the refill it computed.                                           *)
AttemptKeepsLast ==
  /\ tokens' = TokensAfter(tokens, idle)
  /\ idle' = IF Allowed(tokens, idle) THEN 0 ELSE idle
  /\ granted' = IF Allowed(tokens, idle) THEN granted + Cost ELSE granted
  /\ UNCHANGED elapsed

AttemptUncapped ==
  /\ tokens' = IF tokens + idle >= Cost THEN tokens + idle - Cost ELSE tokens + idle
  /\ idle' = 0
  /\ granted' = IF tokens + idle >= Cost THEN granted + Cost ELSE granted
  /\ UNCHANGED elapsed

AttemptDropsRefill ==
  /\ tokens' = IF Allowed(tokens, idle) THEN TokensAfter(tokens, idle) ELSE tokens
  /\ idle' = 0
  /\ granted' = IF Allowed(tokens, idle) THEN granted + Cost ELSE granted
  /\ UNCHANGED elapsed

(* allow_write                                                             *)
Attempt ==
  /\ tokens' = TokensAfter(tokens, idle)
  /\ idle' = 0
  /\ granted' = IF Allowed(tokens, idle) THEN granted + Cost ELSE granted
  /\ UNCHANGED elapsed

(* Watch the bucket from now on; changes nothing in the code.              *)
OpenWindow == /\ elapsed' = 0
              /\ granted' = 0
              /\ UNCHANGED <<tokens, idle>>

LimiterNext == Elapse \/ Attempt \/ OpenWindow

LimiterSpec == LimiterInit /\ [][LimiterNext]_limiterVars
-----------------------------------------------------------------------------
(* Over any window, whenever it starts, the BIOS is given at most one      *)
(* burst plus what the rate allows: sustained writes are capped to         *)
(* REFILL_PER_SEC "with a small burst" (service.rs:306-309).               *)
WindowBudget == granted <= Burst + elapsed

(* What is still to be spent counts against the same budget: the           *)
(* strengthening that makes WindowBudget inductive.                        *)
Ledger == granted + Refilled(tokens, idle) <= Burst + elapsed

(* A write is denied only when the bucket really was spent: whatever       *)
(* window one looks back on, the grants in it had already used its share,  *)
(* so "a human's occasional toggles never reach the limit"                 *)
(* (service.rs:308-309), denied attempts included.                         *)
DeniedOnlyWhenSpent ==
  ~Allowed(tokens, idle) => granted + Cost > Least(elapsed, Burst)

(* Its inductive form: nothing of the refill is ever lost.                 *)
NothingForgotten == Refilled(tokens, idle) + granted >= Least(elapsed, Burst)
=============================================================================
