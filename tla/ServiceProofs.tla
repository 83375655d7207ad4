---------------------------- MODULE ServiceProofs ----------------------------
(***************************************************************************)
(* The service's write limiter, for every burst, cost and window, and its  *)
(* request handler, for any values, cooldowns and longest BIOS call.  The  *)
(* limiter's books balance in both directions.  In the handler each place  *)
(* a value can be in (the cache, the call in progress, the parts of the    *)
(* reply) is tied to what the hardware holds and to how long ago it held   *)
(* something else; a write may break the tie only where the request has    *)
(* emptied the cache first.                                                *)
(***************************************************************************)
EXTENDS WriteLimiter, ServiceDispatch, TLAPS

-----------------------------------------------------------------------------
(* The write limiter. *)

(* What is left in the bucket, its range included.                         *)
LEMMA RefilledRange ==
  ASSUME NEW t \in 0..Burst, NEW i \in Nat
  PROVE  /\ Refilled(t, i) \in 0..Burst
         /\ TokensAfter(t, i) \in 0..Burst
  BY BucketAssumption DEF Refilled, TokensAfter, Allowed, Least

(* A call at once after another finds what that one left.                  *)
LEMMA RefilledNow ==
  ASSUME NEW t \in 0..Burst
  PROVE  Refilled(t, 0) = t
  BY BucketAssumption DEF Refilled, Least

(* A tick adds at most one unit, and none to a full bucket.                *)
LEMMA RefilledTick ==
  ASSUME NEW t \in 0..Burst, NEW i \in 0..Burst
  PROVE  Refilled(t, Least(i + 1, Burst)) = Least(Refilled(t, i) + 1, Burst)
  BY BucketAssumption DEF Refilled, Least

Ledgers == LimiterTypeOK /\ Ledger /\ NothingForgotten

(* The bucket starts full, the ledger empty.                               *)
LEMMA InitLedgers == LimiterInit => Ledgers
  BY BucketAssumption, WindowAssumption
     DEF LimiterInit, Ledgers, LimiterTypeOK, Ledger, NothingForgotten, Refilled, Least

(* The ledger balances: a grant moves units from the bucket to granted, a  *)
(* tick adds at most one unit to both sides, a new window only drops what  *)
(* was granted before.                                                     *)
LEMMA StepLedgers == Ledgers /\ [LimiterNext]_limiterVars => Ledgers'
<1> SUFFICES ASSUME Ledgers, [LimiterNext]_limiterVars PROVE Ledgers'
  OBVIOUS
<1> USE BucketAssumption, WindowAssumption
<1> DEFINE R == Refilled(tokens, idle)
<1>1. R \in 0..Burst /\ tokens \in 0..Burst /\ idle \in 0..Burst
      /\ elapsed \in 0..MaxWindow /\ granted \in Nat
      /\ granted + R <= Burst + elapsed /\ R + granted >= Least(elapsed, Burst)
  BY RefilledRange DEF Ledgers, LimiterTypeOK, Ledger, NothingForgotten
<1>2. CASE Elapse
  <2>1. R' = Least(R + 1, Burst)
    BY <1>1, <1>2, RefilledTick DEF Elapse
  <2>2. LimiterTypeOK'
    BY <1>1, <1>2 DEF Elapse, LimiterTypeOK, Least
  <2>3. Ledger' /\ NothingForgotten'
    BY <1>1, <1>2, <2>1 DEF Elapse, Ledger, NothingForgotten, Least
  <2> QED BY <2>2, <2>3 DEF Ledgers
<1>3. CASE Attempt
  <2>1. tokens' \in 0..Burst /\ R' = tokens'
    BY <1>1, <1>3, RefilledRange, RefilledNow DEF Attempt
  <2>2. \/ tokens' = R - Cost /\ granted' = granted + Cost
        \/ tokens' = R /\ granted' = granted
    BY <1>1, <1>3 DEF Attempt, TokensAfter, Allowed
  <2>3. granted' \in Nat
    BY <1>1, <2>2
  <2>4. LimiterTypeOK'
    BY <1>1, <1>3, <2>1, <2>3 DEF Attempt, LimiterTypeOK
  <2>5. Ledger' /\ NothingForgotten'
    BY <1>1, <1>3, <2>1, <2>2 DEF Attempt, Ledger, NothingForgotten, Least
  <2> QED BY <2>4, <2>5 DEF Ledgers
<1>4. CASE OpenWindow
  <2>1. R' = R /\ elapsed' = 0 /\ granted' = 0
    BY <1>4 DEF OpenWindow
  <2> QED BY <1>1, <1>4, <2>1
             DEF OpenWindow, Ledgers, LimiterTypeOK, Ledger, NothingForgotten, Least
<1>5. CASE UNCHANGED limiterVars
  BY <1>5 DEF limiterVars, Ledgers, LimiterTypeOK, Ledger, NothingForgotten
<1> QED BY <1>2, <1>3, <1>4, <1>5 DEF LimiterNext

(* The ledger of allow_write balances in every reachable state.            *)
THEOREM LedgersHold == LimiterSpec => []Ledgers
  BY InitLedgers, StepLedgers, PTL DEF LimiterSpec

(* The tokens stay between zero and the burst, the counters natural.       *)
THEOREM LimiterTypeCorrect == LimiterSpec => []LimiterTypeOK
  BY LedgersHold, PTL DEF Ledgers

(* Whatever clients do, no window of e ticks sees more than Burst + e      *)
(* units of BIOS writes.                                                   *)
THEOREM Budget == LimiterSpec => []WindowBudget
<1>1. Ledgers => WindowBudget
  BY RefilledRange, BucketAssumption, WindowAssumption
     DEF Ledgers, LimiterTypeOK, Ledger, WindowBudget
<1> QED BY <1>1, LedgersHold, PTL

(* No write is denied while the window's own share is unspent.             *)
THEOREM Fair == LimiterSpec => []DeniedOnlyWhenSpent
<1>1. Ledgers => DeniedOnlyWhenSpent
  <2> SUFFICES ASSUME Ledgers, ~Allowed(tokens, idle)
               PROVE  granted + Cost > Least(elapsed, Burst)
    BY DEF DeniedOnlyWhenSpent
  <2>1. /\ Refilled(tokens, idle) \in 0..Burst /\ granted \in Nat
        /\ elapsed \in Nat /\ Burst \in Nat /\ Cost \in Nat
        /\ Refilled(tokens, idle) + granted >= Least(elapsed, Burst)
        /\ ~(Refilled(tokens, idle) >= Cost)
    BY RefilledRange, BucketAssumption, WindowAssumption
       DEF Ledgers, LimiterTypeOK, NothingForgotten, Allowed
  <2> QED BY <2>1 DEF Least
<1> QED BY <1>1, LedgersHold, PTL

-----------------------------------------------------------------------------
(* The request handler. *)

Entries == [val : Values, age : Nat]

(* A read request still owes a result for each slot in todo, and owes all  *)
(* of them before the first; a write has emptied the cache it invalidates. *)
Owed == \/ \E s \in Slots : todo = <<s>> /\ parts[s] = None
        \/ /\ {"thermal", "coolsense"} \subseteq Slots
           /\ todo = <<"thermal", "coolsense">>
           /\ \A s \in Slots : parts[s] = None

Phases ==
  /\ stage \in {"idle", "rmw", "write"} => \A s \in Slots : parts[s] = None
  /\ stage \in {"read", "calling", "stamp"} => Owed
  /\ stage = "rmw" => target = "coolsense"
  /\ stage \in {"rmw", "write"} =>
       target \in Writable /\ (target \in Cached => cache[target] = None)

(* The hardware holds a value for as long as it has not changed.           *)
Held == \A s \in Slots : lastHad[s][hw[s]] = 0

(* A value that was sampled is the hardware's unless that was changed from *)
(* outside, and it was the hardware's at most d ticks ago.                 *)
True(s, v, d) == (s \in outside \/ v = hw[s]) /\ lastHad[s][v] <= d

SampleTrue == stage = "stamp" /\ sample.ok => True(Slot, sample.val, call)

(* An entry lives on while its slot is sampled once more, and is only      *)
(* judged by its age until its cooldown is over.                           *)
CacheTrue ==
  \A s \in Cached : cache[s] # None =>
    /\ s \in outside \/ cache[s].val = hw[s] \/ (stage = "stamp" /\ Slot = s /\ sample.ok)
    /\ cache[s].age < Cooldown[s] => lastHad[s][cache[s].val] <= cache[s].age + MaxCall

(* The first half of CMD_READ_STATE waits while the second is called for.  *)
Waited == IF stage = "read" THEN 0 ELSE IF stage = "reply" THEN MaxCall ELSE call

PartsTrue ==
  \A s \in Slots : parts[s] # None /\ parts[s].ok =>
    True(s, parts[s].val, CooldownOf(s) + MaxCall + Waited)

(* The flags byte and its copy are among those the request has seen.       *)
FlagsTrue ==
  /\ stage \in {"rmw", "write"} /\ target = "coolsense" => flags \in flagsSeen
  /\ stage = "write" /\ target = "coolsense" => kept \in flagsSeen

Shapes == /\ TypeOK
          /\ cache \in [Cached -> Entries \cup {None}]
          /\ lastHad \in [Slots -> [Values -> Nat]]

IInv == /\ Shapes /\ Phases /\ Held /\ SampleTrue /\ CacheTrue
        /\ PartsTrue /\ FlagsTrue

(* The typing facts one by one.                                            *)
Types ==
  /\ tokens \in Nat /\ tokens <= Burst /\ idle \in Nat /\ idle <= Burst
  /\ cache \in [Cached -> Entries \cup {None}]
  /\ \A s \in Cached : cache[s] # None => cache[s].age <= Cooldown[s]
  /\ hw \in [Slots -> Values]
  /\ flags \in {0, 1} /\ kept \in {0, 1}
  /\ stage \in Stages
  /\ parts \in [Slots -> Results \cup {None}]
  /\ sample \in Results
  /\ target \in Slots \cup {None} /\ arg \in Values
  /\ call \in Nat /\ call <= MaxCall
  /\ lastHad \in [Slots -> [Values -> Nat]]

(* The assumptions on the constants, one by one.                           *)
LEMMA Constants == /\ Cached \subseteq Slots /\ Writable \subseteq Slots
                   /\ Cached \cap Writable \subseteq {"thermal", "coolsense"}
                   /\ 0 \in Values /\ MaxCall \in Nat
                   /\ Burst \in Nat /\ Cost \in Nat /\ Cost <= Burst
                   /\ \A s \in Cached : Cooldown[s] \in Nat
                   /\ \A s \in Slots : CooldownOf(s) \in Nat
                   /\ \A s \in Cached : CooldownOf(s) = Cooldown[s]
                   /\ None \notin Entries /\ None \notin Results
  BY DispatchAssumption, BucketAssumption
     DEF Cached, Writable, CooldownOf, Entries, Results

(* An entry is made of a value and an age, a result of a status and a value. *)
LEMMA Fields ==
  /\ \A e \in Entries : e.val \in Values /\ e.age \in Nat
  /\ \A v \in Values, n \in Nat : [val |-> v, age |-> n] \in Entries
  /\ \A e \in Entries, n \in Nat : [e EXCEPT !.age = n] \in Entries
  /\ \A r \in Results : r.ok \in BOOLEAN /\ r.val \in Values
  /\ \A v \in Values : [ok |-> TRUE, val |-> v] \in Results
  /\ Failed \in Results /\ ~Failed.ok
  BY Constants DEF Entries, Results, Failed

(* Shapes and Types say the same.                                          *)
LEMMA TypesIsShapes == Shapes <=> Types
  BY Constants, Fields DEF Shapes, Types, TypeOK

(* The bucket stays between empty and full.                                *)
LEMMA LimiterTypes ==
  ASSUME Types, AskLimiter
  PROVE  tokens' \in Nat /\ tokens' <= Burst /\ idle' \in Nat /\ idle' <= Burst
  BY Constants DEF Types, AskLimiter, TokensAfter, Allowed, Refilled, Least

J == Types /\ Phases /\ Held /\ SampleTrue /\ CacheTrue /\ PartsTrue /\ FlagsTrue

(* Nothing is cached or asked for at the start.                            *)
LEMMA InitIInv == Init => IInv
<1> SUFFICES ASSUME Init PROVE J
  BY TypesIsShapes DEF IInv, J
<1> USE Constants
<1>1. lastHad \in [Slots -> [Values -> Nat]]
  BY DEF Init, Bound
<1>2. Types
  BY <1>1, Fields DEF Init, Types, Stages
<1>3. \A s \in Slots : hw[s] \in Values
  BY DEF Init
<1> QED
  BY <1>2, <1>3 DEF Init, J, Phases, Held, SampleTrue, CacheTrue, PartsTrue, FlagsTrue

(* The slot being read is one that has no result yet.                      *)
LEMMA OwedHead ==
  ASSUME Owed
  PROVE  /\ Slot \in Slots /\ parts[Slot] = None
         /\ \/ Tail(todo) = <<>>
            \/ /\ Tail(todo) = <<"coolsense">> /\ Slot = "thermal"
               /\ "coolsense" \in Slots /\ \A s \in Slots : parts[s] = None
<1>1. ASSUME NEW s \in Slots, todo = <<s>>
      PROVE  Slot = s /\ Tail(todo) = <<>>
  BY <1>1 DEF Slot
<1>2. ASSUME todo = <<"thermal", "coolsense">>
      PROVE  Slot = "thermal" /\ Tail(todo) = <<"coolsense">>
  BY <1>2 DEF Slot
<1> QED
  BY <1>1, <1>2 DEF Owed

(* Time passes: ages and lastHad grow together, and a slot that waits for  *)
(* a call ages no faster than the call does.                               *)
LEMMA TickKeeps == ASSUME J, Tick PROVE J'
<1> USE Constants DEF J
<1>0. /\ stage \in {"calling", "stamp", "rmw", "write"} => call < MaxCall
      /\ stage \notin {"read", "reply"}
      /\ idle' = Least(idle + 1, Burst)
      /\ call' = IF stage = "idle" THEN 0 ELSE call + 1
      /\ UNCHANGED <<tokens, hw, flags, stage, todo, parts, sample,
                       target, arg, kept, outside, flagsSeen>>
  BY DEF Tick, machine
<1>1. /\ cache' = [s \in Cached |->
             IF cache[s] = None THEN None
             ELSE [cache[s] EXCEPT !.age = Least(@ + 1, Cooldown[s])]]
      /\ lastHad' = [s \in Slots |-> [v \in Values |->
             IF v = hw[s] THEN 0 ELSE Least(lastHad[s][v] + 1, Bound(s) + 1)]]
  BY DEF Tick
<1>2. \A s \in Slots, v \in Values :
        /\ lastHad[s][v] \in Nat /\ lastHad'[s][v] \in Nat
        /\ lastHad'[s][v] <= lastHad[s][v] + 1
        /\ v = hw[s] => lastHad'[s][v] = 0
  <2>1. \A s \in Slots, v \in Values : lastHad[s][v] \in Nat /\ Bound(s) \in Nat
    BY DEF Types, Bound
  <2>2. \A s \in Slots, v \in Values :
          lastHad'[s][v] = IF v = hw[s] THEN 0 ELSE Least(lastHad[s][v] + 1, Bound(s) + 1)
    BY <1>1
  <2>3. \A n \in Nat, b \in Nat : Least(n + 1, b + 1) \in Nat /\ Least(n + 1, b + 1) <= n + 1
    BY DEF Least
  <2> QED
    BY <2>1, <2>2, <2>3
<1>3. \A s \in Cached : cache[s] # None =>
        /\ cache'[s] \in Entries /\ cache'[s].val = cache[s].val
        /\ cache'[s].age \in Nat /\ cache'[s].age <= Cooldown[s]
        /\ cache'[s].age < Cooldown[s] => cache'[s].age = cache[s].age + 1
  BY <1>1, Fields DEF Types, Least, Entries
<1>4. \A s \in Cached : cache[s] = None => cache'[s] = None
  BY <1>1
<1>5. Types'
  <2>4. lastHad' \in [Slots -> [Values -> Nat]]
    <3>1. \A s \in Slots : lastHad'[s] \in [Values -> Nat]
      BY <1>1, <1>2
    <3> QED
      BY <1>1, <3>1
  <2>1. idle' \in Nat /\ idle' <= Burst
    BY <1>0 DEF Types, Least
  <2>2. cache' \in [Cached -> Entries \cup {None}]
    BY <1>1, <1>3, <1>4
  <2>3. call' \in Nat /\ call' <= MaxCall
    BY <1>0 DEF Types, Stages
  <2> QED
    BY <1>0, <1>3, <1>4, <2>1, <2>2, <2>3, <2>4 DEF Types
<1>6. Phases'
  BY <1>0, <1>4 DEF Phases, Owed
<1>7. Held'
  BY <1>0, <1>2 DEF Held, Types
<1>8. SampleTrue'
  <2> SUFFICES ASSUME stage = "stamp", sample.ok
               PROVE  (Slot \in outside \/ sample.val = hw[Slot])
                      /\ lastHad'[Slot][sample.val] <= call'
    BY <1>0 DEF SampleTrue, True, Slot
  <2>1. Slot \in Slots /\ sample.val \in Values
    BY OwedHead, Fields DEF Phases, Types
  <2>2. True(Slot, sample.val, call) /\ call' = call + 1 /\ call \in Nat
    BY <1>0 DEF SampleTrue, Types
  <2> QED
    BY <1>2, <2>1, <2>2 DEF True
<1>9. CacheTrue'
  <2> SUFFICES ASSUME NEW s \in Cached, cache'[s] # None
               PROVE  /\ s \in outside \/ cache'[s].val = hw[s]
                            \/ (stage = "stamp" /\ Slot = s /\ sample.ok)
                      /\ cache'[s].age < Cooldown[s] =>
                            lastHad'[s][cache'[s].val] <= cache'[s].age + MaxCall
    BY <1>0 DEF CacheTrue, Slot
  <2>1. cache[s] # None /\ cache[s].val \in Values /\ cache[s].age \in Nat
        /\ cache[s].age <= Cooldown[s] /\ s \in Slots
    BY <1>4, Fields DEF Types
  <2>2. /\ s \in outside \/ cache[s].val = hw[s] \/ (stage = "stamp" /\ Slot = s /\ sample.ok)
        /\ cache[s].age < Cooldown[s] => lastHad[s][cache[s].val] <= cache[s].age + MaxCall
    BY <2>1 DEF CacheTrue
  <2>3. /\ cache'[s].val = cache[s].val /\ cache'[s].age \in Nat
        /\ cache'[s].age < Cooldown[s] => cache'[s].age = cache[s].age + 1
    BY <1>3, <2>1
  <2>4. lastHad'[s][cache[s].val] <= lastHad[s][cache[s].val] + 1
        /\ lastHad[s][cache[s].val] \in Nat /\ lastHad'[s][cache[s].val] \in Nat
    BY <1>2, <2>1
  <2> QED
    BY <2>1, <2>2, <2>3, <2>4
<1>10. PartsTrue'
  <2>1. CASE stage \in {"calling", "stamp"}
    <3>1. Waited' = Waited + 1 /\ Waited \in Nat
      BY <1>0, <2>1 DEF Waited, Types
    <3>2. ASSUME NEW s \in Slots, parts[s] # None, parts[s].ok
          PROVE  True(s, parts[s].val, CooldownOf(s) + MaxCall + Waited)'
      <4>1. parts[s].val \in Values /\ True(s, parts[s].val, CooldownOf(s) + MaxCall + Waited)
        BY <3>2, Fields DEF Types, PartsTrue
      <4>2. lastHad'[s][parts[s].val] <= lastHad[s][parts[s].val] + 1
            /\ lastHad[s][parts[s].val] \in Nat /\ lastHad'[s][parts[s].val] \in Nat
        BY <1>2, <4>1
      <4> QED
        BY <1>0, <3>1, <4>1, <4>2 DEF True, CooldownOf
    <3> QED
      BY <1>0, <3>2 DEF PartsTrue
  <2>2. CASE stage \notin {"calling", "stamp"}
    BY <1>0, <2>2 DEF Phases, Types, Stages, PartsTrue
  <2> QED
    BY <2>1, <2>2
<1>11. FlagsTrue'
  BY <1>0 DEF FlagsTrue
<1> QED
  BY <1>5, <1>6, <1>7, <1>8, <1>9, <1>10, <1>11

(* A value that reaches a slot is held from that moment on, and no value   *)
(* was ever held less recently for it.                                     *)
LEMMA HoldingHeld ==
  ASSUME Types, NEW s \in Slots, NEW v \in Values, lastHad' = Holding(s, v)
  PROVE  /\ lastHad' \in [Slots -> [Values -> Nat]]
         /\ lastHad'[s][v] = 0
         /\ \A t \in Slots \ {s} : lastHad'[t] = lastHad[t]
         /\ \A t \in Slots, w \in Values : /\ lastHad[t][w] \in Nat /\ lastHad'[t][w] \in Nat
                                           /\ lastHad'[t][w] <= lastHad[t][w]
  BY DEF Types, Holding

(* The rest of the machine changes a slot, and the history knows it.       *)
LEMMA ExternalKeeps == ASSUME J, NEW s \in Slots, NEW v \in Values, External(s, v) PROVE J'
<1> USE DEF J
<1>0. /\ hw' = [hw EXCEPT ![s] = v] /\ outside' = outside \cup {s}
      /\ UNCHANGED <<tokens, idle, cache, flags, stage, todo, parts, sample,
                     target, arg, kept, call, flagsSeen>>
  BY DEF External, limiter, request
<1>1. lastHad' = Holding(s, v)
  BY DEF External
<1>2. /\ lastHad' \in [Slots -> [Values -> Nat]]
      /\ lastHad'[s][v] = 0
      /\ \A t \in Slots \ {s} : lastHad'[t] = lastHad[t]
      /\ \A t \in Slots, w \in Values : /\ lastHad[t][w] \in Nat /\ lastHad'[t][w] \in Nat
                                        /\ lastHad'[t][w] <= lastHad[t][w]
  BY <1>1, HoldingHeld
<1>3. Types'
  BY <1>0, <1>2 DEF Types
<1>4. Phases' /\ FlagsTrue'
  BY <1>0 DEF Phases, Owed, FlagsTrue
<1>5. Held'
  BY <1>0, <1>2 DEF Held, Types
<1>6. \A t \in Slots : t \notin outside' => t \notin outside /\ hw'[t] = hw[t]
  BY <1>0 DEF Types
<1>7. SampleTrue'
  <2> SUFFICES ASSUME stage = "stamp", sample.ok
               PROVE  (Slot \in outside' \/ sample.val = hw'[Slot])
                      /\ lastHad'[Slot][sample.val] <= call
    BY <1>0 DEF SampleTrue, True, Slot
  <2>1. Slot \in Slots /\ sample.val \in Values /\ call \in Nat
    BY OwedHead, Fields DEF Phases, Types
  <2> QED
    BY <1>2, <1>6, <2>1 DEF SampleTrue, True
<1>8. CacheTrue'
  <2> SUFFICES ASSUME NEW t \in Cached, cache[t] # None
               PROVE  /\ t \in outside' \/ cache[t].val = hw'[t]
                            \/ (stage = "stamp" /\ Slot = t /\ sample.ok)
                      /\ cache[t].age < Cooldown[t] =>
                            lastHad'[t][cache[t].val] <= cache[t].age + MaxCall
    BY <1>0 DEF CacheTrue, Slot
  <2>1. cache[t].val \in Values /\ cache[t].age \in Nat /\ t \in Slots
    BY Fields, Constants DEF Types
  <2> QED
    BY <1>2, <1>6, <2>1, Constants DEF CacheTrue
<1>9. PartsTrue'
  <2> SUFFICES ASSUME NEW t \in Slots, parts[t] # None, parts[t].ok
               PROVE  (t \in outside' \/ parts[t].val = hw'[t])
                      /\ lastHad'[t][parts[t].val] <= CooldownOf(t) + MaxCall + Waited
    BY <1>0 DEF PartsTrue, True, Waited, CooldownOf
  <2>1. parts[t].val \in Values
    BY Fields DEF Types
  <2>2. CooldownOf(t) + MaxCall + Waited \in Nat
    BY Constants DEF Types, Waited
  <2> QED
    BY <1>2, <1>6, <2>1, <2>2 DEF PartsTrue, True
<1> QED
  BY <1>3, <1>4, <1>5, <1>7, <1>8, <1>9

(* The first slot of a read is next, and nothing is known of the reply.    *)
LEMMA AcceptReadKeeps == ASSUME J, NEW r \in Reads, AcceptRead(r) PROVE J'
<1> USE DEF J
<1>0. /\ stage = "idle" /\ stage' = "read" /\ todo' = r
      /\ UNCHANGED <<tokens, idle, cache, hw, flags, parts, sample,
                     target, arg, kept, call, outside, lastHad, flagsSeen>>
  BY DEF AcceptRead, limiter, machine, history
<1>1. \A s \in Slots : parts[s] = None
  BY <1>0 DEF Phases
<1>2. Types' /\ Held' /\ FlagsTrue' /\ SampleTrue' /\ PartsTrue'
  BY <1>0, <1>1 DEF Types, Stages, Held, FlagsTrue, SampleTrue, PartsTrue
<1>3. CacheTrue'
  BY <1>0 DEF CacheTrue
<1>4. Owed'
  BY <1>0, <1>1 DEF Owed, Reads
<1> QED
  BY <1>0, <1>2, <1>3, <1>4 DEF Phases

(* A sub-read gives its slot a true result; the request owes the rest.     *)
LEMMA PartKeeps ==
  ASSUME Types, Phases, PartsTrue, NEW r \in Results, Part(r),
         stage \in {"read", "stamp"},
         r.ok => True(Slot, r.val, CooldownOf(Slot) + MaxCall),
         UNCHANGED <<hw, outside, lastHad>>
  PROVE  /\ parts' \in [Slots -> Results \cup {None}]
         /\ stage' \in {"read", "reply"}
         /\ stage' = "read" => Owed'
         /\ PartsTrue'
<1>0. /\ parts' = [parts EXCEPT ![Slot] = r] /\ todo' = Tail(todo)
      /\ stage' = IF Tail(todo) = <<>> THEN "reply" ELSE "read"
  BY DEF Part
<1>1. /\ Slot \in Slots /\ parts[Slot] = None
      /\ \/ Tail(todo) = <<>>
         \/ /\ Tail(todo) = <<"coolsense">> /\ Slot = "thermal"
            /\ "coolsense" \in Slots /\ \A s \in Slots : parts[s] = None
  BY OwedHead DEF Phases
<1>2. stage' = "read" => /\ todo' = <<"coolsense">> /\ "coolsense" \in Slots
                         /\ parts'["coolsense"] = None
                         /\ \A s \in Slots \ {Slot} : parts'[s] = None
  BY <1>0, <1>1 DEF Types
<1>3. stage' = "read" => Owed'
  BY <1>2 DEF Owed
<1>4. parts' \in [Slots -> Results \cup {None}]
  BY <1>0, <1>1 DEF Types
<1>5. ASSUME NEW s \in Slots, parts'[s] # None, parts'[s].ok
      PROVE  True(s, parts[s].val, CooldownOf(s) + MaxCall + Waited)'
  <2>1. Waited' \in Nat /\ (stage' = "reply" => Waited' = MaxCall)
    BY <1>0, Constants DEF Waited
  <2>2. CooldownOf(s) \in Nat /\ MaxCall \in Nat
    BY Constants
  <2>3. parts'[s].val \in Values /\ lastHad[s][parts'[s].val] \in Nat
    BY <1>4, <1>5, Fields DEF Types
  <2>4. CASE s = Slot
    <3>1. parts'[s] = r
      BY <1>0, <1>1, <2>4 DEF Types
    <3>2. True(s, r.val, CooldownOf(s) + MaxCall)
      BY <1>5, <2>4, <3>1
    <3> QED
      BY <2>1, <2>2, <2>3, <3>1, <3>2 DEF True, CooldownOf
  <2>5. CASE s # Slot
    <3>1. parts'[s] = parts[s] /\ stage' = "reply"
      BY <1>0, <1>2, <1>5, <2>5 DEF Types
    <3>2. True(s, parts[s].val, CooldownOf(s) + MaxCall + Waited)
      BY <1>5, <3>1 DEF PartsTrue
    <3>3. Waited \in Nat /\ Waited <= MaxCall
      BY Constants DEF Waited, Types
    <3> QED
      BY <2>1, <2>2, <2>3, <3>1, <3>2, <3>3 DEF True, CooldownOf
  <2> QED
    BY <2>4, <2>5
<1>6. PartsTrue'
  BY <1>5 DEF PartsTrue
<1> QED
  BY <1>0, <1>3, <1>4, <1>6

(* A hit serves an entry whose cooldown is not over.                       *)
LEMMA HitKeeps == ASSUME J, Hit PROVE J'
<1> USE DEF J
<1> DEFINE r == [ok |-> TRUE, val |-> cache[Slot].val]
<1>0. /\ stage = "read" /\ Fresh(Slot) /\ Part(r)
      /\ UNCHANGED <<tokens, idle, cache, hw, flags, sample, target, arg,
                     kept, call, outside, lastHad, flagsSeen>>
  BY DEF Hit, limiter, machine, history
<1>1. /\ Slot \in Cached /\ cache[Slot] # None /\ cache[Slot].age < Cooldown[Slot]
      /\ cache[Slot].val \in Values /\ cache[Slot].age \in Nat /\ Slot \in Slots
      /\ Cooldown[Slot] \in Nat /\ CooldownOf(Slot) = Cooldown[Slot] /\ MaxCall \in Nat
  BY <1>0, Fields, Constants DEF Fresh, Types
<1>2. r \in Results /\ r.val = cache[Slot].val
  BY <1>1, Fields
<1>3. True(Slot, r.val, CooldownOf(Slot) + MaxCall)
  <2>1. lastHad[Slot][cache[Slot].val] \in Nat
    BY <1>1 DEF Types
  <2>2. /\ Slot \in outside \/ cache[Slot].val = hw[Slot]
        /\ lastHad[Slot][cache[Slot].val] <= cache[Slot].age + MaxCall
    BY <1>0, <1>1 DEF CacheTrue
  <2> QED
    BY <1>1, <1>2, <2>1, <2>2 DEF True
<1> HIDE DEF r
<1>4. /\ parts' \in [Slots -> Results \cup {None}] /\ stage' \in {"read", "reply"}
      /\ stage' = "read" => Owed'
      /\ PartsTrue'
  BY <1>0, <1>2, <1>3, PartKeeps
<1>5. Types'
  BY <1>0, <1>4 DEF Types, Stages
<1>6. Phases'
  BY <1>4 DEF Phases
<1>7. Held' /\ SampleTrue' /\ FlagsTrue'
  BY <1>0, <1>4 DEF Held, SampleTrue, FlagsTrue
<1>8. CacheTrue'
  BY <1>0, <1>4 DEF CacheTrue
<1> QED
  BY <1>4, <1>5, <1>6, <1>7, <1>8

(* The BIOS is called for the slot; what is in the cache is as it was.     *)
LEMMA MissKeeps == ASSUME J, Miss PROVE J'
<1> USE DEF J
<1>0. /\ stage = "read" /\ stage' = "calling" /\ call' = 0
      /\ UNCHANGED <<tokens, idle, cache, hw, flags, todo, parts, sample,
                     target, arg, kept, outside, lastHad, flagsSeen>>
  BY DEF Miss, limiter, machine, history
<1>1. Types'
  BY <1>0, Constants DEF Types, Stages
<1>2. Phases' /\ Held' /\ SampleTrue' /\ FlagsTrue'
  BY <1>0 DEF Phases, Owed, Held, SampleTrue, FlagsTrue
<1>3. CacheTrue'
  BY <1>0 DEF CacheTrue
<1>4. PartsTrue'
  <2>1. Waited' = Waited
    BY <1>0 DEF Waited
  <2> QED
    BY <1>0, <2>1 DEF PartsTrue, True, CooldownOf
<1> QED
  BY <1>1, <1>2, <1>3, <1>4

(* The sample is what the hardware holds; with it the history of changes   *)
(* from outside starts anew for this slot.                                 *)
LEMMA SampleKeeps == ASSUME J, Sample PROVE J'
<1> USE DEF J
<1>0. /\ stage = "calling" /\ stage' = "stamp"
      /\ UNCHANGED <<tokens, idle, cache, hw, flags, todo, parts,
                     target, arg, kept, call, lastHad, flagsSeen>>
  BY DEF Sample, limiter, machine
<1>1. \/ sample' = [ok |-> TRUE, val |-> hw[Slot]] /\ outside' = outside \ {Slot}
      \/ sample' = Failed /\ outside' = outside
  BY DEF Sample
<1>2. Slot \in Slots /\ parts[Slot] = None /\ hw[Slot] \in Values /\ Slot' = Slot
  BY <1>0, OwedHead DEF Phases, Types, Slot
<1>3. sample' \in Results /\ (sample'.ok => sample'.val = hw[Slot])
  BY <1>1, <1>2, Fields
<1>4. outside' = outside \/ (sample'.ok /\ outside' = outside \ {Slot})
  BY <1>1
<1>5. Types'
  BY <1>0, <1>3 DEF Types, Stages
<1>6. Phases' /\ Held' /\ FlagsTrue'
  BY <1>0 DEF Phases, Owed, Held, FlagsTrue
<1>7. SampleTrue'
  <2>1. lastHad[Slot][hw[Slot]] = 0 /\ call \in Nat
    BY <1>2 DEF Held, Types
  <2> QED
    BY <1>0, <1>2, <1>3, <2>1 DEF SampleTrue, True
<1>8. CacheTrue'
  BY <1>0, <1>2, <1>4 DEF CacheTrue
<1>9. PartsTrue'
  <2>1. Waited' = Waited
    BY <1>0 DEF Waited
  <2> QED
    BY <1>0, <1>2, <1>4, <2>1 DEF PartsTrue, True, CooldownOf
<1> QED
  BY <1>5, <1>6, <1>7, <1>8, <1>9

(* A success is stored with age 0, at most a call after it was sampled.    *)
LEMMA StampKeeps == ASSUME J, Stamp PROVE J'
<1> USE DEF J
<1>0. /\ stage = "stamp" /\ cache' = Store(Slot) /\ Part(sample)
      /\ sample' = Failed /\ call' = 0
      /\ UNCHANGED <<tokens, idle, hw, flags, target, arg, kept, outside, lastHad, flagsSeen>>
  BY DEF Stamp, limiter, machine, history
<1>1. /\ sample \in Results /\ sample.val \in Values /\ call \in Nat /\ call <= MaxCall
      /\ Slot \in Slots /\ lastHad[Slot][sample.val] \in Nat /\ MaxCall \in Nat
      /\ CooldownOf(Slot) \in Nat
  BY <1>0, Fields, OwedHead, Constants DEF Types, Phases
<1>2. sample.ok => True(Slot, sample.val, call)
  BY <1>0 DEF SampleTrue
<1>3. sample.ok => True(Slot, sample.val, CooldownOf(Slot) + MaxCall)
  BY <1>1, <1>2 DEF True
<1>4. /\ parts' \in [Slots -> Results \cup {None}] /\ stage' \in {"read", "reply"}
      /\ stage' = "read" => Owed'
      /\ PartsTrue'
  BY <1>0, <1>1, <1>3, PartKeeps
<1>5. ASSUME NEW s \in Cached, cache'[s] # cache[s]
      PROVE  /\ s = Slot /\ sample.ok /\ cache'[s] \in Entries
             /\ cache'[s].val = sample.val /\ cache'[s].age = 0
  BY <1>0, <1>1, <1>5, Fields DEF Store, Types
<1>6. cache' \in [Cached -> Entries \cup {None}]
  BY <1>0, <1>1, Fields DEF Store, Types
<1>7. \A s \in Cached : cache'[s] # None => cache'[s].age <= Cooldown[s]
  BY <1>5, Constants DEF Types
<1>8. Types'
  BY <1>0, <1>4, <1>6, <1>7, Fields, Constants DEF Types, Stages
<1>9. Phases' /\ Held' /\ SampleTrue' /\ FlagsTrue'
  BY <1>0, <1>4 DEF Phases, Held, SampleTrue, FlagsTrue
<1>10. CacheTrue'
  <2> SUFFICES ASSUME NEW s \in Cached, cache'[s] # None
               PROVE  /\ s \in outside \/ cache'[s].val = hw[s]
                      /\ cache'[s].age < Cooldown[s] =>
                            lastHad[s][cache'[s].val] <= cache'[s].age + MaxCall
    BY <1>0 DEF CacheTrue
  <2>1. CASE s = Slot /\ sample.ok
    <3>1. cache'[s].val = sample.val /\ cache'[s].age = 0
      BY <1>0, <2>1 DEF Store, Types
    <3> QED
      BY <1>1, <1>2, <2>1, <3>1 DEF True
  <2>2. CASE ~(s = Slot /\ sample.ok)
    <3>1. cache'[s] = cache[s]
      BY <1>5, <2>2
    <3> QED
      BY <2>2, <3>1 DEF CacheTrue
  <2> QED
    BY <2>1, <2>2
<1> QED
  BY <1>4, <1>8, <1>9, <1>10

(* The reply is sent and its parts are gone.                               *)
LEMMA ReplyKeeps == ASSUME J, Reply PROVE J'
<1> USE DEF J
<1>0. /\ stage = "reply" /\ stage' = "idle" /\ parts' = [s \in Slots |-> None]
      /\ UNCHANGED <<tokens, idle, cache, hw, flags, todo, sample,
                     target, arg, kept, call, outside, lastHad, flagsSeen>>
  BY DEF Reply, limiter, machine, history
<1>1. Types' /\ Phases' /\ Held' /\ SampleTrue' /\ FlagsTrue' /\ PartsTrue'
  BY <1>0 DEF Types, Stages, Phases, Held, SampleTrue, FlagsTrue, PartsTrue
<1>2. CacheTrue'
  BY <1>0 DEF CacheTrue
<1> QED
  BY <1>1, <1>2

(* A denied write, and one that touches no hardware, only cost tokens.     *)
LEMMA LimiterKeeps == ASSUME J, Denied \/ SetStackMonitor PROVE J'
<1> USE DEF J
<1>0. /\ stage = "idle" /\ AskLimiter
      /\ UNCHANGED <<cache, hw, flags, stage, todo, parts, sample, target, arg,
                     kept, call, outside, lastHad, flagsSeen>>
  BY DEF Denied, SetStackMonitor, machine, request, history
<1>1. Types'
  BY <1>0, LimiterTypes DEF Types
<1>2. Phases' /\ Held' /\ SampleTrue' /\ FlagsTrue'
  BY <1>0 DEF Phases, Held, SampleTrue, FlagsTrue
<1>3. CacheTrue' /\ PartsTrue'
  BY <1>0 DEF CacheTrue, PartsTrue, Phases
<1> QED
  BY <1>1, <1>2, <1>3

(* A granted write empties the cache it is about to outdate.               *)
LEMMA AcceptSetKeeps ==
  ASSUME J, NEW s \in Writable, NEW v \in Values, AcceptSet(s, v)
  PROVE  J'
<1> USE DEF J
<1>0. /\ stage = "idle" /\ AskLimiter /\ cache' = Invalidated(s)
      /\ stage' = IF s = "coolsense" THEN "rmw" ELSE "write"
      /\ target' = s /\ arg' = v /\ call' = 0
      /\ flagsSeen' = IF s = "coolsense" THEN {flags} ELSE {}
      /\ UNCHANGED <<hw, flags, todo, parts, sample, kept, outside, lastHad>>
  BY DEF AcceptSet, machine
<1>1. \A t \in Cached : cache'[t] = cache[t] \/ cache'[t] = None
  BY <1>0 DEF Invalidated, Types
<1>2. s \in Cached => cache'[s] = None
  BY <1>0, Constants DEF Invalidated, Types
<1>3. cache' \in [Cached -> Entries \cup {None}]
  BY <1>0 DEF Invalidated, Types
<1>4. Types'
  BY <1>0, <1>1, <1>3, LimiterTypes, Constants DEF Types, Stages
<1>5. Phases'
  BY <1>0, <1>2 DEF Phases
<1>6. Held' /\ SampleTrue' /\ FlagsTrue'
  BY <1>0 DEF Held, SampleTrue, FlagsTrue
<1>7. CacheTrue' /\ PartsTrue'
  BY <1>0, <1>1 DEF CacheTrue, PartsTrue, Phases
<1> QED
  BY <1>4, <1>5, <1>6, <1>7

(* set_coolsense keeps a flags byte of this request, or gives up.          *)
LEMMA ReadFlagsKeeps == ASSUME J, ReadFlags PROVE J'
<1> USE DEF J
<1>0. /\ stage = "rmw"
      /\ UNCHANGED <<tokens, idle, cache, hw, flags, todo, parts, sample, outside, lastHad>>
      /\ \/ stage' = "write" /\ kept' = flags /\ UNCHANGED <<target, arg, call, flagsSeen>>
         \/ stage' = "idle" /\ target' = None /\ arg' = 0 /\ kept' = 0 /\ call' = 0
  BY DEF ReadFlags, Return, limiter, machine
<1>1. Types'
  BY <1>0, Constants DEF Types, Stages
<1>2. Phases'
  BY <1>0 DEF Phases
<1>3. Held' /\ SampleTrue' /\ FlagsTrue'
  BY <1>0 DEF Held, SampleTrue, FlagsTrue
<1>4. CacheTrue' /\ PartsTrue'
  BY <1>0 DEF CacheTrue, PartsTrue, Phases
<1> QED
  BY <1>1, <1>2, <1>3, <1>4

(* Whatever became of the BIOS call, no entry of its slot is left.         *)
LEMMA WriteKeeps == ASSUME J, Write PROVE J'
<1> USE DEF J
<1>0. /\ stage = "write" /\ stage' = "idle"
      /\ target' = None /\ arg' = 0 /\ kept' = 0 /\ call' = 0
      /\ UNCHANGED <<tokens, idle, cache, todo, parts, sample, outside>>
  BY DEF Write, Return, limiter
<1>1. target \in Slots /\ arg \in Values /\ (target \in Cached => cache[target] = None)
  BY <1>0, Constants DEF Phases, Types
<1>2. \/ /\ hw' = [hw EXCEPT ![target] = arg] /\ lastHad' = Holding(target, arg)
         /\ flags' \in {0, 1}
      \/ UNCHANGED <<hw, flags, lastHad>>
  BY DEF Write, BiosCall, BiosWrite, machine, Types
<1>3. /\ hw' \in [Slots -> Values] /\ flags' \in {0, 1}
      /\ lastHad' \in [Slots -> [Values -> Nat]]
      /\ \A t \in Slots \ {target} : hw'[t] = hw[t] /\ lastHad'[t] = lastHad[t]
      /\ lastHad'[target][hw'[target]] = 0
  <2>1. CASE /\ hw' = [hw EXCEPT ![target] = arg] /\ lastHad' = Holding(target, arg)
             /\ flags' \in {0, 1}
    BY <1>1, <2>1, HoldingHeld DEF Types
  <2>2. CASE UNCHANGED <<hw, flags, lastHad>>
    BY <1>1, <2>2 DEF Types, Held
  <2> QED
    BY <1>2, <2>1, <2>2
<1>4. Types'
  BY <1>0, <1>3, Constants DEF Types, Stages
<1>5. Phases'
  BY <1>0 DEF Phases
<1>6. Held'
  BY <1>3 DEF Held
<1>7. SampleTrue' /\ FlagsTrue' /\ PartsTrue'
  BY <1>0 DEF SampleTrue, FlagsTrue, PartsTrue, Phases
<1>8. CacheTrue'
  BY <1>0, <1>1, <1>3, Constants DEF CacheTrue
<1> QED
  BY <1>4, <1>5, <1>6, <1>7, <1>8

(* The flags byte changes under a request, and the history knows it.       *)
LEMMA ExternalFlagsKeeps == ASSUME J, ExternalFlags PROVE J'
<1> USE DEF J
<1>0. /\ flags' = 1 - flags
      /\ flagsSeen' = IF target = "coolsense" THEN {0, 1} ELSE flagsSeen
      /\ UNCHANGED <<tokens, idle, cache, hw, stage, todo, parts, sample, target, arg,
                     kept, call, outside, lastHad>>
  BY DEF ExternalFlags, limiter, request
<1>1. flags' \in {0, 1}
  BY <1>0 DEF Types
<1>2. Types'
  BY <1>0, <1>1 DEF Types
<1>3. Phases' /\ Held'
  BY <1>0 DEF Phases, Owed, Held
<1>4. SampleTrue' /\ CacheTrue'
  BY <1>0 DEF SampleTrue, CacheTrue, True, Slot
<1>5. PartsTrue'
  BY <1>0 DEF PartsTrue, True, Waited, CooldownOf
<1>6. FlagsTrue'
  BY <1>0, <1>1 DEF FlagsTrue, Types
<1> QED
  BY <1>2, <1>3, <1>4, <1>5, <1>6

(* One step of the service or of the world around it keeps all of it.      *)
LEMMA StepIInv == IInv /\ [Next]_vars => IInv'
<1> SUFFICES ASSUME IInv, [Next]_vars PROVE IInv'
  OBVIOUS
<1>1. J
  BY TypesIsShapes DEF IInv, J
<1>2. J'
  <2>1. CASE Tick \/ ExternalFlags
    BY <1>1, <2>1, TickKeeps, ExternalFlagsKeeps
  <2>2. ASSUME NEW s \in Slots, NEW v \in Values, External(s, v) PROVE J'
    BY <1>1, <2>2, ExternalKeeps
  <2>3. ASSUME NEW r \in Reads, AcceptRead(r) PROVE J'
    BY <1>1, <2>3, AcceptReadKeeps
  <2>4. CASE Hit \/ Miss \/ Sample \/ Stamp \/ Reply
    BY <1>1, <2>4, HitKeeps, MissKeeps, SampleKeeps, StampKeeps, ReplyKeeps
  <2>5. ASSUME NEW s \in Writable, NEW v \in Values, AcceptSet(s, v) PROVE J'
    BY <1>1, <2>5, AcceptSetKeeps
  <2>6. CASE Denied \/ SetStackMonitor \/ ReadFlags \/ Write
    BY <1>1, <2>6, LimiterKeeps, ReadFlagsKeeps, WriteKeeps
  <2>7. CASE UNCHANGED vars
    <3>1. UNCHANGED <<tokens, idle, cache, hw, flags, stage, todo, parts, sample, target,
                      arg, kept, call, outside, lastHad, flagsSeen>>
      BY <2>7 DEF vars, limiter, machine, request, history
    <3>2. Types' /\ Phases' /\ Held' /\ FlagsTrue'
      BY <1>1, <3>1 DEF J, Types, Phases, Owed, Held, FlagsTrue
    <3>3. SampleTrue' /\ CacheTrue' /\ PartsTrue'
      BY <1>1, <3>1 DEF J, SampleTrue, CacheTrue, PartsTrue, True, Waited, CooldownOf, Slot
    <3> QED
      BY <3>2, <3>3 DEF J
  <2> QED
    BY <2>1, <2>2, <2>3, <2>4, <2>5, <2>6, <2>7 DEF Next
<1>3. Shapes' <=> Types'
  BY TypesIsShapes, PTL
<1> QED
  BY <1>2, <1>3 DEF IInv, J

(* Cache, call, reply and hardware agree in every reachable state.         *)
THEOREM IInvHolds == Spec => []IInv
  BY InitIInv, StepIInv, PTL DEF Spec

(* Every variable keeps its shape; no entry ages past its cooldown.        *)
THEOREM TypeCorrect == Spec => []TypeOK
  BY IInvHolds, PTL DEF IInv, Shapes

(* dispatch never answers with, or keeps, a value that one of its own      *)
(* writes has replaced, not even after a write that failed half way.       *)
THEOREM ReadsItsWrites == Spec => []ReadYourWrites
<1>1. IInv => ReadYourWrites
  <2> SUFFICES ASSUME IInv PROVE ReadYourWrites
    OBVIOUS
  <2>1. \A s \in Cached \ outside :
          cache[s] # None /\ ~(stage = "stamp" /\ Slot = s) => cache[s].val = hw[s]
    BY DEF IInv, CacheTrue
  <2>2. stage = "reply" /\ ReplyOk => \A s \in Asked \ outside : parts[s].val = hw[s]
    BY DEF IInv, PartsTrue, True, ReplyOk, Asked
  <2> QED
    BY <2>1, <2>2 DEF ReadYourWrites
<1> QED
  BY <1>1, IInvHolds, PTL

(* A successful reply is at most the cooldown and two BIOS calls old,      *)
(* whatever else changes the hardware meanwhile.                           *)
THEOREM AnswersAreFresh == Spec => []RepliesFresh
<1>1. IInv => RepliesFresh
  <2> SUFFICES ASSUME IInv, stage = "reply", ReplyOk, NEW s \in Asked
               PROVE  lastHad[s][parts[s].val] <= Bound(s)
    BY DEF RepliesFresh
  <2>1. True(s, parts[s].val, CooldownOf(s) + MaxCall + MaxCall) /\ s \in Slots
    BY DEF IInv, PartsTrue, ReplyOk, Asked, Waited
  <2>2. CooldownOf(s) \in Nat /\ MaxCall \in Nat
    BY <2>1, Constants
  <2>3. CooldownOf(s) + MaxCall + MaxCall = Bound(s)
    BY <2>2 DEF Bound
  <2> QED
    BY <2>1, <2>3 DEF True
<1> QED
  BY <1>1, IInvHolds, PTL

(* set_coolsense writes back a flags byte that the word had meanwhile.     *)
THEOREM PreservesFlags == Spec => FlagsKept
<1> DEFINE Kept == stage = "write" /\ target = "coolsense" /\ stage' = "idle"
                   => flags' \in flagsSeen
<1>1. IInv /\ [Next]_vars => [Kept]_vars
  <2> SUFFICES ASSUME IInv, Next, stage = "write", target = "coolsense", stage' = "idle"
               PROVE  flags' \in flagsSeen
    OBVIOUS
  <2>1. flags \in flagsSeen /\ kept \in flagsSeen
    BY DEF IInv, FlagsTrue
  <2>2. Write
    BY DEF Next, Tick, ExternalFlags, External, AcceptRead, Hit, Miss, Sample, Stamp, Reply,
       Denied, AcceptSet, SetStackMonitor, ReadFlags, request
  <2> QED
    BY <2>1, <2>2 DEF Write, BiosCall, BiosWrite, machine
<1> QED
  BY <1>1, IInvHolds, PTL DEF Spec, FlagsKept
=============================================================================
