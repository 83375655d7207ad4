-------------------------- MODULE ServiceDispatch --------------------------
(***************************************************************************)
(* The request handler of the service (app/src/service.rs: dispatch,       *)
(* CacheSet, WriteLimiter; app/src/wmi_com.rs: the BIOS operations).  The  *)
(* service is one thread, so requests do not overlap; time and the rest of *)
(* the machine (HP's own tools, the firmware, the brightness keys) go on   *)
(* between the steps of a BIOS call.                                       *)
(*                                                                         *)
(* A slot is one readable quantity.  Instants are ages in ticks.           *)
(***************************************************************************)
EXTENDS TokenBucket, Sequences

CONSTANTS Slots,      \* the quantities of this instance
          Values,     \* what a slot may hold
          Cooldown,   \* COOLDOWN_*_MS of each cached slot, in ticks
          MaxCall,    \* longest BIOS call, in ticks (bound)
          None

Cached   == Slots \ {"brightness"}   \* the fields of CacheSet
Writable == Slots \ {"temp"}

ASSUME DispatchAssumption ==
  /\ Slots \subseteq {"thermal", "coolsense", "temp", "brightness"}
  /\ 0 \in Values
  /\ Cooldown \in [Cached -> Nat]
  /\ MaxCall \in Nat
  /\ None \notin [val : Values, age : Nat] \cup [ok : BOOLEAN, val : Values]

VARIABLES cache,          \* CacheSet: None, or the value and its age
          hw,             \* what the BIOS/EC holds
          flags,          \* Data[0] of the coolsense word
          stage,          \* where dispatch is; its locals:
          todo,           \*   slots still to be read for this request
          parts,          \*   results read so far
          sample,         \*   what the BIOS call in progress returned
          target, arg,    \*   slot and payload of the write in progress
          kept,           \*   flags byte read by set_coolsense
          call,           \*   ticks the BIOS call in progress has taken
          outside,        \* history: slots changed from outside since sampled
          lastHad,        \* history: ticks since the hardware held a value
          flagsSeen       \* history: flags since the request was accepted

limiter == <<tokens, idle>>
machine == <<hw, flags>>
request == <<stage, todo, parts, sample, target, arg, kept, call>>
history == <<outside, lastHad, flagsSeen>>
vars == <<limiter, cache, machine, request, history>>

(* A read answered from the cache was sampled at most one call before it   *)
(* was stamped, and may wait for the other half of CMD_READ_STATE.         *)
CooldownOf(s) == IF s \in Cached THEN Cooldown[s] ELSE 0
Bound(s)      == CooldownOf(s) + 2 * MaxCall
Results == [ok : BOOLEAN, val : Values]
Failed  == [ok |-> FALSE, val |-> 0]          \* read_result: [e, 0]
Stages  == {"idle", "read", "calling", "stamp", "rmw", "write", "reply"}

Reads == {<<s>> : s \in Slots} \cup
         IF {"thermal", "coolsense"} \subseteq Slots
         THEN {<<"thermal", "coolsense">>} ELSE {}   \* CMD_READ_STATE

TypeOK == /\ tokens \in 0..Burst /\ idle \in 0..Burst
          /\ \A s \in Cached : cache[s] # None =>
                cache[s].val \in Values /\ cache[s].age \in 0..Cooldown[s]
          /\ hw \in [Slots -> Values]
          /\ flags \in {0, 1} /\ kept \in {0, 1}
          /\ stage \in Stages
          /\ parts \in [Slots -> Results \cup {None}]
          /\ sample \in Results
          /\ target \in Slots \cup {None} /\ arg \in Values
          /\ call \in 0..MaxCall

Init == /\ tokens = Burst /\ idle = 0
        /\ cache = [s \in Cached |-> None]
        /\ hw \in [Slots -> Values] /\ flags \in {0, 1}
        /\ stage = "idle" /\ todo = <<>>
        /\ parts = [s \in Slots |-> None]
        /\ sample = Failed
        /\ target = None /\ arg = 0 /\ kept = 0 /\ call = 0
        /\ outside = {}
        /\ lastHad = [s \in Slots |-> [v \in Values |->
                        IF v = hw[s] THEN 0 ELSE Bound(s) + 1]]
        /\ flagsSeen = {}
-----------------------------------------------------------------------------
(* The world around the service.                                           *)
Holding(s, v) == [lastHad EXCEPT ![s][v] = 0]

Tick == /\ stage \in {"calling", "stamp", "rmw", "write"} => call < MaxCall
        /\ stage \notin {"read", "reply"}
        /\ idle' = Least(idle + 1, Burst)
        /\ cache' = [s \in Cached |->
             IF cache[s] = None THEN None
             ELSE [cache[s] EXCEPT !.age = Least(@ + 1, Cooldown[s])]]
        /\ call' = IF stage = "idle" THEN 0 ELSE call + 1
        /\ lastHad' = [s \in Slots |-> [v \in Values |->
             IF v = hw[s] THEN 0 ELSE Least(lastHad[s][v] + 1, Bound(s) + 1)]]
        /\ UNCHANGED <<tokens, machine, stage, todo, parts, sample,
                       target, arg, kept, outside, flagsSeen>>

External(s, v) == /\ hw' = [hw EXCEPT ![s] = v]
                  /\ lastHad' = Holding(s, v)
                  /\ outside' = outside \cup {s}
                  /\ UNCHANGED <<limiter, cache, flags, request, flagsSeen>>

ExternalFlags == /\ flags' = 1 - flags
                 /\ flagsSeen' = IF target = "coolsense" THEN {0, 1} ELSE flagsSeen
                 /\ UNCHANGED <<limiter, cache, hw, request, outside, lastHad>>
-----------------------------------------------------------------------------
(* Reads.                                                                  *)
AcceptRead(r) == /\ stage = "idle"
                 /\ stage' = "read"
                 /\ todo' = r
                 /\ UNCHANGED <<limiter, cache, machine, parts, sample,
                                target, arg, kept, call, history>>

Slot == Head(todo)

(* A sub-read is done: the next one, or the reply.                         *)
Part(r) == /\ parts' = [parts EXCEPT ![Slot] = r]
           /\ todo' = Tail(todo)
           /\ stage' = IF Tail(todo) = <<>> THEN "reply" ELSE "read"

(* Changed form: an entry is served however old it is.                     *)
FreshForever(s) == /\ s \in Cached
                   /\ cache[s] # None

(* c.when.elapsed() < cooldown; only successes are ever in the cache       *)
Fresh(s) == /\ s \in Cached
            /\ cache[s] # None
            /\ cache[s].age < Cooldown[s]

Hit == /\ stage = "read" /\ Fresh(Slot)
       /\ Part([ok |-> TRUE, val |-> cache[Slot].val])
       /\ UNCHANGED <<limiter, cache, machine, sample, target, arg,
                      kept, call, history>>

Miss == /\ stage = "read" /\ ~Fresh(Slot)
        /\ stage' = "calling"
        /\ call' = 0
        /\ UNCHANGED <<limiter, cache, machine, todo, parts, sample,
                       target, arg, kept, history>>

(* The BIOS reads the hardware, or the WMI call or its return code fails.  *)
Sample == /\ stage = "calling"
          /\ stage' = "stamp"
          /\ \/ /\ sample' = [ok |-> TRUE, val |-> hw[Slot]]
                /\ outside' = outside \ {Slot}
             \/ sample' = Failed /\ UNCHANGED outside
          /\ UNCHANGED <<limiter, cache, machine, todo, parts, target,
                         arg, kept, call, lastHad, flagsSeen>>

(* if result[0] == STATUS_OK { *slot = Some(.. Instant::now()) }           *)
Store(s) ==
  IF s \in Cached /\ sample.ok
  THEN [cache EXCEPT ![s] = [val |-> sample.val, age |-> 0]] ELSE cache

Stamp == /\ stage = "stamp"
         /\ cache' = Store(Slot)
         /\ Part(sample)
         /\ sample' = Failed /\ call' = 0
         /\ UNCHANGED <<limiter, machine, target, arg, kept, history>>

Asked == {s \in Slots : parts[s] # None}

(* The reply is a success: for CMD_READ_STATE both halves must be.         *)
ReplyOk == \A s \in Asked : parts[s].ok

Reply == /\ stage = "reply"
         /\ stage' = "idle"
         /\ parts' = [s \in Slots |-> None]
         /\ UNCHANGED <<limiter, cache, machine, todo, sample, target,
                        arg, kept, call, history>>
-----------------------------------------------------------------------------
(* Writes: the limiter comes first and a denied write touches nothing.     *)
AskLimiter == /\ tokens' = TokensAfter(tokens, idle)
              /\ idle' = 0

Denied == /\ stage = "idle" /\ ~Allowed(tokens, idle)
          /\ AskLimiter
          /\ UNCHANGED <<cache, machine, request, history>>

(* Changed form: the cached value survives the write.                      *)
KeepSlot(s) == cache

(* cache.thermal = None, cache.coolsense = None                            *)
Invalidated(s) == IF s \in {"thermal", "coolsense"} THEN [cache EXCEPT ![s] = None] ELSE cache

AcceptSet(s, v) == /\ stage = "idle" /\ Allowed(tokens, idle)
                   /\ AskLimiter
                   /\ cache' = Invalidated(s)
                   /\ stage' = IF s = "coolsense" THEN "rmw" ELSE "write"
                   /\ target' = s /\ arg' = v /\ call' = 0
                   /\ flagsSeen' = IF s = "coolsense" THEN {flags} ELSE {}
                   /\ UNCHANGED <<machine, todo, parts, sample, kept,
                                  outside, lastHad>>

(* CMD_SET_STACK_MONITOR: pays for a write, touches no hardware (the       *)
(* switch it flips belongs to log.rs).                                     *)
SetStackMonitor == /\ stage = "idle" /\ Allowed(tokens, idle)
                   /\ AskLimiter
                   /\ UNCHANGED <<cache, machine, request, history>>

(* The call returns: dispatch answers set_result and its locals are gone.  *)
Return == /\ stage' = "idle"
          /\ target' = None /\ arg' = 0 /\ kept' = 0 /\ call' = 0
          /\ flagsSeen' = {}

(* set_coolsense reads the word first, to preserve the flags byte.         *)
ReadFlags == /\ stage = "rmw"
             /\ \/ /\ stage' = "write" /\ kept' = flags
                   /\ UNCHANGED <<target, arg, call, flagsSeen>>
                \/ Return                                   \* [e, 0]
             /\ UNCHANGED <<limiter, cache, machine, todo, parts, sample,
                            outside, lastHad>>

(* Changed form: the word is written with a zero flags byte.               *)
BiosWriteNoFlags ==
  /\ hw' = [hw EXCEPT ![target] = arg]
  /\ flags' = IF target = "coolsense" THEN 0 ELSE flags
  /\ lastHad' = Holding(target, arg)

(* bios_call(2, ..): the value reaches the hardware.                       *)
BiosWrite ==
  /\ hw' = [hw EXCEPT ![target] = arg]
  /\ flags' = IF target = "coolsense" THEN kept ELSE flags
  /\ lastHad' = Holding(target, arg)

(* bios_call_method: an error on the way to ExecMethod leaves the machine  *)
(* as it is; one that comes with or after it, or a return code, may not.   *)
BiosCall == BiosWrite \/ UNCHANGED <<machine, lastHad>>

(* The call succeeds, or reports an error before or after its effect.      *)
Write == /\ stage = "write"
         /\ BiosCall
         /\ Return
         /\ UNCHANGED <<limiter, cache, todo, parts, sample, outside>>

Next == \/ Tick \/ ExternalFlags
        \/ \E s \in Slots, v \in Values : External(s, v)
        \/ \E r \in Reads : AcceptRead(r)
        \/ Hit \/ Miss \/ Sample \/ Stamp \/ Reply
        \/ Denied
        \/ \E s \in Writable, v \in Values : AcceptSet(s, v)
        \/ SetStackMonitor \/ ReadFlags \/ Write

Spec == Init /\ [][Next]_vars
-----------------------------------------------------------------------------
(* Read your writes: unless somebody else changed the slot since it was    *)
(* sampled, a cached value and every half of a successful reply are what   *)
(* the hardware holds now, even after writes that failed half way.         *)
ReadYourWrites ==
  /\ \A s \in Cached \ outside :
       cache[s] # None /\ ~(stage = "stamp" /\ Slot = s) => cache[s].val = hw[s]
  /\ stage = "reply" /\ ReplyOk => \A s \in Asked \ outside : parts[s].val = hw[s]

(* A successful reply never shows a value older than the cooldown and the  *)
(* calls it took, whatever changed the hardware.                           *)
RepliesFresh ==
  stage = "reply" /\ ReplyOk =>
    \A s \in Asked : lastHad[s][parts[s].val] <= Bound(s)

(* Switching CoolSense writes back a flags byte that the word really had   *)
(* during this request ("Must read first to preserve the flags byte").     *)
FlagsKept == [][stage = "write" /\ target = "coolsense" /\ stage' = "idle"
                => flags' \in flagsSeen]_vars
=============================================================================
