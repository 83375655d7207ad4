---------------------------- MODULE TransactSpec ----------------------------
(***************************************************************************)
(* What client_transact promises its callers.  The calls of a client are   *)
(* numbered.  The service handles each call at most once and the calls of  *)
(* one client in their order, but it may handle one after its caller gave  *)
(* up.  An answered call was handled before its answer arrived, and        *)
(* nothing that client asked later was.  Every call returns ("a slow or    *)
(* hung service can never pin the caller", pipe.rs:261-266), and the       *)
(* service acts for the installed executable only.                         *)
(***************************************************************************)
EXTENDS Naturals

CONSTANTS Clients, MaxCalls,
          Served   \* the clients the service acts for

VARIABLES seq,       \* number of the client's latest call
          handled,   \* number of the last call the service handled
          state      \* "idle", "calling", "answered" or "failed"

vars == <<seq, handled, state>>

Init == /\ seq = [c \in Clients |-> 0]
        /\ handled = [c \in Clients |-> 0]
        /\ state = [c \in Clients |-> "idle"]

Call(c) == /\ state[c] # "calling" /\ seq[c] < MaxCalls
           /\ seq' = [seq EXCEPT ![c] = @ + 1]
           /\ state' = [state EXCEPT ![c] = "calling"]
           /\ UNCHANGED handled

Handle(c) == /\ c \in Served
             /\ \E n \in handled[c] + 1 .. seq[c] :
                   handled' = [handled EXCEPT ![c] = n]
             /\ UNCHANGED <<seq, state>>

Answer(c) == /\ state[c] = "calling" /\ handled[c] = seq[c]
             /\ state' = [state EXCEPT ![c] = "answered"]
             /\ UNCHANGED <<seq, handled>>

Fail(c) == /\ state[c] = "calling"
           /\ state' = [state EXCEPT ![c] = "failed"]
           /\ UNCHANGED <<seq, handled>>

Next == \E c \in Clients : Call(c) \/ Handle(c) \/ Answer(c) \/ Fail(c)

(* Every call ends.                                                        *)
Spec == /\ Init /\ [][Next]_vars
        /\ \A c \in Clients : WF_vars(Answer(c) \/ Fail(c))
=============================================================================
