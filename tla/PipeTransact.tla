---------------------------- MODULE PipeTransact ----------------------------
(***************************************************************************)
(* One request and one response over the service's single pipe instance    *)
(* (app/src/pipe.rs), between the callers of client_transact and the       *)
(* accept loop of service_main.  The pipe itself is the operating system's *)
(* and is modelled by what the code relies on:                             *)
(*  - a client may open the instance as soon as it is created; one that    *)
(*    does so before ConnectNamedPipe makes that call fail                 *)
(*    (ERROR_PIPE_CONNECTED, or ERROR_NO_DATA once it left) without ever   *)
(*    setting the event of the OVERLAPPED;                                 *)
(*  - what a client wrote stays readable after it closed its handle, and   *)
(*    what the service wrote after the service died;                       *)
(*  - DisconnectNamedPipe discards what is still buffered.                 *)
(* Each run of the service is a process of its own with a stop event of    *)
(* its own; MaxStarts bounds the runs and MaxCalls the calls of a client.  *)
(***************************************************************************)
EXTENDS Naturals

CONSTANTS Clients, NoClient, NoFrame,
          Copies,      \* clients that run from outside the install directory
          MaxCalls, MaxStarts

ASSUME CopiesAssumption == Copies \subseteq Clients
ASSUME NoClientAssumption == NoClient \notin Clients
ASSUME BoundsAssumption == MaxCalls \in Nat /\ MaxStarts \in Nat

VARIABLES srv,      \* where the service is
          stopEv,   \* STOP_EVENT, a manual-reset event
          starts,   \* runs of the service so far
          inst,     \* the pipe instance
          owner,    \* the client whose end is attached to it
          io,       \* ConnectNamedPipe's OVERLAPPED and its event
          early,    \* history: a client opened the pipe before ConnectNamedPipe
          inbuf,    \* the request frame waiting in the pipe
          req,      \* the request frame the service works on
          reply,    \* the response frame waiting for each client
          pc,       \* where each client is in client_transact
          seq,      \* number of its latest call
          answer,   \* what that call returned, NoFrame for None
          handled   \* number of the last call the service dispatched

srvVars == <<srv, stopEv, starts>>
pipeVars == <<inst, owner, io, early, inbuf>>
clVars == <<pc, seq, answer>>
vars == <<srvVars, pipeVars, req, reply, clVars, handled>>

Frames == [from : Clients, seq : 1 .. MaxCalls]
Frame(c) == [from |-> c, seq |-> seq[c]]

TypeOK ==
  /\ srv \in {"down", "startup", "listen", "wait", "validate", "read",
              "dispatch", "respond", "disconnect", "teardown"}
  /\ {stopEv, early} \subseteq BOOLEAN /\ starts \in 0 .. MaxStarts
  /\ inst \in {"absent", "created", "listening", "connected", "closed", "idle"}
  /\ owner \in Clients \cup {NoClient}
  /\ io \in {"none", "pending", "signalled", "failed"}
  /\ {inbuf, req} \subseteq Frames \cup {NoFrame}
  /\ reply \in [Clients -> Frames \cup {NoFrame}]
  /\ answer \in [Clients -> Frames \cup {NoFrame}]
  /\ pc \in [Clients -> {"idle", "open", "check", "send", "recv"}]
  /\ seq \in [Clients -> 0 .. MaxCalls]
  /\ handled \in [Clients -> 0 .. MaxCalls]
  /\ inst \in {"connected", "closed"} <=> owner # NoClient

Init == /\ srv = "down" /\ stopEv = FALSE /\ starts = 0
        /\ inst = "absent" /\ owner = NoClient /\ io = "none" /\ early = FALSE
        /\ inbuf = NoFrame /\ req = NoFrame
        /\ reply = [c \in Clients |-> NoFrame]
        /\ pc = [c \in Clients |-> "idle"]
        /\ seq = [c \in Clients |-> 0]
        /\ answer = [c \in Clients |-> NoFrame]
        /\ handled = [c \in Clients |-> 0]
-----------------------------------------------------------------------------
(* The client: client_transact.                                            *)

Attached(c) == owner = c /\ inst = "connected"

Call(c) == /\ pc[c] = "idle" /\ seq[c] < MaxCalls
           /\ pc' = [pc EXCEPT ![c] = "open"]
           /\ seq' = [seq EXCEPT ![c] = @ + 1]
           /\ answer' = [answer EXCEPT ![c] = NoFrame]
           /\ UNCHANGED <<srvVars, pipeVars, req, reply, handled>>

Openable == inst \in {"listening", "created"}

(* client_connect; an instance that listens reports the client through     *)
(* its event, one that does not listen yet has nobody to tell.             *)
Open(c) == /\ pc[c] = "open" /\ Openable
           /\ inst' = "connected" /\ owner' = c
           /\ io' = IF inst = "listening" THEN "signalled" ELSE io
           /\ early' = (early \/ inst = "created")
           /\ pc' = [pc EXCEPT ![c] = "check"]
           /\ UNCHANGED <<srvVars, inbuf, req, reply, seq, answer, handled>>

(* Pipe absent, or WaitNamedPipeW's second ran out, or another client was  *)
(* quicker: CreateFileW fails.                                             *)
OpenFail(c) == /\ pc[c] = "open" /\ ~Openable
               /\ pc' = [pc EXCEPT ![c] = "idle"]
               /\ UNCHANGED <<srvVars, pipeVars, req, reply, seq, answer, handled>>

(* CloseHandle, also what the death of a client amounts to.                *)
Close(c) == /\ pc' = [pc EXCEPT ![c] = "idle"]
            /\ inst' = IF Attached(c) THEN "closed" ELSE inst
            /\ reply' = [reply EXCEPT ![c] = NoFrame]
            /\ UNCHANGED <<srvVars, owner, io, early, inbuf, req, seq, handled>>

(* client_validate_server compares directories; it defers, that is lets a  *)
(* copy through, when the server's path cannot be read.                    *)
Check(c) == /\ pc[c] = "check"
            /\ \/ /\ pc' = [pc EXCEPT ![c] = "send"]
                  /\ UNCHANGED <<srvVars, pipeVars, req, reply, seq, answer, handled>>
               \/ c \in Copies /\ Close(c) /\ UNCHANGED answer

(* write_request; four bytes fit the buffer, so it fails only when the     *)
(* service has dropped the connection.                                     *)
Send(c) == /\ pc[c] = "send"
           /\ IF Attached(c)
                THEN /\ inbuf' = Frame(c)
                     /\ pc' = [pc EXCEPT ![c] = "recv"]
                     /\ UNCHANGED <<srvVars, inst, owner, io, early, req, reply,
                                    seq, answer, handled>>
                ELSE Close(c) /\ UNCHANGED answer

(* read2 *)
Receive(c) == /\ pc[c] = "recv" /\ reply[c] # NoFrame
              /\ answer' = [answer EXCEPT ![c] = reply[c]]
              /\ Close(c)

(* read2 gave up: CLIENT_IO_TIMEOUT_MS passed or the connection broke.     *)
TimeOut(c) == pc[c] = "recv" /\ Close(c) /\ UNCHANGED answer

Die(c) == pc[c] # "idle" /\ Close(c) /\ UNCHANGED answer

ClientStep(c) == \/ Open(c) \/ OpenFail(c) \/ Check(c) \/ Send(c)
                 \/ Receive(c) \/ TimeOut(c)
-----------------------------------------------------------------------------
(* The service: service_main from server_create to the teardown.           *)

Start == /\ srv = "down" /\ starts < MaxStarts
         /\ srv' = "startup" /\ stopEv' = FALSE /\ starts' = starts + 1
         /\ inst' = "created"
         /\ UNCHANGED <<owner, io, early, inbuf, req, reply, clVars, handled>>

(* subscribe_events, SERVICE_RUNNING, the svc-start event: the instance    *)
(* exists all the while and does not listen yet.                           *)
ReportRunning == /\ srv = "startup" /\ srv' = "listen"
                 /\ UNCHANGED <<stopEv, starts, pipeVars, req, reply, clVars, handled>>

(* ctrl_handler; a stop is only accepted once the service is running.      *)
RequestStop == /\ srv \notin {"down", "startup"} /\ ~stopEv
               /\ stopEv' = TRUE
               /\ UNCHANGED <<srv, starts, pipeVars, req, reply, clVars, handled>>

(* Changed form: ConnectNamedPipe on an instance a client already holds.   *)
ListenAnyway == /\ srv = "listen" /\ srv' = "wait"
                /\ inst' = "listening" /\ io' = "pending"
                /\ UNCHANGED <<stopEv, starts, owner, early, inbuf, req, reply,
                         clVars, handled>>

(* server_wait calls ConnectNamedPipe and ignores what it returns.         *)
Listen == /\ srv = "listen" /\ srv' = "wait"
          /\ IF owner = NoClient
               THEN inst' = "listening" /\ io' = "pending"
               ELSE io' = "failed" /\ UNCHANGED inst
          /\ UNCHANGED <<stopEv, starts, owner, early, inbuf, req, reply,
                         clVars, handled>>

(* WaitForMultipleObjects([connect_event, stop_event]): the lower index    *)
(* wins when both are set.                                                 *)
WakeConnected == /\ srv = "wait" /\ io = "signalled"
                 /\ srv' = "validate" /\ io' = "none"
                 /\ UNCHANGED <<stopEv, starts, inst, owner, early, inbuf, req, reply,
                                clVars, handled>>

(* Changed form: the stop event is only looked at between two clients.     *)
WakeStoppedIdle == /\ srv = "wait" /\ stopEv /\ io = "pending"
                   /\ srv' = "teardown"
                   /\ UNCHANGED <<stopEv, starts, pipeVars, req, reply, clVars, handled>>

WakeStopped == /\ srv = "wait" /\ stopEv /\ io # "signalled"
               /\ srv' = "teardown"
               /\ UNCHANGED <<stopEv, starts, pipeVars, req, reply, clVars, handled>>

(* server_validate_client: same directory, same name; it refuses a copy    *)
(* and a process that can no longer be queried.                            *)
Validate == /\ srv = "validate"
            /\ \/ owner \notin Copies /\ srv' = "read"
               \/ (owner \in Copies \/ inst = "closed") /\ srv' = "disconnect"
            /\ UNCHANGED <<stopEv, starts, pipeVars, req, reply, clVars, handled>>

(* read_request: it blocks until the frame is there or never will be.      *)
ReadRequest == /\ srv = "read"
               /\ inbuf # NoFrame \/ inst = "closed"
               /\ srv' = IF inbuf # NoFrame THEN "dispatch" ELSE "disconnect"
               /\ req' = inbuf /\ inbuf' = NoFrame
               /\ UNCHANGED <<stopEv, starts, inst, owner, io, early, reply, clVars, handled>>

Dispatch == /\ srv = "dispatch" /\ srv' = "respond"
            /\ handled' = [handled EXCEPT ![req.from] = req.seq]
            /\ UNCHANGED <<stopEv, starts, pipeVars, req, reply, clVars>>

(* Changed form: the frame is answered before it is acted on.              *)
RespondFirst == /\ srv \in {"dispatch", "respond"}
                /\ srv' = IF srv = "dispatch" THEN "dispatch" ELSE "disconnect"
                /\ reply' = IF inst = "connected"
                              THEN [reply EXCEPT ![owner] = req] ELSE reply
                /\ UNCHANGED <<stopEv, starts, pipeVars, req, clVars, handled>>

(* write2 fails when the client is gone, and nobody looks.                 *)
Respond == /\ srv = "respond" /\ srv' = "disconnect"
           /\ reply' = IF inst = "connected"
                         THEN [reply EXCEPT ![owner] = req] ELSE reply
           /\ UNCHANGED <<stopEv, starts, pipeVars, req, clVars, handled>>

(* Changed forms: no FlushFileBuffers; the pipe keeps an unread request; a *)
(* refused client is not disconnected.                                     *)
DisconnectNow == /\ srv = "disconnect" /\ srv' = "listen"
                 /\ inst' = "idle" /\ owner' = NoClient
                 /\ inbuf' = NoFrame /\ req' = NoFrame
                 /\ reply' = [reply EXCEPT ![owner] = NoFrame]
                 /\ UNCHANGED <<stopEv, starts, io, early, clVars, handled>>

DisconnectDirty == /\ srv = "disconnect" /\ srv' = "listen"
                   /\ inst = "closed" \/ reply[owner] = NoFrame
                   /\ inst' = "idle" /\ owner' = NoClient /\ req' = NoFrame
                   /\ reply' = [reply EXCEPT ![owner] = NoFrame]
                   /\ UNCHANGED <<stopEv, starts, io, early, inbuf, clVars, handled>>

DisconnectServed == /\ srv = "disconnect" /\ srv' = "listen"
                    /\ req # NoFrame
                    /\ inst = "closed" \/ reply[owner] = NoFrame
                    /\ inst' = "idle" /\ owner' = NoClient
                    /\ inbuf' = NoFrame /\ req' = NoFrame
                    /\ reply' = [reply EXCEPT ![owner] = NoFrame]
                    /\ UNCHANGED <<stopEv, starts, io, early, clVars, handled>>

(* server_disconnect: FlushFileBuffers returns once the client has read    *)
(* the response or closed its end.                                         *)
Disconnect == /\ srv = "disconnect" /\ srv' = "listen"
              /\ inst = "closed" \/ reply[owner] = NoFrame
              /\ inst' = "idle" /\ owner' = NoClient
              /\ inbuf' = NoFrame /\ req' = NoFrame
              /\ reply' = [reply EXCEPT ![owner] = NoFrame]
              /\ UNCHANGED <<stopEv, starts, io, early, clVars, handled>>

(* The pipe's server end goes away, by CloseHandle or with its process.    *)
ServerGone == /\ srv' = "down" /\ inst' = "absent" /\ owner' = NoClient
              /\ io' = "none" /\ early' = FALSE
              /\ inbuf' = NoFrame /\ req' = NoFrame
              /\ UNCHANGED <<stopEv, starts, reply, clVars, handled>>

Teardown == srv = "teardown" /\ ServerGone

Kill == srv # "down" /\ ServerGone

ServiceStep == \/ ReportRunning \/ Listen \/ WakeConnected \/ WakeStopped
               \/ Validate \/ ReadRequest \/ Dispatch \/ Respond
               \/ Disconnect \/ Teardown
-----------------------------------------------------------------------------
Next == \/ \E c \in Clients : Call(c) \/ ClientStep(c) \/ Die(c)
        \/ Start \/ ServiceStep \/ RequestStop \/ Kill

Spec == Init /\ [][Next]_vars

(* A thread inside a call keeps running, on both sides, and every wait of  *)
(* the client is bounded; nobody has to call, start, stop or die.          *)
Fairness == WF_vars(ServiceStep) /\ \A c \in Clients : WF_vars(ClientStep(c))

FairSpec == Spec /\ Fairness
-----------------------------------------------------------------------------
(* A call that returns a response returns the response to that very call,  *)
(* and the service acted on it: no answer is left over from a call that    *)
(* timed out or meant for another client.                                  *)
OwnReply == \A c \in Clients : answer[c] # NoFrame =>
              answer[c] = Frame(c) /\ handled[c] = seq[c]

(* A response leaves the pipe because its client read it or closed the     *)
(* pipe, never because the service disconnected too early.                 *)
NoReplyDropped == [][\A c \in Clients : reply[c] # NoFrame /\ reply'[c] = NoFrame
                                          => pc'[c] = "idle"]_vars

(* A stop request ends the service: no client, and no missed connection,   *)
(* keeps it from seeing the event.                                         *)
StopHonoured == stopEv ~> srv = "down"

(* The only instance becomes free again, whatever its client does, unless  *)
(* a client was quicker than ConnectNamedPipe.                             *)
InstanceFreed == owner # NoClient ~> owner = NoClient \/ early

(* The promise of TransactSpec: no call is handled twice, out of order or  *)
(* for a copy, even one that got past its own check of the server, and     *)
(* every call returns.                                                     *)
Promise == INSTANCE TransactSpec WITH
             Served <- Clients \ Copies,
             state <- [c \in Clients |->
                         IF pc[c] # "idle" THEN "calling"
                         ELSE IF seq[c] = 0 THEN "idle"
                         ELSE IF answer[c] # NoFrame THEN "answered" ELSE "failed"]
Implements == Promise!Spec
=============================================================================
