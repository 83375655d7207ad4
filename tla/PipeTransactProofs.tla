------------------------- MODULE PipeTransactProofs -------------------------
(***************************************************************************)
(* PipeTransact for any clients, any of them copies, and any number of     *)
(* calls and of runs of the service.  The pipe numbers nothing: a response *)
(* belongs to its call because a frame in the pipe or at the service is    *)
(* the owner's, is its current call as long as the owner's end is open,    *)
(* and is newer than anything handled until it is dispatched.              *)
(***************************************************************************)
EXTENDS PipeTransact, TLAPS

Serving == {"validate", "read", "dispatch", "respond", "disconnect"}

(* The service works for an owner, and from read_request on for none of    *)
(* the copies; it holds a frame from read_request to the disconnect.       *)
ServiceShape ==
  /\ srv = "down" => inst = "absent"
  /\ srv \in Serving => owner # NoClient /\ io = "none"
  /\ io = "signalled" => owner # NoClient
  /\ srv \in {"read", "dispatch", "respond"} => owner \notin Copies
  /\ srv \in {"dispatch", "respond"} => req # NoFrame
  /\ srv \notin {"dispatch", "respond", "disconnect"} => req = NoFrame

(* A frame on its way through the service is one that the owner sent on    *)
(* this connection: its current call, or an earlier one once it closed.    *)
OfOwner(f) == /\ owner # NoClient /\ f.from = owner /\ f.seq <= seq[owner]
              /\ pc[owner] = "open" => f.seq < seq[owner]
              /\ inst = "connected" => f.seq = seq[owner] /\ pc[owner] = "recv"

FramesInFlight ==
  /\ inbuf # NoFrame => /\ OfOwner(inbuf) /\ handled[owner] < inbuf.seq
                        /\ req = NoFrame
  /\ req # NoFrame => /\ OfOwner(req)
                      /\ srv = "dispatch" => handled[owner] < req.seq
                      /\ srv # "dispatch" => handled[owner] = req.seq

(* What a client knows of its own call at each step of client_transact.    *)
ClientShape ==
  \A c \in Clients :
    /\ handled[c] <= seq[c]
    /\ pc[c] \in {"open", "check", "send"} => handled[c] < seq[c]
    /\ pc[c] # "idle" => seq[c] > 0 /\ answer[c] = NoFrame
    /\ owner = c => IF inst = "connected" THEN pc[c] \in {"check", "send", "recv"}
                                          ELSE pc[c] \in {"idle", "open"}

(* A response that waits in the pipe answers the call its client waits for. *)
ReplyFits ==
  \A c \in Clients : reply[c] # NoFrame =>
    pc[c] = "recv" /\ reply[c] = Frame(c) /\ handled[c] = seq[c]

IInv == /\ TypeOK /\ ServiceShape /\ FramesInFlight
        /\ ClientShape /\ ReplyFits /\ OwnReply

(* The typing facts one by one.                                            *)
Flags == stopEv \in BOOLEAN /\ early \in BOOLEAN

Types ==
  /\ srv \in {"down", "startup", "listen", "wait", "validate", "read",
              "dispatch", "respond", "disconnect", "teardown"}
  /\ starts \in Nat /\ starts <= MaxStarts
  /\ inst \in {"absent", "created", "listening", "connected", "closed", "idle"}
  /\ owner \in Clients \cup {NoClient}
  /\ io \in {"none", "pending", "signalled", "failed"}
  /\ inbuf \in Frames \cup {NoFrame} /\ req \in Frames \cup {NoFrame}
  /\ reply \in [Clients -> Frames \cup {NoFrame}]
  /\ answer \in [Clients -> Frames \cup {NoFrame}]
  /\ pc \in [Clients -> {"idle", "open", "check", "send", "recv"}]
  /\ seq \in [Clients -> Nat] /\ handled \in [Clients -> Nat]
  /\ \A c \in Clients : seq[c] <= MaxCalls /\ handled[c] <= MaxCalls
  /\ inst \in {"connected", "closed"} <=> owner # NoClient

(* Flags and Types say what TypeOK says.                                   *)
LEMMA TypesIsTypeOK == TypeOK <=> Flags /\ Types
<1> USE BoundsAssumption
<1>1. ASSUME NEW f \in [Clients -> 0 .. MaxCalls]
      PROVE  f \in [Clients -> Nat] /\ \A c \in Clients : f[c] <= MaxCalls
  OBVIOUS
<1>2. ASSUME NEW f \in [Clients -> Nat], \A c \in Clients : f[c] <= MaxCalls
      PROVE  f \in [Clients -> 0 .. MaxCalls]
  BY <1>2
<1>3. TypeOK => Flags /\ Types
  BY <1>1 DEF TypeOK, Flags, Types
<1>4. Flags /\ Types => TypeOK
  BY <1>2 DEF TypeOK, Flags, Types
<1> QED
  BY <1>3, <1>4

(* A frame is a client's, with the number of a call.                       *)
LEMMA FrameFields ==
  ASSUME NEW f \in Frames
  PROVE  f.from \in Clients /\ f.seq \in Nat /\ f.seq <= MaxCalls
         /\ \A c \in Clients : f.from = c /\ f.seq = seq[c] => f = Frame(c)
  BY BoundsAssumption DEF Frames, Frame

(* The frame of the current call of a client that has called.              *)
LEMMA FrameOfCall ==
  ASSUME Types, NEW c \in Clients, seq[c] > 0
  PROVE  Frame(c) \in Frames /\ Frame(c).from = c /\ Frame(c).seq = seq[c]
  BY BoundsAssumption DEF Frames, Frame, Types

J == /\ Types /\ ServiceShape /\ FramesInFlight
     /\ ClientShape /\ ReplyFits /\ OwnReply

(* No service, no call.                                                    *)
LEMMA InitIInv == Init => IInv
<1> SUFFICES ASSUME Init PROVE Flags /\ J
  BY TypesIsTypeOK DEF IInv, J
<1>1. Flags
  BY DEF Init, Flags
<1>2. Types
  BY BoundsAssumption, NoClientAssumption DEF Init, Types
<1> QED
  BY <1>1, <1>2, NoClientAssumption
     DEF Init, J, ServiceShape, FramesInFlight, ClientShape, ReplyFits, OwnReply, Serving

(* A call starts with a number that nothing has handled or carries.        *)
LEMMA CallKeeps == ASSUME J, NEW c \in Clients, Call(c) PROVE J'
<1> USE DEF J
<1>1. /\ pc' = [pc EXCEPT ![c] = "open"] /\ seq' = [seq EXCEPT ![c] = @ + 1]
      /\ answer' = [answer EXCEPT ![c] = NoFrame]
      /\ pc[c] = "idle" /\ seq[c] < MaxCalls
      /\ UNCHANGED <<srv, starts, inst, owner, io, inbuf, req, reply, handled>>
  BY DEF Call, srvVars, pipeVars
<1>2. Types'
  BY <1>1, BoundsAssumption DEF Types
<1>3. ServiceShape'
  BY <1>1 DEF ServiceShape
<1>4. FramesInFlight'
  BY <1>1, FrameFields DEF FramesInFlight, OfOwner, Types, ClientShape
<1>5. ClientShape'
  BY <1>1 DEF Types, ClientShape
<1>6. ReplyFits' /\ OwnReply'
  BY <1>1 DEF Types, ReplyFits, OwnReply, Frame
<1> QED
  BY <1>2, <1>3, <1>4, <1>5, <1>6

(* A client opens the instance only while nobody holds it.                 *)
LEMMA OpenKeeps == ASSUME J, NEW c \in Clients, Open(c) PROVE J'
<1> USE DEF J
<1>1. /\ pc' = [pc EXCEPT ![c] = "check"] /\ inst' = "connected" /\ owner' = c
      /\ io' = IF inst = "listening" THEN "signalled" ELSE io
      /\ pc[c] = "open" /\ inst \in {"listening", "created"}
      /\ UNCHANGED <<srv, starts, inbuf, req, reply, seq, answer, handled>>
  BY DEF Open, Openable, srvVars
<1>2. owner = NoClient /\ c # NoClient
  BY <1>1, NoClientAssumption DEF Types
<1>3. inbuf = NoFrame /\ req = NoFrame
  BY <1>2 DEF FramesInFlight, OfOwner
<1>4. Types'
  BY <1>1, <1>2 DEF Types
<1>5. ServiceShape'
  BY <1>1, <1>2 DEF ServiceShape, Serving
<1>6. FramesInFlight'
  BY <1>1, <1>3 DEF FramesInFlight
<1>7. ClientShape'
  BY <1>1, <1>2 DEF Types, ClientShape
<1>8. ReplyFits' /\ OwnReply'
  BY <1>1 DEF Types, ReplyFits, OwnReply, Frame
<1> QED
  BY <1>4, <1>5, <1>6, <1>7, <1>8

(* CloseHandle: what the client sent stays, and it may not answer to it    *)
(* any more.                                                               *)
LEMMA CloseKeeps ==
  ASSUME J, NEW c \in Clients, pc[c] # "idle", Close(c),
         \/ answer' = answer
         \/ /\ pc[c] = "recv" /\ reply[c] # NoFrame
            /\ answer' = [answer EXCEPT ![c] = reply[c]]
  PROVE  J'
<1> USE DEF J
<1>1. /\ pc' = [pc EXCEPT ![c] = "idle"]
      /\ inst' = IF Attached(c) THEN "closed" ELSE inst
      /\ reply' = [reply EXCEPT ![c] = NoFrame]
      /\ UNCHANGED <<srv, starts, owner, io, inbuf, req, seq, handled>>
  BY DEF Close, srvVars
<1>2. Types'
  <2>1. answer' \in [Clients -> Frames \cup {NoFrame}]
    BY DEF Types
  <2> QED
    BY <1>1, <2>1, NoClientAssumption DEF Types, Attached
<1>3. ServiceShape'
  BY <1>1 DEF ServiceShape, Types, Attached
<1>4. FramesInFlight'
  BY <1>1, FrameFields DEF FramesInFlight, OfOwner, Types, ClientShape, Attached
<1>5. ClientShape'
  BY <1>1, NoClientAssumption DEF Types, ClientShape, Attached
<1>6. ReplyFits' /\ OwnReply'
  BY <1>1 DEF Types, ReplyFits, OwnReply, Frame
<1> QED
  BY <1>2, <1>3, <1>4, <1>5, <1>6

(* A request is the current call of the client on the open connection, and *)
(* it is the only one that client sends there.                             *)
LEMMA SendKeeps ==
  ASSUME J, NEW c \in Clients, pc[c] = "send", Attached(c),
         inbuf' = Frame(c), pc' = [pc EXCEPT ![c] = "recv"],
         UNCHANGED <<srvVars, inst, owner, io, early, req, reply, seq, answer, handled>>
  PROVE  J'
<1> USE DEF J, srvVars, Attached
<1>1. seq[c] > 0 /\ handled[c] < seq[c] /\ c # NoClient
  BY NoClientAssumption DEF ClientShape
<1>2. Frame(c) \in Frames /\ Frame(c).from = c /\ Frame(c).seq = seq[c]
  BY <1>1, FrameOfCall
<1>3. req = NoFrame
  BY DEF FramesInFlight, OfOwner
<1>4. Types'
  BY <1>2 DEF Types
<1>5. ServiceShape'
  BY DEF ServiceShape
<1>6. FramesInFlight'
  BY <1>1, <1>2, <1>3 DEF FramesInFlight, OfOwner, Types
<1>7. ClientShape' /\ ReplyFits' /\ OwnReply'
  BY DEF Types, ClientShape, ReplyFits, OwnReply, Frame
<1> QED
  BY <1>4, <1>5, <1>6, <1>7

(* A step that leaves the frames, the calls and the connection alone: the  *)
(* service goes on, or ConnectNamedPipe finds the instance free.           *)
LEMMA ServiceMoves ==
  ASSUME J, Types', ServiceShape', srv # "dispatch", srv' # "dispatch",
         inst' = inst \/ owner = NoClient, owner' = owner,
         UNCHANGED <<inbuf, req, reply, clVars, handled>>
  PROVE  J'
<1> USE DEF J, clVars
<1>1. FramesInFlight'
  BY DEF FramesInFlight, OfOwner
<1>2. ClientShape' /\ ReplyFits' /\ OwnReply'
  BY NoClientAssumption DEF ClientShape, ReplyFits, OwnReply, Frame
<1> QED
  BY <1>1, <1>2

(* read_request takes the frame out of the pipe, unhandled.                *)
LEMMA ReadKeeps == ASSUME J, ReadRequest PROVE J'
<1> USE DEF J, clVars
<1>1. /\ srv = "read" /\ req' = inbuf /\ inbuf' = NoFrame
      /\ srv' = IF inbuf # NoFrame THEN "dispatch" ELSE "disconnect"
      /\ UNCHANGED <<starts, inst, owner, io, reply, pc, seq, answer, handled>>
  BY DEF ReadRequest
<1>2. Types'
  BY <1>1 DEF Types
<1>3. ServiceShape'
  BY <1>1 DEF ServiceShape, Serving
<1>4. FramesInFlight'
  BY <1>1 DEF FramesInFlight, OfOwner
<1>5. ClientShape' /\ ReplyFits' /\ OwnReply'
  BY <1>1 DEF ClientShape, ReplyFits, OwnReply, Frame
<1> QED
  BY <1>2, <1>3, <1>4, <1>5

(* The dispatch handles a call that nothing was known to have handled.     *)
LEMMA DispatchKeeps ==
  ASSUME J, Dispatch
  PROVE  /\ J' /\ owner \in Clients \ Copies
         /\ handled' = [handled EXCEPT ![owner] = req.seq]
         /\ req.seq \in Nat /\ handled[owner] < req.seq /\ req.seq <= seq[owner]
<1> USE DEF J, clVars, pipeVars
<1>1. /\ srv = "dispatch" /\ srv' = "respond"
      /\ handled' = [handled EXCEPT ![req.from] = req.seq]
      /\ UNCHANGED <<starts, inst, owner, io, inbuf, req, reply, pc, seq, answer>>
  BY DEF Dispatch
<1>2. /\ owner \in Clients /\ owner \notin Copies /\ req # NoFrame
      /\ req \in Frames /\ OfOwner(req) /\ handled[owner] < req.seq
  BY <1>1 DEF ServiceShape, FramesInFlight, Types, Serving
<1>3. req.seq \in Nat /\ req.from = owner /\ req.seq <= seq[owner] /\ req.seq <= MaxCalls
  BY <1>2, FrameFields DEF OfOwner
<1>4. Types'
  BY <1>1, <1>2, <1>3, BoundsAssumption DEF Types
<1>5. ServiceShape'
  BY <1>1 DEF ServiceShape, Serving
<1>6. FramesInFlight'
  BY <1>1, <1>2, <1>3 DEF FramesInFlight, OfOwner, Types
<1>7. ClientShape'
  BY <1>1, <1>2, <1>3 DEF ClientShape, OfOwner, Types
<1>8. ReplyFits' /\ OwnReply'
  BY <1>1, <1>2, <1>3 DEF ReplyFits, OwnReply, Frame, Types
<1> QED
  BY <1>1, <1>2, <1>3, <1>4, <1>5, <1>6, <1>7, <1>8

(* The response goes to the call whose client is still there.              *)
LEMMA RespondKeeps == ASSUME J, Respond PROVE J' /\ \A c \in Clients :
                        reply[c] # NoFrame => reply'[c] # NoFrame
<1> USE DEF J, clVars, pipeVars
<1>1. /\ srv = "respond" /\ srv' = "disconnect"
      /\ reply' = IF inst = "connected" THEN [reply EXCEPT ![owner] = req] ELSE reply
      /\ UNCHANGED <<starts, inst, owner, io, inbuf, req, pc, seq, answer, handled>>
  BY DEF Respond
<1>2. /\ owner \in Clients /\ req # NoFrame /\ req \in Frames /\ OfOwner(req)
      /\ handled[owner] = req.seq
  BY <1>1 DEF ServiceShape, FramesInFlight, Types, Serving
<1>3. inst = "connected" => req = Frame(owner) /\ pc[owner] = "recv" /\ req.seq = seq[owner]
  BY <1>2, FrameFields DEF OfOwner
<1>4. Types'
  BY <1>1, <1>2 DEF Types
<1>5. ServiceShape'
  BY <1>1 DEF ServiceShape, Serving
<1>6. FramesInFlight'
  BY <1>1 DEF FramesInFlight, OfOwner
<1>7. ClientShape' /\ OwnReply'
  BY <1>1 DEF ClientShape, OwnReply, Frame
<1>8. ReplyFits'
  BY <1>1, <1>2, <1>3 DEF ReplyFits, Frame, Types
<1> QED
  BY <1>1, <1>2, <1>4, <1>5, <1>6, <1>7, <1>8 DEF Types

(* FlushFileBuffers has returned: the disconnect discards no response.     *)
LEMMA DisconnectKeeps == ASSUME J, Disconnect PROVE J' /\ reply' = reply
<1> USE DEF J, clVars
<1>1. /\ srv = "disconnect" /\ srv' = "listen" /\ inst' = "idle" /\ owner' = NoClient
      /\ inst = "closed" \/ reply[owner] = NoFrame
      /\ inbuf' = NoFrame /\ req' = NoFrame
      /\ reply' = [reply EXCEPT ![owner] = NoFrame]
      /\ UNCHANGED <<starts, io, pc, seq, answer, handled>>
  BY DEF Disconnect
<1>2. owner \in Clients /\ reply[owner] = NoFrame
  BY <1>1 DEF ServiceShape, Serving, Types, ClientShape, ReplyFits
<1>3. reply' = reply
  BY <1>1, <1>2 DEF Types
<1>4. Types'
  BY <1>1, <1>3 DEF Types
<1>5. ServiceShape'
  BY <1>1 DEF ServiceShape, Serving
<1>6. FramesInFlight'
  BY <1>1 DEF FramesInFlight
<1>7. ClientShape' /\ ReplyFits' /\ OwnReply'
  BY <1>1, <1>3, NoClientAssumption DEF ClientShape, ReplyFits, OwnReply, Frame
<1> QED
  BY <1>3, <1>4, <1>5, <1>6, <1>7

(* With the service dies what it held; what it wrote stays readable.       *)
LEMMA ServerGoneKeeps == ASSUME J, ServerGone PROVE J'
<1> USE DEF J, clVars
<1>1. Types'
  BY DEF ServerGone, Types
<1>2. ServiceShape' /\ FramesInFlight'
  BY DEF ServerGone, ServiceShape, FramesInFlight, Serving
<1>3. ClientShape' /\ ReplyFits' /\ OwnReply'
  BY NoClientAssumption DEF ServerGone, ClientShape, ReplyFits, OwnReply, Frame
<1> QED
  BY <1>1, <1>2, <1>3

(* The two flags stay flags.                                               *)
LEMMA FlagsStep == Flags /\ [Next]_vars => Flags'
  BY DEF Flags, Next, ClientStep, ServiceStep, Call, Open, OpenFail, Check, Send, Receive,
     TimeOut, Die, Close, Start, ReportRunning, RequestStop, Listen, WakeConnected,
     WakeStopped, Validate, ReadRequest, Dispatch, Respond, Disconnect, Teardown, Kill,
     ServerGone, vars, srvVars, pipeVars

(* What a client's step does to its calls: it starts one, ends one with    *)
(* the response or with none, or is inside it.                             *)
ClientOutcome(c) ==
  \/ Call(c)
  \/ /\ pc[c] # "idle" /\ Close(c)
     /\ \/ answer' = answer
        \/ /\ pc[c] = "recv" /\ reply[c] # NoFrame
           /\ answer' = [answer EXCEPT ![c] = reply[c]]
  \/ /\ pc[c] # "idle" /\ \E s \in {"check", "send", "recv"} : pc' = [pc EXCEPT ![c] = s]
     /\ UNCHANGED <<seq, answer, handled, reply>>

(* Every step of a client keeps what holds, and is one of those.           *)
LEMMA ClientKeeps ==
  ASSUME J, NEW c \in Clients, Call(c) \/ ClientStep(c) \/ Die(c)
  PROVE  J' /\ (ClientOutcome(c) \/ OpenFail(c))
<1>1. CASE Call(c)
  BY <1>1, CallKeeps DEF ClientOutcome
<1>2. CASE Open(c)
  BY <1>2, OpenKeeps DEF ClientOutcome, Open
<1>3. CASE OpenFail(c)
  <2>1. /\ pc' = [pc EXCEPT ![c] = "idle"] /\ pc[c] = "open"
        /\ UNCHANGED <<srv, starts, inst, owner, io, inbuf, req, reply, seq, answer, handled>>
        /\ inst # "listening" /\ inst # "created"
    BY <1>3 DEF OpenFail, Openable, srvVars, pipeVars
  <2>2. Types'
    BY <2>1 DEF J, Types
  <2>3. ServiceShape' /\ FramesInFlight'
    BY <2>1 DEF J, Types, ServiceShape, FramesInFlight, OfOwner, ClientShape
  <2>4. ClientShape' /\ ReplyFits' /\ OwnReply'
    BY <2>1 DEF J, Types, ClientShape, ReplyFits, OwnReply, Frame
  <2> QED
    BY <1>3, <2>2, <2>3, <2>4 DEF J
<1>4. CASE Check(c)
  <2>1. CASE /\ pc[c] = "check" /\ pc' = [pc EXCEPT ![c] = "send"]
             /\ UNCHANGED <<srvVars, pipeVars, req, reply, seq, answer, handled>>
    <3>1. /\ pc' = [pc EXCEPT ![c] = "send"] /\ pc[c] = "check"
          /\ UNCHANGED <<srv, starts, inst, owner, io, inbuf, req, reply, seq, answer, handled>>
      BY <2>1 DEF srvVars, pipeVars
    <3>2. Types'
      BY <3>1 DEF J, Types
    <3>3. ServiceShape' /\ FramesInFlight'
      BY <3>1 DEF J, Types, ServiceShape, FramesInFlight, OfOwner, ClientShape
    <3>4. ClientShape' /\ ReplyFits' /\ OwnReply'
      BY <3>1 DEF J, Types, ClientShape, ReplyFits, OwnReply, Frame
    <3> QED
      BY <3>1, <3>2, <3>3, <3>4 DEF J, ClientOutcome
  <2>2. CASE pc[c] = "check" /\ Close(c) /\ answer' = answer
    BY <2>2, CloseKeeps DEF ClientOutcome
  <2> QED
    BY <1>4, <2>1, <2>2 DEF Check
<1>5. CASE Send(c)
  <2>1. CASE Attached(c)
    BY <1>5, <2>1, SendKeeps DEF Send, ClientOutcome
  <2>2. CASE ~Attached(c)
    BY <1>5, <2>2, CloseKeeps DEF Send, ClientOutcome
  <2> QED
    BY <2>1, <2>2
<1>6. CASE Receive(c)
  BY <1>6, CloseKeeps DEF Receive, ClientOutcome
<1>7. CASE TimeOut(c)
  BY <1>7, CloseKeeps DEF TimeOut, ClientOutcome
<1>8. CASE Die(c)
  BY <1>8, CloseKeeps DEF Die, ClientOutcome
<1> QED
  BY <1>1, <1>2, <1>3, <1>4, <1>5, <1>6, <1>7, <1>8 DEF ClientStep

(* Every step of the service keeps it, and apart from the dispatch touches *)
(* no call; none takes a waiting response away.                            *)
LEMMA ServiceKeeps ==
  ASSUME J, Start \/ ServiceStep \/ RequestStop \/ Kill
  PROVE  /\ J' /\ UNCHANGED clVars
         /\ \A c \in Clients : reply[c] # NoFrame => reply'[c] # NoFrame
         /\ ~Dispatch => handled' = handled
<1> USE DEF J
<1>1. CASE Start
  <2>1. Types'
    BY <1>1, BoundsAssumption DEF Start, Types, pipeVars, ServiceShape, clVars
  <2>2. ServiceShape'
    BY <1>1 DEF Start, ServiceShape, Serving
  <2> QED
    BY <1>1, <2>1, <2>2, ServiceMoves DEF Start, Types, ServiceShape, clVars
<1>2. CASE ReportRunning
  <2>1. Types' /\ ServiceShape'
    BY <1>2 DEF ReportRunning, Types, ServiceShape, Serving, pipeVars, clVars
  <2> QED
    BY <1>2, <2>1, ServiceMoves DEF ReportRunning, pipeVars
<1>3. CASE RequestStop
  <2>1. /\ UNCHANGED <<srv, starts, inst, owner, io, inbuf, req, reply, pc, seq, answer, handled>>
    BY <1>3 DEF RequestStop, pipeVars, clVars
  <2>2. Types' /\ ServiceShape' /\ FramesInFlight'
    BY <2>1 DEF Types, ServiceShape, FramesInFlight, OfOwner
  <2>3. ClientShape' /\ ReplyFits' /\ OwnReply'
    BY <2>1 DEF ClientShape, ReplyFits, OwnReply, Frame
  <2> QED
    BY <2>1, <2>2, <2>3 DEF clVars
<1>4. CASE Listen
  <2>1. Types'
    BY <1>4 DEF Listen, Types, clVars
  <2>2. ServiceShape'
    BY <1>4 DEF Listen, ServiceShape, Serving
  <2> QED
    BY <1>4, <2>1, <2>2, ServiceMoves DEF Listen
<1>5. CASE WakeConnected
  <2>1. Types' /\ ServiceShape'
    BY <1>5 DEF WakeConnected, Types, ServiceShape, Serving, clVars
  <2> QED
    BY <1>5, <2>1, ServiceMoves DEF WakeConnected
<1>6. CASE WakeStopped
  <2>1. Types' /\ ServiceShape'
    BY <1>6 DEF WakeStopped, Types, ServiceShape, Serving, pipeVars, clVars
  <2> QED
    BY <1>6, <2>1, ServiceMoves DEF WakeStopped, pipeVars
<1>7. CASE Validate
  <2>1. Types' /\ ServiceShape'
    BY <1>7 DEF Validate, Types, ServiceShape, Serving, pipeVars, clVars
  <2> QED
    BY <1>7, <2>1, ServiceMoves DEF Validate, pipeVars
<1>8. CASE ReadRequest
  BY <1>8, ReadKeeps DEF ReadRequest
<1>9. CASE Dispatch
  BY <1>9, DispatchKeeps DEF Dispatch
<1>10. CASE Respond
  BY <1>10, RespondKeeps DEF Respond
<1>11. CASE Disconnect
  BY <1>11, DisconnectKeeps DEF Disconnect
<1>12. CASE Teardown \/ Kill
  BY <1>12, ServerGoneKeeps DEF Teardown, Kill, ServerGone
<1> QED
  BY <1>1, <1>2, <1>3, <1>4, <1>5, <1>6, <1>7, <1>8, <1>9, <1>10, <1>11, <1>12
     DEF ServiceStep

(* One step of anybody keeps the strengthened invariant.                   *)
LEMMA StepIInv == IInv /\ [Next]_vars => IInv'
<1> SUFFICES ASSUME IInv, [Next]_vars PROVE IInv'
  OBVIOUS
<1>1. Flags /\ J
  BY TypesIsTypeOK DEF IInv, J
<1>2. J'
  <2>1. ASSUME NEW c \in Clients, Call(c) \/ ClientStep(c) \/ Die(c) PROVE J'
    BY <1>1, <2>1, ClientKeeps
  <2>2. CASE Start \/ ServiceStep \/ RequestStop \/ Kill
    BY <1>1, <2>2, ServiceKeeps
  <2>3. CASE UNCHANGED vars
    BY <1>1, <2>3 DEF vars, srvVars, pipeVars, clVars, J, Types, ServiceShape,
       FramesInFlight, OfOwner, ClientShape, ReplyFits, OwnReply, Frame
  <2> QED
    BY <2>1, <2>2, <2>3 DEF Next
<1>3. Flags'
  BY <1>1, FlagsStep
<1>4. TypeOK' <=> Flags' /\ Types'
  BY TypesIsTypeOK, PTL
<1> QED
  BY <1>2, <1>3, <1>4 DEF IInv, J

(* Frames, calls and responses fit together in every reachable state.      *)
THEOREM IInvHolds == Spec => []IInv
  BY InitIInv, StepIInv, PTL DEF Spec

(* Every variable keeps its shape; an instance has an owner exactly while  *)
(* a client's end is attached or was not yet disconnected.                 *)
THEOREM TypeCorrect == Spec => []TypeOK
  BY IInvHolds, PTL DEF IInv

(* client_transact returns the response to its own call, which the service *)
(* acted on, whatever earlier calls timed out, died or were left waiting.  *)
THEOREM AnswersOwnCall == Spec => []OwnReply
  BY IInvHolds, PTL DEF IInv

(* server_disconnect discards no response: a response only leaves the pipe *)
(* with its client's handle.                                               *)
THEOREM KeepsReplies == Spec => NoReplyDropped
<1>1. ASSUME IInv, [Next]_vars, NEW c \in Clients, reply[c] # NoFrame, reply'[c] = NoFrame
      PROVE  pc'[c] = "idle"
  <2>0. J /\ reply \in [Clients -> Frames \cup {NoFrame}]
        /\ pc \in [Clients -> {"idle", "open", "check", "send", "recv"}]
    BY <1>1, TypesIsTypeOK DEF IInv, J, Types
  <2>1. ASSUME NEW d \in Clients, Call(d) \/ ClientStep(d) \/ Die(d)
        PROVE  pc'[c] = "idle"
    <3>1. ClientOutcome(d) \/ OpenFail(d)
      BY <2>0, <2>1, ClientKeeps
    <3>2. Close(d)
      BY <1>1, <3>1 DEF ClientOutcome, Call, OpenFail
    <3> QED
      BY <1>1, <2>0, <3>2 DEF Close
  <2>2. ~(Start \/ ServiceStep \/ RequestStop \/ Kill)
    BY <1>1, <2>0, ServiceKeeps
  <2>3. ~UNCHANGED vars
    BY <1>1 DEF vars
  <2> QED
    BY <1>1, <2>1, <2>2, <2>3 DEF Next
<1> DEFINE Kept == \A c \in Clients : reply[c] # NoFrame /\ reply'[c] = NoFrame
                                        => pc'[c] = "idle"
<1>2. IInv /\ [Next]_vars => [Kept]_vars
  BY <1>1
<1> QED
  BY <1>2, IInvHolds, PTL DEF Spec, NoReplyDropped

(* What TransactSpec sees of a client.                                     *)
Abstract(c) == IF pc[c] # "idle" THEN "calling"
               ELSE IF seq[c] = 0 THEN "idle"
               ELSE IF answer[c] # NoFrame THEN "answered" ELSE "failed"

AbstractState == [c \in Clients |-> Abstract(c)]

(* A step of client d changes what is seen of d only.                      *)
LEMMA AbstractStep ==
  ASSUME NEW d \in Clients, NEW v, Abstract(d)' = v,
         \A c \in Clients \ {d} : Abstract(c)' = Abstract(c)
  PROVE  AbstractState' = [AbstractState EXCEPT ![d] = v]
  BY DEF AbstractState

(* A client's step starts, answers or fails its call, or is hidden.        *)
LEMMA ClientImplements ==
  ASSUME J, NEW d \in Clients, ClientOutcome(d) \/ OpenFail(d)
  PROVE  \/ Promise!Call(d) \/ Promise!Answer(d) \/ Promise!Fail(d)
         \/ UNCHANGED Promise!vars
<1> USE DEF J
<1>0. /\ pc \in [Clients -> {"idle", "open", "check", "send", "recv"}]
      /\ seq \in [Clients -> Nat] /\ answer \in [Clients -> Frames \cup {NoFrame}]
      /\ pc[d] # "idle" => seq[d] # 0 /\ answer[d] = NoFrame
  BY DEF Types, ClientShape
<1>1. CASE Call(d)
  <2>1. /\ pc[d] = "idle" /\ seq[d] < MaxCalls
        /\ pc' = [pc EXCEPT ![d] = "open"] /\ seq' = [seq EXCEPT ![d] = @ + 1]
        /\ answer' = [answer EXCEPT ![d] = NoFrame] /\ handled' = handled
    BY <1>1 DEF Call
  <2>2. AbstractState' = [AbstractState EXCEPT ![d] = "calling"] /\ AbstractState[d] # "calling"
    <3>1. Abstract(d)' = "calling" /\ Abstract(d) # "calling"
      BY <1>0, <2>1 DEF Abstract
    <3>2. \A c \in Clients \ {d} : Abstract(c)' = Abstract(c)
      BY <1>0, <2>1 DEF Abstract
    <3> QED
      BY <3>1, <3>2, AbstractStep DEF AbstractState
  <2> QED
    BY <2>1, <2>2 DEF Promise!Call, AbstractState, Abstract
<1>2. CASE pc[d] = "recv" /\ reply[d] # NoFrame /\ answer' = [answer EXCEPT ![d] = reply[d]]
           /\ Close(d)
  <2>1. /\ pc' = [pc EXCEPT ![d] = "idle"] /\ seq' = seq /\ handled' = handled
        /\ handled[d] = seq[d]
    BY <1>2 DEF Close, ReplyFits
  <2>2. AbstractState' = [AbstractState EXCEPT ![d] = "answered"] /\ AbstractState[d] = "calling"
    <3>1. Abstract(d)' = "answered" /\ Abstract(d) = "calling"
      BY <1>0, <1>2, <2>1 DEF Abstract
    <3>2. \A c \in Clients \ {d} : Abstract(c)' = Abstract(c)
      BY <1>0, <1>2, <2>1 DEF Abstract
    <3> QED
      BY <3>1, <3>2, AbstractStep DEF AbstractState
  <2> QED
    BY <2>1, <2>2 DEF Promise!Answer, AbstractState, Abstract
<1>3. CASE /\ pc[d] # "idle" /\ pc' = [pc EXCEPT ![d] = "idle"]
           /\ UNCHANGED <<seq, answer, handled>>
  <2>2. AbstractState' = [AbstractState EXCEPT ![d] = "failed"] /\ AbstractState[d] = "calling"
    <3>1. Abstract(d)' = "failed" /\ Abstract(d) = "calling"
      BY <1>0, <1>3 DEF Abstract
    <3>2. \A c \in Clients \ {d} : Abstract(c)' = Abstract(c)
      BY <1>0, <1>3 DEF Abstract
    <3> QED
      BY <3>1, <3>2, AbstractStep DEF AbstractState
  <2> QED
    BY <1>3, <2>2 DEF Promise!Fail, AbstractState, Abstract
<1>4. CASE pc[d] # "idle" /\ (\E s \in {"check", "send", "recv"} : pc' = [pc EXCEPT ![d] = s])
           /\ UNCHANGED <<seq, answer, handled>>
  <2>1. \A c \in Clients : Abstract(c)' = Abstract(c)
    BY <1>0, <1>4 DEF Abstract
  <2> QED
    BY <1>4, <2>1 DEF Promise!vars, Abstract
<1> QED
  BY <1>1, <1>2, <1>3, <1>4 DEF ClientOutcome, Close, OpenFail

(* The safety part of the promise of TransactSpec: every step starts,      *)
(* handles, answers or fails a call as promised, or is hidden; no call is  *)
(* handled twice, out of order or for a copy.                              *)
THEOREM Refines == Spec => Promise!Init /\ [][Promise!Next]_(Promise!vars)
<1>1. Init => Promise!Init
  BY DEF Init, Promise!Init
<1>2. IInv /\ [Next]_vars => [Promise!Next]_(Promise!vars)
  <2> SUFFICES ASSUME IInv, [Next]_vars PROVE Promise!Next \/ UNCHANGED Promise!vars
    OBVIOUS
  <2>0. J
    BY TypesIsTypeOK DEF IInv, J
  <2>1. ASSUME NEW d \in Clients, Call(d) \/ ClientStep(d) \/ Die(d)
        PROVE  Promise!Next \/ UNCHANGED Promise!vars
    <3>1. ClientOutcome(d) \/ OpenFail(d)
      BY <2>0, <2>1, ClientKeeps
    <3>2. \/ Promise!Call(d) \/ Promise!Answer(d) \/ Promise!Fail(d)
          \/ UNCHANGED Promise!vars
      BY <2>0, <3>1, ClientImplements
    <3> QED
      BY <3>2 DEF Promise!Next
  <2>2. CASE Dispatch
    <3>1. /\ owner \in Clients \ Copies /\ handled' = [handled EXCEPT ![owner] = req.seq]
          /\ req.seq \in Nat /\ handled[owner] < req.seq /\ req.seq <= seq[owner]
      BY <2>0, <2>2, DispatchKeeps
    <3>2. req.seq \in handled[owner] + 1 .. seq[owner]
      BY <2>0, <3>1 DEF J, Types
    <3>3. UNCHANGED <<seq, pc, answer>>
      BY <2>2 DEF Dispatch, clVars
    <3>4. Promise!Handle(owner)
      BY <3>1, <3>2, <3>3 DEF Promise!Handle
    <3> QED
      BY <3>1, <3>4 DEF Promise!Next
  <2>3. CASE ~Dispatch /\ (Start \/ ServiceStep \/ RequestStop \/ Kill)
    <3>1. UNCHANGED clVars /\ handled' = handled
      BY <2>0, <2>3, ServiceKeeps
    <3> QED
      BY <3>1 DEF clVars, Promise!vars
  <2>4. CASE UNCHANGED vars
    BY <2>4 DEF vars, clVars, Promise!vars
  <2> QED
    BY <2>1, <2>2, <2>3, <2>4 DEF Next
<1> QED
  BY <1>1, <1>2, IInvHolds, PTL DEF Spec
=============================================================================
