--------------------------- MODULE MonitorOffSpec ---------------------------
(***************************************************************************)
(* What the tray promises about display-off broadcasts: a request may be   *)
(* merged with another that has not been served, at most one broadcast is  *)
(* in flight, and a request is always followed by a broadcast that starts  *)
(* after it.                                                               *)
(***************************************************************************)
VARIABLES pending,       \* a request waits for a broadcast to start
          broadcasting   \* a broadcast is in flight

vars == <<pending, broadcasting>>

Init == pending = FALSE /\ broadcasting = FALSE

Request == pending' = TRUE /\ UNCHANGED broadcasting

Start == /\ pending /\ ~broadcasting
         /\ pending' = FALSE
         /\ broadcasting' = TRUE

Finish == /\ broadcasting
          /\ broadcasting' = FALSE
          /\ UNCHANGED pending

Next == Request \/ Start \/ Finish

Spec == Init /\ [][Next]_vars /\ WF_vars(Start) /\ WF_vars(Finish)
=============================================================================
