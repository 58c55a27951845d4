------------------------------ MODULE WsSession ------------------------------
(***************************************************************************)
(* What WebSocketClient.h promises its user for one connection: onopen at  *)
(* most once and first, onmessage only between onopen and onclose, onclose *)
(* at most once and last, and no callback once the client is gone.         *)
(***************************************************************************)
VARIABLES told, ended

Init == told = "none" /\ ended = FALSE

\* The callback is the next one the user may see.
Tell(from, cb) ==
    /\ ~ended /\ told \in from
    /\ told' = cb

Onopen == Tell({"none"}, "open") /\ UNCHANGED ended

Onmessage == Tell({"open", "message"}, "message") /\ UNCHANGED ended

Onclose == Tell({"none", "open", "message"}, "close") /\ UNCHANGED ended

\* The loop thread ends.
End == ~ended /\ ended' = TRUE /\ UNCHANGED told

Next == Onopen \/ Onmessage \/ Onclose \/ End

Spec == Init /\ [][Next]_<<told, ended>>
=============================================================================
