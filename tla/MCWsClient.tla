----------------------------- MODULE MCWsClient -----------------------------
(***************************************************************************)
(* The instance TLC checks.  MaxQueue = 4 holds two frames, so that a      *)
(* third one overflows it with the first one cut; PingLimit = 1 instead of *)
(* the code's 3 keeps one ping unanswered before the close.                *)
(***************************************************************************)
EXTENDS WsClient
=============================================================================
