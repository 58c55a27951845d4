---------------------------- MODULE MCAliyunTts ----------------------------
(***************************************************************************)
(* Instances of AliyunTts for TLC: one speech handle and a few texts, with *)
(* and without faults.                                                     *)
(***************************************************************************)
EXTENDS AliyunTts

NoFaults == {}
\* Everything but the two time-outs that let destroy() overtake onclose.
Outages == {"token", "dns", "drop", "silent"}
EveryFault == FaultKinds
=============================================================================
