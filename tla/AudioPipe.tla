----------------------------- MODULE AudioPipe -----------------------------
(***************************************************************************)
(* What audio_queue.h promises its callers, without threads, mutex,        *)
(* condition variable or counters: a bounded pipe of bytes.  A write goes  *)
(* in whole or not at all.  A blocking read takes a whole frame or, once   *)
(* its wait has expired, what there is; any other read takes what there    *)
(* is at once, or nothing while less than a frame is there.                *)
(***************************************************************************)
EXTENDS Integers

CONSTANTS Capacity, Frame, Sizes

VARIABLES
    held,    \* the bytes in the pipe
    reader,  \* "idle", "waiting" for a frame, or "expired"
    got      \* the bytes the last read was given

pipe == <<held, reader, got>>

Init == held = 0 /\ reader = "idle" /\ got = 0

\* What a read that does not wait finds.
Available == IF held < Frame THEN held ELSE Frame

Give(n) == held' = held - n /\ got' = n /\ reader' = "idle"

Put(n) == held + n <= Capacity /\ held' = held + n /\ UNCHANGED <<reader, got>>
Ask == reader = "idle" /\ held < Frame /\ reader' = "waiting" /\ UNCHANGED <<held, got>>
Expire == reader = "waiting" /\ reader' = "expired" /\ UNCHANGED <<held, got>>
Deliver == reader \in {"idle", "waiting"} /\ held >= Frame /\ Give(Frame)
Poll == reader \in {"idle", "expired"} /\ Give(Available)
Nothing == reader = "idle" /\ held < Frame /\ Give(0)
Clear == held' = 0 /\ UNCHANGED <<reader, got>>

Next ==
    \/ \E n \in Sizes : Put(n)
    \/ Ask \/ Expire \/ Deliver \/ Poll \/ Nothing \/ Clear

Spec == Init /\ [][Next]_pipe
=============================================================================
