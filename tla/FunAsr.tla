------------------------------- MODULE FunAsr -------------------------------
(***************************************************************************)
(* mod_funasr: speech recognition of one call.                             *)
(*                                                                         *)
(* Three kinds of threads share one switch_da per start_asr:               *)
(*   - the session thread runs the applications start_asr, pause_asr and   *)
(*     stop_asr, the media bug callback (INIT, READ, CLOSE) and the hangup;*)
(*   - a sender thread per connection attempt runs                         *)
(*     send_audio_to_asr_server and, at its end, destroy();                *)
(*   - the event loop thread of that attempt's WebSocketClient runs the    *)
(*     callbacks onopen, onmessage and onclose.                            *)
(*                                                                         *)
(* The audio queue is a bounded sequence of frames here; module AudioQueue *)
(* shows what its functions guarantee.                                     *)
(***************************************************************************)
EXTENDS Integers, Sequences

CONSTANTS
    Pvts,       \* the switch_da objects the call may allocate
    None,       \* no object
    RetryMax,   \* funasr_globals.ws_conn_retry_max
    QueueCap,   \* frames the audio queue holds
    ParseJson,  \* funasr_globals.parse_json
    Faults      \* what may go wrong besides the peer's behaviour

FaultKinds == {"bug_add",     \* switch_core_media_bug_add fails
               "thread",      \* switch_thread_create fails
               "dns",         \* ws.open fails before there is a connection
               "resampler",   \* switch_resample_create fails (16 kHz only)
               "slow_close",  \* no onclose within the 3 seconds waited for it
               "spurious"}    \* a condition wait returns without a signal

ASSUME FunAsrAssumption ==
    /\ RetryMax \in Nat
    /\ QueueCap \in Nat \ {0}
    /\ ParseJson \in BOOLEAN
    /\ Faults \subseteq FaultKinds
    /\ None \notin Pvts

Attempts == 0..RetryMax
Senders == Pvts \X Attempts

VARIABLES
    \* The channel and the session thread
    priv,           \* the channel's private "funasr_mod"
    ended,          \* has the session hung up?
    closing,        \* the object whose CLOSE callback is running
    step,           \* where that callback is
    \* switch_da, by object
    pool,           \* the memory pool that holds everything
    bug,            \* the media bug
    hangup,
    ws_connected,
    ws_closed,
    paused,
    ws_conn_retry,
    queue,          \* audio_queue, as a sequence of frames
    \* The locals of a sender thread and its WebSocketClient, by attempt
    pc,
    connected,
    closed,
    sock,           \* the connection as the loop thread sees it
    cb,             \* the callback that is running
    close_asked,    \* has ws.close() been called?
    wire,           \* what was sent on the connection
    \* History
    late,           \* has a callback used a switch_da already destroyed?
    woken           \* objects whose destroy() was woken without a signal

chanVars == <<priv, ended, closing, step>>
flagVars == <<hangup, ws_connected, ws_closed, paused, ws_conn_retry>>
daVars == <<pool, bug, flagVars, queue>>
connVars == <<connected, closed, sock, cb, close_asked, wire>>
histVars == <<late, woken>>
vars == <<chanVars, daVars, pc, connVars, histVars>>

Labels == {"none", "start", "open", "wait_conn", "loop", "reading",
           "after_loop", "close", "wait_close", "retry_sleep", "destroy",
           "enter_wait", "cond_wait", "free", "unwind", "gone"}

\* Labels at which a sender thread may still use its switch_da.
Owning == Labels \ {"none", "unwind", "gone"}

Frames == {"voice", "silence"}
Messages == {"init", "audio", "end"}

Init ==
    /\ priv = None /\ ended = FALSE /\ closing = None /\ step = "idle"
    /\ pool = [p \in Pvts |-> "none"]
    /\ bug = [p \in Pvts |-> "none"]
    /\ hangup = [p \in Pvts |-> FALSE]
    /\ ws_connected = [p \in Pvts |-> FALSE]
    /\ ws_closed = [p \in Pvts |-> FALSE]
    /\ paused = [p \in Pvts |-> FALSE]
    /\ ws_conn_retry = [p \in Pvts |-> 0]
    /\ queue = [p \in Pvts |-> <<>>]
    /\ pc = [t \in Senders |-> "none"]
    /\ connected = [t \in Senders |-> FALSE]
    /\ closed = [t \in Senders |-> FALSE]
    /\ sock = [t \in Senders |-> "none"]
    /\ cb = [t \in Senders |-> "none"]
    /\ close_asked = [t \in Senders |-> FALSE]
    /\ wire = [t \in Senders |-> <<>>]
    /\ late = FALSE /\ woken = {}

Goto(t, l) == pc' = [pc EXCEPT ![t] = l]
Da(t) == t[1]
Freed(p) == pool[p] = "freed"

-----------------------------------------------------------------------------
(* The session thread.  It is one thread: while a CLOSE callback runs, no  *)
(* application, frame or hangup is processed.                              *)

SessionIdle == step = "idle" /\ ~ended

\* start_asr allocates the object, publishes it and adds the media bug, whose
\* INIT callback creates the sender thread, last: until then no other thread
\* knows the object.  A failure of the last two is only logged.
StartAsr(p) ==
    /\ SessionIdle /\ pool[p] = "none"
    /\ priv' = p
    /\ pool' = [pool EXCEPT ![p] = "live"]
    /\ \/ bug' = [bug EXCEPT ![p] = "attached"] /\ Goto(<<p, 0>>, "start")
       \/ /\ "thread" \in Faults
          /\ bug' = [bug EXCEPT ![p] = "attached"] /\ UNCHANGED pc
       \/ "bug_add" \in Faults /\ UNCHANGED <<bug, pc>>
    /\ UNCHANGED <<ended, closing, step, flagVars, queue, connVars, histVars>>

PauseAsr(on) ==
    /\ SessionIdle /\ priv # None
    /\ paused' = [paused EXCEPT ![priv] = on]
    /\ UNCHANGED <<chanVars, pool, bug, hangup, ws_connected, ws_closed,
                   ws_conn_retry, queue, pc, connVars, histVars>>

\* switch_core_media_bug_remove detaches the bug and calls CLOSE.
RemoveBug(p) ==
    /\ bug[p] = "attached"
    /\ bug' = [bug EXCEPT ![p] = "removed"]
    /\ closing' = p /\ step' = "flag"

StopAsr ==
    /\ SessionIdle /\ priv # None
    /\ priv' = None
    /\ \/ RemoveBug(priv)
       \/ bug[priv] # "attached" /\ UNCHANGED <<bug, closing, step>>
    /\ UNCHANGED <<ended, pool, flagVars, queue, pc, connVars, histVars>>

Hangup ==
    /\ SessionIdle
    /\ ended' = TRUE
    /\ UNCHANGED <<priv, closing, step, daVars, pc, connVars, histVars>>

\* The core removes the bugs of an ended session one by one.
HangupBug(p) ==
    /\ ended /\ step = "idle"
    /\ RemoveBug(p)
    /\ UNCHANGED <<priv, ended, pool, flagVars, queue, pc, connVars, histVars>>

\* CLOSE: set the flag, and only then lock, signal and unlock.
CloseFlag ==
    /\ step = "flag"
    /\ \/ /\ pool[closing] = "live" /\ ~hangup[closing]
          /\ hangup' = [hangup EXCEPT ![closing] = TRUE]
          /\ step' = "signal" /\ UNCHANGED closing
       \/ /\ pool[closing] # "live" \/ hangup[closing]
          /\ step' = "idle" /\ closing' = None /\ UNCHANGED hangup
    /\ UNCHANGED <<priv, ended, pool, bug, ws_connected, ws_closed, paused,
                   ws_conn_retry, queue, pc, connVars, histVars>>

CloseSignal ==
    /\ step = "signal"
    /\ step' = "idle" /\ closing' = None
    /\ pc' = [t \in Senders |->
                IF Da(t) = closing /\ pc[t] = "cond_wait" THEN "free" ELSE pc[t]]
    /\ UNCHANGED <<priv, ended, daVars, connVars, histVars>>

\* Mutant: a paused recognition is not fed at all.
GateNotPaused(p) == ~hangup[p] /\ ws_connected[p] /\ ~ws_closed[p] /\ ~paused[p]

\* The test at the head of the READ callback.
Gate(p) == ~hangup[p] /\ ws_connected[p] /\ ~ws_closed[p]

\* A chunk that does not fit into the audio queue is dropped.
QueueHasRoom(p) == Len(queue[p]) < QueueCap

\* Mutant: pause_asr's flag is ignored.
ChannelFrame(p) == "voice"

\* The media bug's frame, or silence while paused.
NextFrame(p) == IF paused[p] THEN "silence" ELSE "voice"

\* READ: queue the frame.
ReadFrame(p) ==
    /\ SessionIdle /\ bug[p] = "attached" /\ Gate(p)
    /\ QueueHasRoom(p)
    /\ queue' = [queue EXCEPT ![p] = Append(@, NextFrame(p))]
    /\ UNCHANGED <<chanVars, pool, bug, flagVars, pc, connVars, histVars>>

-----------------------------------------------------------------------------
(* The sender thread: send_audio_to_asr_server.                            *)

\* A message leaves if the TCP connection is up; runs of audio count once.
Writable(t) == sock[t] \in {"upgrading", "open"}
Sent(t, m) ==
    LET w == wire[t] IN
    IF ~Writable(t) \/ (w # <<>> /\ w[Len(w)] = m) THEN w ELSE Append(w, m)

Begin(t) ==
    /\ pc[t] = "start"
    /\ Goto(t, IF hangup[Da(t)] THEN "destroy" ELSE "open")
    /\ UNCHANGED <<chanVars, daVars, connVars, histVars>>

OpenWs(t) ==
    /\ pc[t] = "open"
    /\ Goto(t, "wait_conn")
    /\ \/ sock' = [sock EXCEPT ![t] = "connecting"]
       \/ "dns" \in Faults /\ sock' = [sock EXCEPT ![t] = "failed"]
    /\ UNCHANGED <<chanVars, daVars, connected, closed, cb, close_asked, wire,
                   histVars>>

\* ws.close() only asks the loop thread to close.
AskClose(t) ==
    /\ close_asked' = [close_asked EXCEPT ![t] = TRUE]
    /\ UNCHANGED <<connected, closed, sock, cb, wire>>

\* "wait for connection ready" ends by onopen or by time; what is tested
\* afterwards is pvt->ws_connected.
WaitConnEnds(t) ==
    /\ pc[t] = "wait_conn"
    /\ \/ ws_connected[Da(t)] /\ Goto(t, "loop") /\ UNCHANGED connVars
       \/ /\ ws_connected[Da(t)] /\ "resampler" \in Faults
          /\ AskClose(t) /\ Goto(t, "destroy")
       \/ ~ws_connected[Da(t)] /\ Goto(t, "after_loop") /\ UNCHANGED connVars
    /\ UNCHANGED <<chanVars, daVars, histVars>>

\* Mutant: the loop only ends when the server closes.
LoopTestNoHangup(t) ==
    /\ pc[t] = "loop"
    /\ Goto(t, IF closed[t] THEN "after_loop" ELSE "reading")
    /\ UNCHANGED <<chanVars, daVars, connVars, histVars>>

LoopTest(t) ==
    /\ pc[t] = "loop"
    /\ Goto(t, IF hangup[Da(t)] \/ closed[t] THEN "after_loop" ELSE "reading")
    /\ UNCHANGED <<chanVars, daVars, connVars, histVars>>

\* audio_queue_read, then ws.send of a whole frame; a read that times out on
\* an empty queue sends nothing.
ReadAndSend(t) ==
    /\ pc[t] = "reading"
    /\ Goto(t, "loop")
    /\ \/ /\ queue[Da(t)] # <<>>
          /\ queue' = [queue EXCEPT ![Da(t)] = Tail(@)]
          /\ wire' = [wire EXCEPT ![t] = Sent(t, "audio")]
       \/ queue[Da(t)] = <<>> /\ UNCHANGED <<queue, wire>>
    /\ UNCHANGED <<chanVars, pool, bug, flagVars, connected, closed, sock, cb,
                   close_asked, histVars>>

\* is_speaking:false, and a second for the last results.
SayEnd(t) ==
    /\ pc[t] = "after_loop"
    /\ Goto(t, "close")
    /\ wire' = IF closed[t] THEN wire ELSE [wire EXCEPT ![t] = Sent(t, "end")]
    /\ UNCHANGED <<chanVars, daVars, connected, closed, sock, cb, close_asked,
                   histVars>>

CloseWs(t) ==
    /\ pc[t] = "close"
    /\ Goto(t, "wait_close")
    /\ AskClose(t)
    /\ UNCHANGED <<chanVars, daVars, histVars>>

\* Mutant: the sender does not wait for onclose.
CloseNotAwaited(t) == pc[t] = "wait_close"

\* What ends the wait for onclose: the callback, or 3 seconds without it.
CloseWaitOver(t) == closed[t] \/ sock[t] = "failed" \/ "slow_close" \in Faults

\* "wait for connection to be closed", at most 3 seconds; then count the
\* attempt and decide whether there is another one.
WaitCloseEnds(t) ==
    LET p == Da(t)
        retries == ws_conn_retry[p] + 1
    IN
    /\ pc[t] = "wait_close"
    /\ CloseWaitOver(t)
    /\ ws_closed' = [ws_closed EXCEPT ![p] = @ \/ closed[t]]
    /\ ws_conn_retry' = [ws_conn_retry EXCEPT ![p] = retries]
    /\ Goto(t, IF ~hangup[p] /\ retries <= RetryMax
               THEN "retry_sleep" ELSE "destroy")
    /\ UNCHANGED <<chanVars, pool, bug, hangup, ws_connected, paused, queue,
                   connVars, histVars>>

\* Mutant: the old thread goes on to destroy() after creating the new one.
RetryFallsThrough(t) ==
    /\ pc[t] = "retry_sleep"
    /\ pc' = IF hangup[Da(t)] THEN [pc EXCEPT ![t] = "destroy"]
             ELSE [pc EXCEPT ![t] = "destroy", ![<<Da(t), t[2] + 1>>] = "start"]
    /\ UNCHANGED <<chanVars, daVars, connVars, histVars>>

\* After the pause: hand the object to a new thread, or give up.
Retry(t) ==
    /\ pc[t] = "retry_sleep"
    /\ \/ /\ ~hangup[Da(t)]
          /\ pc' = [pc EXCEPT ![t] = "unwind", ![<<Da(t), t[2] + 1>>] = "start"]
       \/ (hangup[Da(t)] \/ "thread" \in Faults) /\ Goto(t, "destroy")
    /\ UNCHANGED <<chanVars, daVars, connVars, histVars>>

-----------------------------------------------------------------------------
(* destroy(): test the flag, wait for the hangup signal, free the pool.    *)

\* Mutant: destroy() does not wait for the session.
DestroyAtOnce(t) ==
    /\ pc[t] = "destroy"
    /\ Goto(t, "free")
    /\ UNCHANGED <<chanVars, daVars, connVars, histVars>>

DestroyTest(t) ==
    /\ pc[t] = "destroy"
    /\ Goto(t, IF hangup[Da(t)] THEN "free" ELSE "enter_wait")
    /\ UNCHANGED <<chanVars, daVars, connVars, histVars>>

EnterWait(t) ==
    /\ pc[t] = "enter_wait"
    /\ Goto(t, "cond_wait")
    /\ UNCHANGED <<chanVars, daVars, connVars, histVars>>

SpuriousWake(t) ==
    /\ "spurious" \in Faults
    /\ pc[t] = "cond_wait"
    /\ Goto(t, "free")
    /\ woken' = woken \cup {Da(t)}
    /\ UNCHANGED <<chanVars, daVars, connVars, late>>

FreePool(t) ==
    /\ pc[t] = "free"
    /\ Goto(t, "unwind")
    /\ pool' = [pool EXCEPT ![Da(t)] = "freed"]
    /\ queue' = [queue EXCEPT ![Da(t)] = <<>>]
    /\ UNCHANGED <<chanVars, bug, flagVars, connVars, histVars>>

\* The destructor of the WebSocketClient stops and joins the loop thread.
JoinLoop(t) ==
    /\ pc[t] = "unwind" /\ cb[t] = "none"
    /\ Goto(t, "gone")
    /\ sock' = [sock EXCEPT ![t] = "joined"]
    /\ UNCHANGED <<chanVars, daVars, connected, closed, cb, close_asked, wire,
                   histVars>>

-----------------------------------------------------------------------------
(* The loop thread of one attempt.  A callback runs to its end before the  *)
(* loop handles another event.                                             *)

TcpConnected(t) ==
    /\ sock[t] = "connecting"
    /\ sock' = [sock EXCEPT ![t] = "upgrading"]
    /\ UNCHANGED <<chanVars, daVars, pc, connected, closed, cb, close_asked, wire,
                   histVars>>

\* Mutant: onopen only sets the flags.
OnOpenSilent(t) ==
    /\ sock[t] = "upgrading"
    /\ sock' = [sock EXCEPT ![t] = "open"]
    /\ cb' = [cb EXCEPT ![t] = "onopen"]
    /\ late' = (late \/ Freed(Da(t)))
    /\ UNCHANGED <<chanVars, daVars, pc, connected, closed, close_asked, wire, woken>>

\* onopen, first part: build the parameters from pvt->uuid and send them.
OnOpenSend(t) ==
    /\ sock[t] = "upgrading"
    /\ sock' = [sock EXCEPT ![t] = "open"]
    /\ cb' = [cb EXCEPT ![t] = "onopen"]
    /\ wire' = [wire EXCEPT ![t] = Sent(t, "init")]
    /\ late' = (late \/ Freed(Da(t)))
    /\ UNCHANGED <<chanVars, daVars, pc, connected, closed, close_asked, woken>>

\* onopen, second part: set both flags under the lock.
OnOpenFlags(t) ==
    /\ cb[t] = "onopen"
    /\ cb' = [cb EXCEPT ![t] = "none"]
    /\ connected' = [connected EXCEPT ![t] = TRUE]
    /\ ws_connected' = [ws_connected EXCEPT ![Da(t)] = TRUE]
    /\ late' = (late \/ Freed(Da(t)))
    /\ UNCHANGED <<chanVars, pool, bug, hangup, ws_closed, paused, ws_conn_retry,
                   queue, pc, closed, sock, close_asked, wire, woken>>

\* A recognition result becomes an AsrEvent for listeners outside; with
\* parse_json set, fireAsrEvent drops it once ws_closed is set.
FiresEvent(p) == ~Freed(p) /\ (ParseJson => ~ws_closed[p])

OnMessage(t) ==
    /\ sock[t] = "open" /\ cb[t] = "none"
    /\ late' = (late \/ Freed(Da(t)))
    /\ UNCHANGED <<chanVars, daVars, pc, connVars, woken>>

\* The connection failed, timed out, or was closed by either side.
OnClose(t) ==
    /\ sock[t] \in {"connecting", "upgrading", "open"}
    /\ cb[t] = "none"
    /\ sock' = [sock EXCEPT ![t] = "closed"]
    /\ closed' = [closed EXCEPT ![t] = TRUE]
    /\ late' = (late \/ Freed(Da(t)))
    /\ UNCHANGED <<chanVars, daVars, pc, connected, cb, close_asked, wire, woken>>

-----------------------------------------------------------------------------
SessionNext == \/ \E p \in Pvts : StartAsr(p) \/ HangupBug(p) \/ ReadFrame(p)
               \/ \E on \in BOOLEAN : PauseAsr(on)
               \/ StopAsr \/ Hangup \/ CloseFlag \/ CloseSignal

SenderStep(t) == \/ Begin(t) \/ OpenWs(t) \/ WaitConnEnds(t) \/ LoopTest(t)
                 \/ ReadAndSend(t) \/ SayEnd(t) \/ CloseWs(t)
                 \/ WaitCloseEnds(t) \/ Retry(t) \/ DestroyTest(t)
                 \/ EnterWait(t) \/ FreePool(t) \/ JoinLoop(t)

LoopStep(t) == \/ TcpConnected(t) \/ OnOpenSend(t) \/ OnOpenFlags(t)
               \/ OnMessage(t) \/ OnClose(t)

Next == \/ SessionNext
        \/ \E t \in Senders : SenderStep(t) \/ SpuriousWake(t) \/ LoopStep(t)

Spec == Init /\ [][Next]_vars

\* Threads run; a requested close is carried out by the loop thread.  Nothing
\* is assumed of the dialplan, the media or the server.
Fairness ==
    /\ WF_vars(CloseFlag) /\ WF_vars(CloseSignal)
    /\ \A p \in Pvts : WF_vars(HangupBug(p))
    /\ \A t \in Senders :
          /\ WF_vars(SenderStep(t))
          /\ WF_vars(OnOpenFlags(t))
          /\ WF_vars(close_asked[t] /\ OnClose(t))

FairSpec == Spec /\ Fairness

-----------------------------------------------------------------------------
(* Properties                                                              *)

\* Types; the audio queue never holds more than its capacity.
TypeOK ==
    /\ priv \in Pvts \cup {None}
    /\ ended \in BOOLEAN
    /\ closing \in Pvts \cup {None}
    /\ step \in {"idle", "flag", "signal"}
    /\ step # "idle" => closing # None
    /\ pool \in [Pvts -> {"none", "live", "freed"}]
    /\ bug \in [Pvts -> {"none", "attached", "removed"}]
    /\ hangup \in [Pvts -> BOOLEAN]
    /\ ws_connected \in [Pvts -> BOOLEAN]
    /\ ws_closed \in [Pvts -> BOOLEAN]
    /\ paused \in [Pvts -> BOOLEAN]
    /\ ws_conn_retry \in [Pvts -> 0..RetryMax + 1]
    /\ queue \in [Pvts -> Seq(Frames)]
    /\ \A p \in Pvts : Len(queue[p]) <= QueueCap
    /\ pc \in [Senders -> Labels]
    /\ connected \in [Senders -> BOOLEAN]
    /\ closed \in [Senders -> BOOLEAN]
    /\ sock \in [Senders -> {"none", "connecting", "failed", "upgrading", "open",
                             "closed", "joined"}]
    /\ cb \in [Senders -> {"none", "onopen"}]
    /\ close_asked \in [Senders -> BOOLEAN]
    /\ wire \in [Senders -> Seq(Messages)]
    /\ late \in BOOLEAN
    /\ woken \subseteq Pvts

\* A switch_da has at most one sender thread at a time, also across
\* reconnections, and none once it is destroyed: destroy() runs once.
SingleOwner ==
    \A p \in Pvts : \A j, k \in Attempts :
        pc[<<p, j>>] \in Owning =>
            /\ ~Freed(p)
            /\ j # k => pc[<<p, k>>] \notin Owning

\* destroy() frees the pool only once the session is gone ("session is
\* hangup", destroy()'s log line after the wait), unless its wait, which is
\* not in a loop, returned without a signal.
FreedAfterHangup == \A p \in Pvts \ woken : Freed(p) => hangup[p]

\* READ (through an attached media bug), pause_asr and stop_asr (through the
\* private of a channel that has not hung up) meet a live switch_da, unless
\* the wait of its destroy() returned without a signal.  CLOSE is not meant:
\* between its flag and its signal the object may be destroyed.
SessionSeesLivePvt ==
    \A p \in Pvts \ woken :
        bug[p] = "attached" \/ (priv = p /\ ~ended) => pool[p] = "live"

\* The server gets the parameters of a connection before its first audio, also
\* when earlier attempts failed: what is sent without them is sent by an
\* attempt that took the ws_connected of an earlier, opened one for its own.
AudioAfterInit ==
    \A t \in Senders : \A i \in DOMAIN wire[t] :
        wire[t][i] = "audio" =>
            \/ \E j \in 1..(i - 1) : wire[t][j] = "init"
            \/ \E k \in 0..(t[2] - 1) : connected[<<Da(t), k>>]

\* While a sender streams on an open connection and the call goes on, the
\* READ callback feeds it and its results become events ("add function to
\* reconnect...": a reconnection resumes recognition).
StreamingIsFed ==
    \A t \in Senders :
        /\ pc[t] \in {"loop", "reading"} /\ connected[t]
        /\ sock[t] = "open" /\ ~hangup[Da(t)]
        => Gate(Da(t)) /\ FiresEvent(Da(t))

\* No callback of a connection runs on a destroyed switch_da ("wait for
\* connection to be closed" before destroy()).
CallbacksSeeLivePvt == ~late

\* Once the media bug is closed, a sender that is not yet inside destroy()
\* ends its connection and frees the object.
StopDrains ==
    \A p \in Pvts :
        (/\ hangup[p]
         /\ \E k \in Attempts : pc[<<p, k>>] \in
               Owning \ {"destroy", "enter_wait", "cond_wait"})
        ~> Freed(p)

\* pause_asr mutes the recognition: while the sender streams, the voice that
\* was queued before the pause drains away.
PauseTakesEffect ==
    \A p \in Pvts : \A k \in Attempts :
        (paused[p] /\ pc[<<p, k>>] = "loop") ~>
            \/ ~paused[p]
            \/ pc[<<p, k>>] = "after_loop"
            \/ \A i \in DOMAIN queue[p] : queue[p][i] = "silence"

\* "wait for session hangup": every object whose session hung up is destroyed.
HangupFrees ==
    \A p \in Pvts :
        (hangup[p] /\ \E k \in Attempts : pc[<<p, k>>] \in Owning)
        ~> Freed(p)
=============================================================================
