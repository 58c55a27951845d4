----------------------------- MODULE AliyunTts -----------------------------
(***************************************************************************)
(* mod_aliyun_tts: one speech handle, from speech_open to destroy().       *)
(*                                                                         *)
(* Four kinds of threads share one aliyuntts_t, mostly through atomics     *)
(* that are loaded and stored one at a time:                               *)
(*   - the session thread runs speech_open, feed_tts, read_tts, flush_tts, *)
(*     speech_close and, between two reads, the application                *)
(*     aliyuntts_resume;                                                   *)
(*   - the worker, the detached thread of speech_open, sends the queued    *)
(*     texts and finally calls destroy();                                  *)
(*   - an event loop thread runs onopen, onmessage and onclose;            *)
(*   - a detached thread per SynthesisCompleted message reports the        *)
(*     completion half a second late.                                      *)
(*                                                                         *)
(* Texts are the numbers 1, 2, ... in the order in which they are given to *)
(* the module; audio is a number of frames.  Every wait in this code has a *)
(* time limit and may end at any moment, unless a fault is named for it:   *)
(* read_audio_data, which only ends a 20 ms wait early, is left out.       *)
(* Loads that follow each other without a store are one step.              *)
(***************************************************************************)
EXTENDS Integers, Sequences

CONSTANTS
    MaxTexts,   \* bound: texts the session feeds or resumes with
    MaxFrames,  \* bound: audio frames the server sends per request
    QueueCap,   \* capacity of tts_text_queue (100 in the code)
    BufferCap,  \* frames audio_buffer holds
    Faults      \* what may go wrong

FaultKinds == {"token",        \* getToken returns an empty token
               "dns",          \* ws->open fails: no callback will come
               "slow_connect", \* the wait for the connection times out first
               "slow_close",   \* no onclose within 3.5 seconds
               "drop",         \* the server closes the connection
               "silent"}       \* the server stops answering a request

ASSUME AliyunTtsAssumption ==
    /\ MaxTexts \in Nat /\ MaxFrames \in Nat
    /\ QueueCap \in Nat \ {0} /\ BufferCap \in Nat \ {0}
    /\ Faults \subseteq FaultKinds

VARIABLES
    pvt,            \* the object: "none", "live" or "freed"
    pc, text,       \* where a thread is and the text it works on (0: none)
    pending_request,
    \* The atomics of struct aliyuntts
    ws_connected, ws_closed, conn_finished, tts_closed,
    synthesisCompleted, tts_in_progress,
    audio_data_available, play_back_stopped,
    \* Its buffer and its queue
    buffer, queue,
    \* The connection, the callback that runs on it, the delayed threads
    sock, close_asked, cb, sleepers, delayed,
    \* The server
    srv, frames, rejected,
    \* History
    given,          \* texts handed to the module so far
    queued, sent,   \* texts pushed on the queue; texts the worker sent
    balance,        \* PLAYBACK_START minus PLAYBACK_STOP events fired
    skipped,        \* was a frame of real audio dropped as "the first data"?
    late            \* threads that used the object after destroy()

life == <<pvt, pc, text, pending_request>>
wsFlags == <<ws_connected, ws_closed, conn_finished, tts_closed>>
reqFlags == <<synthesisCompleted, tts_in_progress>>
audFlags == <<audio_data_available, play_back_stopped>>
store == <<buffer, queue>>
conn == <<sock, close_asked, cb, sleepers, delayed>>
server == <<srv, frames, rejected>>
hist == <<given, queued, sent, balance, skipped, late>>
vars == <<life, wsFlags, reqFlags, audFlags, store, conn, server, hist>>

Threads == {"session", "worker"}
S == "session"
W == "worker"

SendLabels == {"send", "reset_flags", "reset_audio", "mark", "ws_send"}
SessionLabels == {"start", "connecting", "failed", "idle", "push",
                  "read_wait", "block_wait", "give_up", "stop_fire",
                  "close_wait", "close_ws", "close_flag", "closed"}
WorkerLabels == {"none", "loop", "reset", "exit", "gone"}
Labels == SendLabels \cup SessionLabels \cup WorkerLabels
CbLabels == {"idle", "write", "avail", "start", "fire", "reject_progress",
             "close_progress", "close_conn", "close_flag"}

Init ==
    /\ pvt = "none"
    /\ pc = [t \in Threads |-> IF t = S THEN "start" ELSE "none"]
    /\ text = [t \in Threads |-> 0]
    /\ pending_request = FALSE
    /\ ws_connected = FALSE /\ ws_closed = FALSE
    /\ conn_finished = FALSE /\ tts_closed = FALSE
    /\ synthesisCompleted = TRUE /\ tts_in_progress = FALSE
    /\ audio_data_available = FALSE /\ play_back_stopped = TRUE
    /\ buffer = 0 /\ queue = <<>>
    /\ sock = "none" /\ close_asked = FALSE /\ cb = "idle"
    /\ sleepers = 0 /\ delayed = "idle"
    /\ srv = "idle" /\ frames = 0 /\ rejected = 0
    /\ given = 0 /\ queued = <<>> /\ sent = <<>> /\ balance = 0
    /\ skipped = FALSE /\ late = {}

Goto(t, l) == pc' = [pc EXCEPT ![t] = l]

\* A thread of kind k uses the object.
Touch(k) == late' = IF pvt = "freed" THEN late \cup {k} ELSE late

\* The delayed thread holds mtx while it stores its two flags.
MtxFree == delayed = "idle"

-----------------------------------------------------------------------------
(* speech_open                                                             *)

\* destroy(): what the buffer and the queue still hold is gone.
Destroy == pvt' = "freed" /\ buffer' = 0 /\ queue' = <<>>

\* connect_ws: with a token, open the WebSocket.  Without one it fails at
\* once and speech_open destroys the object again.
ConnectWs ==
    \/ /\ pvt' = "live" /\ UNCHANGED store
       /\ sock' = "connecting" /\ Goto(S, "connecting")
    \/ /\ "dns" \in Faults
       /\ pvt' = "live" /\ UNCHANGED store
       /\ UNCHANGED sock /\ Goto(S, "connecting")
    \/ /\ "token" \in Faults
       /\ Destroy
       /\ UNCHANGED sock /\ Goto(S, "failed")

\* Build the object, publish it as the channel's private data and connect.
Open ==
    /\ pc[S] = "start"
    /\ ConnectWs
    /\ UNCHANGED <<text, pending_request, wsFlags, reqFlags, audFlags,
                   close_asked, cb, sleepers, delayed, server, hist>>

\* The wait for conn_finished ends: start the worker, or destroy the object.
ConnectEnds ==
    /\ pc[S] = "connecting"
    /\ conn_finished \/ sock = "none" \/ "slow_connect" \in Faults
    /\ IF ws_connected
       THEN /\ pc' = [pc EXCEPT ![S] = "idle", ![W] = "loop"]
            /\ UNCHANGED <<pvt, store>>
       ELSE Destroy /\ Goto(S, "failed")
    /\ UNCHANGED <<text, pending_request, wsFlags, reqFlags, audFlags, conn,
                   server, hist>>

-----------------------------------------------------------------------------
(* send_tts_request, called by both threads                                *)

\* The request that is refused stays with its caller: feed_tts queues it, the
\* worker keeps it as pending_text.
SendCheck(t) ==
    /\ pc[t] = "send"
    /\ Goto(t, IF ws_connected /\ ~tts_in_progress THEN "reset_flags"
               ELSE IF t = S THEN "push" ELSE "loop")
    /\ UNCHANGED <<pvt, text, pending_request, wsFlags, reqFlags, audFlags,
                   store, conn, server, hist>>

\* Three stores that other threads may come between.
ResetFlags(t) ==
    /\ pc[t] = "reset_flags"
    /\ synthesisCompleted' = FALSE
    /\ Goto(t, "reset_audio")
    /\ UNCHANGED <<pvt, text, pending_request, wsFlags, tts_in_progress, audFlags,
                   store, conn, server, hist>>

ResetAudio(t) ==
    /\ pc[t] = "reset_audio"
    /\ audio_data_available' = FALSE
    /\ Goto(t, "mark")
    /\ UNCHANGED <<pvt, text, pending_request, wsFlags, reqFlags, play_back_stopped,
                   store, conn, server, hist>>

MarkRequest(t) ==
    /\ pc[t] = "mark"
    /\ tts_in_progress' = TRUE
    /\ Goto(t, "ws_send")
    /\ UNCHANGED <<pvt, text, pending_request, wsFlags, synthesisCompleted, audFlags,
                   store, conn, server, hist>>

\* The server starts the task, or answers that one is running already.  What
\* is sent on a closed connection is lost; the code does not look at it.
ServerGets ==
    IF sock # "open" \/ close_asked \/ srv = "silent"
    THEN UNCHANGED server
    ELSE IF srv = "idle"
         THEN srv' = "begun" /\ frames' = 0 /\ UNCHANGED rejected
         ELSE rejected' = rejected + 1 /\ UNCHANGED <<srv, frames>>

\* Mutant: the worker keeps the text it has sent as pending_text.
WsSendKept(t) ==
    /\ pc[t] = "ws_send"
    /\ ServerGets
    /\ IF t = S THEN Goto(S, "idle") /\ UNCHANGED <<pending_request, sent>>
       ELSE /\ Goto(W, "loop")
            /\ pending_request' = TRUE
            /\ sent' = Append(sent, text[W])
    /\ text' = IF t = S THEN [text EXCEPT ![S] = 0] ELSE text
    /\ UNCHANGED <<pvt, wsFlags, reqFlags, audFlags, store, conn,
                   given, queued, balance, skipped, late>>

\* The request is sent.  feed_tts then waits up to two seconds for
\* data and returns in any case; the worker notes its own request.
WsSend(t) ==
    /\ pc[t] = "ws_send"
    /\ ServerGets
    /\ IF t = S THEN Goto(S, "idle") /\ UNCHANGED <<pending_request, sent>>
       ELSE /\ Goto(W, "loop")
            /\ pending_request' = TRUE
            /\ sent' = Append(sent, text[W])
    /\ text' = [text EXCEPT ![t] = 0]
    /\ UNCHANGED <<pvt, wsFlags, reqFlags, audFlags, store, conn,
                   given, queued, balance, skipped, late>>

-----------------------------------------------------------------------------
(* feed_tts and aliyuntts_resume                                           *)

NewText == given < MaxTexts /\ given' = given + 1
           /\ text' = [text EXCEPT ![S] = given + 1]

\* feed_tts: send at once, or queue behind the request in progress.
Feed ==
    /\ pc[S] = "idle" /\ NewText
    /\ Goto(S, IF tts_in_progress THEN "push" ELSE "send")
    /\ UNCHANGED <<pvt, pending_request, wsFlags, reqFlags, audFlags, store,
                   conn, server, queued, sent, balance, skipped, late>>

\* aliyuntts_resume always queues.
Resume ==
    /\ pc[S] = "idle" /\ NewText
    /\ Goto(S, "push")
    /\ UNCHANGED <<pvt, pending_request, wsFlags, reqFlags, audFlags, store,
                   conn, server, queued, sent, balance, skipped, late>>

\* switch_queue_push blocks while the queue is full.
Push ==
    /\ pc[S] = "push" /\ Len(queue) < QueueCap
    /\ queue' = Append(queue, text[S])
    /\ queued' = Append(queued, text[S])
    /\ text' = [text EXCEPT ![S] = 0]
    /\ Goto(S, "idle")
    /\ UNCHANGED <<pvt, pending_request, wsFlags, reqFlags, audFlags, buffer,
                   conn, server, given, sent, balance, skipped, late>>

-----------------------------------------------------------------------------
(* read_tts and flush_tts                                                  *)

\* audio_buffer has no mutex.  An access that overlaps the loop thread's
\* write leaves any amount in it.
Take ==
    /\ buffer > 0
    /\ IF cb = "write" THEN buffer' \in 0..BufferCap ELSE buffer' = buffer - 1

Return == Goto(S, "idle")
ReadFrame == UNCHANGED <<pvt, text, pending_request, wsFlags, reqFlags, queue,
                         conn, server, hist>>

\* The blocking part is entered only while there is something to wait for.
Block == Goto(S, IF tts_in_progress \/ audio_data_available
                 THEN "block_wait" ELSE "give_up")

\* Return what is there.  Else, with an active request and no data yet
\* (tts_active), first wait up to five seconds.
Read ==
    /\ pc[S] = "idle"
    /\ \/ Take /\ UNCHANGED pc
       \/ /\ buffer = 0 /\ UNCHANGED buffer
          /\ IF /\ tts_in_progress /\ ws_connected /\ ~ws_closed
                /\ ~tts_closed /\ ~audio_data_available
             THEN Goto(S, "read_wait") ELSE Block
    /\ ReadFrame /\ UNCHANGED audFlags

ReadWaitEnds ==
    /\ pc[S] = "read_wait"
    /\ \/ audio_data_available /\ Take /\ Return
       \/ Block /\ UNCHANGED buffer
    /\ ReadFrame /\ UNCHANGED audFlags

\* Return data; or wait again; or stop after two seconds or a close.
BlockWait ==
    /\ pc[S] = "block_wait" /\ MtxFree
    /\ \/ Take /\ Return
       \/ /\ buffer = 0 /\ UNCHANGED buffer
          /\ \/ ~ws_closed /\ ~tts_closed /\ UNCHANGED pc
             \/ Goto(S, "give_up")
    /\ ReadFrame /\ UNCHANGED audFlags

\* Mutant: PLAYBACK_STOP is fired whether or not the playback is stopped.
GiveUpAlways ==
    /\ pc[S] = "give_up"
    /\ play_back_stopped' = TRUE
    /\ Goto(S, "stop_fire")
    /\ ReadFrame /\ UNCHANGED <<audio_data_available, buffer>>

\* Nothing read: end the playback if one has started.
GiveUp ==
    /\ pc[S] = "give_up"
    /\ IF play_back_stopped THEN Return ELSE Goto(S, "stop_fire")
    /\ play_back_stopped' = TRUE
    /\ ReadFrame /\ UNCHANGED <<audio_data_available, buffer>>

FireStop ==
    /\ pc[S] = "stop_fire"
    /\ audio_data_available' = FALSE
    /\ balance' = balance - 1
    /\ Return
    /\ UNCHANGED <<pvt, text, pending_request, wsFlags, reqFlags,
                   play_back_stopped, store, conn, server, given, queued, sent,
                   skipped, late>>

Flush ==
    /\ pc[S] = "idle"
    /\ IF cb = "write" THEN buffer' \in 0..BufferCap ELSE buffer' = 0
    /\ ReadFrame /\ UNCHANGED <<pc, audFlags>>

-----------------------------------------------------------------------------
(* speech_close                                                            *)

SessionOnly == UNCHANGED <<pvt, text, pending_request, reqFlags, audFlags,
                           store, server, hist>>

\* A request in progress is given up to five seconds to complete.
Close ==
    /\ pc[S] = "idle"
    /\ Goto(S, IF tts_in_progress THEN "close_wait" ELSE "close_ws")
    /\ SessionOnly /\ UNCHANGED <<wsFlags, conn>>

CloseWaitEnds ==
    /\ pc[S] = "close_wait"
    /\ Goto(S, "close_ws")
    /\ SessionOnly /\ UNCHANGED <<wsFlags, conn>>

\* Mutant: tts_closed is set before the WebSocket is closed.
CloseWsFlagFirst ==
    /\ pc[S] = "close_ws"
    /\ close_asked' = ~ws_closed
    /\ tts_closed' = TRUE
    /\ Goto(S, "close_flag")
    /\ SessionOnly
    /\ UNCHANGED <<ws_connected, ws_closed, conn_finished, sock, cb, sleepers,
                   delayed>>

\* ws->close() only asks the loop thread to close.
CloseWs ==
    /\ pc[S] = "close_ws"
    /\ close_asked' = ~ws_closed
    /\ Goto(S, "close_flag")
    /\ SessionOnly /\ UNCHANGED <<wsFlags, sock, cb, sleepers, delayed>>

CloseFlag ==
    /\ pc[S] = "close_flag"
    /\ tts_closed' = TRUE
    /\ Goto(S, "closed")
    /\ SessionOnly
    /\ UNCHANGED <<ws_connected, ws_closed, conn_finished, conn>>

-----------------------------------------------------------------------------
(* The worker                                                              *)

WorkerFrame == UNCHANGED <<wsFlags, audFlags, conn, server, given, queued, sent,
                           balance, skipped, late>>

\* The loop's two tests.  With a synthesis under way the worker sleeps 50 ms
\* and tests again.
LoopTest ==
    /\ pc[W] = "loop"
    /\ Goto(W, IF tts_closed THEN "exit"
               ELSE IF synthesisCompleted THEN "reset" ELSE "loop")
    /\ WorkerFrame /\ UNCHANGED <<pvt, text, pending_request, reqFlags, store>>

\* No data three seconds after a request of the worker's own.
RequestTimedOut ==
    /\ pc[W] = "loop" /\ ~tts_closed /\ ~synthesisCompleted
    /\ tts_in_progress /\ ~audio_data_available /\ pending_request
    /\ synthesisCompleted' = TRUE /\ tts_in_progress' = FALSE
    /\ pending_request' = FALSE
    /\ WorkerFrame /\ UNCHANGED <<pvt, pc, text, store>>

\* The text to send next: the pending one first, then the head of the queue,
\* which is dropped when the session was closed meanwhile.
TakeText ==
    IF text[W] # 0 \/ queue = <<>>
    THEN /\ Goto(W, IF text[W] # 0 THEN "send" ELSE "loop")
         /\ UNCHANGED <<queue, text>>
    ELSE /\ queue' = Tail(queue)
         /\ IF tts_closed THEN Goto(W, "loop") /\ UNCHANGED text
            ELSE Goto(W, "send") /\ text' = [text EXCEPT ![W] = Head(queue)]

\* The previous synthesis is complete: reset its flags, take the next text.
ResetProgress ==
    /\ pc[W] = "reset"
    /\ tts_in_progress' = FALSE /\ pending_request' = FALSE
    /\ \/ TakeText
       \/ tts_closed /\ Goto(W, "exit") /\ UNCHANGED <<queue, text>>
    /\ WorkerFrame /\ UNCHANGED <<pvt, synthesisCompleted, buffer>>

\* Mutant: destroy() does not wait for the connection to be closed.
ExitAtOnce ==
    /\ pc[W] = "exit"
    /\ Destroy
    /\ Goto(W, "gone")
    /\ WorkerFrame /\ UNCHANGED <<text, pending_request, reqFlags>>

\* Mutant: the worker waits for the close without a time limit, on a flag only
\* an orderly close would set.
ExitOnAskedClose ==
    /\ pc[W] = "exit"
    /\ ws_closed /\ close_asked
    /\ Destroy
    /\ Goto(W, "gone")
    /\ WorkerFrame /\ UNCHANGED <<text, pending_request, reqFlags>>

\* Wait for onclose, 3.5 seconds at most, then destroy().
Exit ==
    /\ pc[W] = "exit"
    /\ ws_closed \/ "slow_close" \in Faults
    /\ Destroy
    /\ Goto(W, "gone")
    /\ WorkerFrame /\ UNCHANGED <<text, pending_request, reqFlags>>

-----------------------------------------------------------------------------
(* The callbacks of the WebSocket, on the loop thread                      *)

CbFrame == UNCHANGED <<pvt, pc, text, pending_request, queue, close_asked,
                       given, queued, sent>>

OnOpen ==
    /\ sock = "connecting" /\ cb = "idle"
    /\ sock' = "open"
    /\ ws_connected' = TRUE /\ conn_finished' = TRUE
    /\ Touch("loop")
    /\ CbFrame /\ UNCHANGED <<ws_closed, tts_closed, reqFlags, audFlags, buffer,
                              cb, sleepers, delayed, server, balance, skipped>>

\* The connection failed, was closed on request, or by the server.
OnClose ==
    /\ cb = "idle"
    /\ \/ sock = "connecting"
       \/ sock = "open" /\ (close_asked \/ "drop" \in Faults)
    /\ sock' = "closed"
    /\ IF tts_in_progress /\ ~synthesisCompleted
       THEN synthesisCompleted' = TRUE /\ cb' = "close_progress"
       ELSE cb' = "close_conn" /\ UNCHANGED synthesisCompleted
    /\ Touch("loop")
    /\ CbFrame /\ UNCHANGED <<wsFlags, tts_in_progress, audFlags, buffer,
                              sleepers, delayed, server, balance, skipped>>

\* tts_in_progress.store(0): in onclose, and after a rejected request.
StoreIdle(from, to) ==
    /\ cb = from /\ cb' = to
    /\ tts_in_progress' = FALSE
    /\ Touch("loop")
    /\ CbFrame /\ UNCHANGED <<wsFlags, synthesisCompleted, audFlags, buffer,
                              sock, sleepers, delayed, server, balance, skipped>>

OnCloseIdle == StoreIdle("close_progress", "close_conn")
OnRejectedIdle == StoreIdle("reject_progress", "idle")

\* conn_finished first: a speech_open that waits for it may go on now.
OnCloseConn ==
    /\ cb = "close_conn" /\ cb' = "close_flag"
    /\ conn_finished \/ MtxFree
    /\ conn_finished' = TRUE
    /\ Touch("loop")
    /\ CbFrame /\ UNCHANGED <<ws_connected, ws_closed, tts_closed, reqFlags,
                              audFlags, buffer, sock, sleepers, delayed, server,
                              balance, skipped>>

OnCloseFlag ==
    /\ cb = "close_flag" /\ cb' = "idle"
    /\ ws_closed' = TRUE
    /\ Touch("loop")
    /\ CbFrame /\ UNCHANGED <<ws_connected, conn_finished, tts_closed, reqFlags,
                              audFlags, buffer, sock, sleepers, delayed, server,
                              balance, skipped>>

Receiving == sock = "open" /\ cb = "idle"

\* Status 40010005: a request arrived while a task was running.
OnRejected ==
    /\ Receiving /\ rejected > 0
    /\ rejected' = rejected - 1
    /\ synthesisCompleted' = TRUE
    /\ cb' = "reject_progress"
    /\ Touch("loop")
    /\ CbFrame /\ UNCHANGED <<wsFlags, tts_in_progress, audFlags, buffer, sock,
                              sleepers, delayed, srv, frames, balance, skipped>>

\* SynthesisCompleted starts a thread that will report it.
OnCompleted ==
    /\ Receiving /\ srv \in {"begun", "streaming"}
    /\ srv' = "idle"
    /\ sleepers' = sleepers + 1
    /\ Touch("loop")
    /\ CbFrame /\ UNCHANGED <<wsFlags, reqFlags, audFlags, buffer, sock, cb,
                              delayed, frames, rejected, balance, skipped>>

\* Binary data: the server's header ("76 bytes, not audio data") or a frame.
\* The first data since audio_data_available was cleared is skipped.
OnBinary(isFrame) ==
    /\ Receiving
    /\ IF isFrame THEN srv = "streaming" /\ frames < MaxFrames ELSE srv = "begun"
    /\ srv' = "streaming"
    /\ frames' = IF isFrame THEN frames + 1 ELSE 0
    /\ cb' = IF audio_data_available THEN "write" ELSE "avail"
    /\ skipped' = (skipped \/ (isFrame /\ ~audio_data_available))
    /\ Touch("loop")
    /\ CbFrame /\ UNCHANGED <<wsFlags, reqFlags, audFlags, buffer, sock,
                              sleepers, delayed, rejected, balance>>

\* switch_buffer_write; a full buffer takes nothing.
BufferWrite ==
    /\ cb = "write" /\ cb' = "avail"
    /\ buffer' = IF buffer < BufferCap THEN buffer + 1 ELSE buffer
    /\ Touch("loop")
    /\ CbFrame /\ UNCHANGED <<wsFlags, reqFlags, audFlags, sock, sleepers,
                              delayed, server, balance, skipped>>

MarkAvailable ==
    /\ cb = "avail" /\ cb' = "start"
    /\ audio_data_available' = TRUE
    /\ Touch("loop")
    /\ CbFrame /\ UNCHANGED <<wsFlags, reqFlags, play_back_stopped, buffer, sock,
                              sleepers, delayed, server, balance, skipped>>

MarkStarted ==
    /\ cb = "start"
    /\ cb' = IF play_back_stopped THEN "fire" ELSE "idle"
    /\ play_back_stopped' = FALSE
    /\ Touch("loop")
    /\ CbFrame /\ UNCHANGED <<wsFlags, reqFlags, audio_data_available, buffer,
                              sock, sleepers, delayed, server, balance, skipped>>

FireStart ==
    /\ cb = "fire" /\ cb' = "idle"
    /\ balance' = balance + 1
    /\ Touch("loop")
    /\ CbFrame /\ UNCHANGED <<wsFlags, reqFlags, audFlags, buffer, sock,
                              sleepers, delayed, server, skipped>>

\* The server takes a request and then says nothing more.
GoSilent ==
    /\ "silent" \in Faults /\ srv \in {"begun", "streaming"}
    /\ srv' = "silent"
    /\ UNCHANGED <<life, wsFlags, reqFlags, audFlags, store, conn, frames,
                   rejected, hist>>

-----------------------------------------------------------------------------
(* The thread that reports a completion 500 ms late                        *)

\* Mutant: the completion is only reported when there is data.
DelayedDoneIfData ==
    /\ sleepers > 0 /\ delayed = "idle"
    /\ sleepers' = sleepers - 1
    /\ synthesisCompleted' = (synthesisCompleted \/ buffer > 0)
    /\ delayed' = IF buffer > 0 THEN "progress" ELSE "idle"
    /\ Touch("delayed")
    /\ UNCHANGED <<life, wsFlags, tts_in_progress, audFlags, store, sock,
                   close_asked, cb, server, given, queued, sent, balance, skipped>>

\* Take mtx and set synthesisCompleted; tts_in_progress is only cleared when
\* the buffer holds data.
DelayedDone ==
    /\ sleepers > 0 /\ delayed = "idle"
    /\ sleepers' = sleepers - 1
    /\ synthesisCompleted' = TRUE
    /\ delayed' = IF buffer > 0 THEN "progress" ELSE "idle"
    /\ Touch("delayed")
    /\ UNCHANGED <<life, wsFlags, tts_in_progress, audFlags, store, sock,
                   close_asked, cb, server, given, queued, sent, balance, skipped>>

DelayedIdle ==
    /\ delayed = "progress" /\ delayed' = "idle"
    /\ tts_in_progress' = FALSE
    /\ Touch("delayed")
    /\ UNCHANGED <<life, wsFlags, synthesisCompleted, audFlags, store, sock,
                   close_asked, cb, sleepers, server, given, queued, sent,
                   balance, skipped>>

-----------------------------------------------------------------------------
SendStep(t) ==
    SendCheck(t) \/ ResetFlags(t) \/ ResetAudio(t) \/ MarkRequest(t) \/ WsSend(t)

\* What the session's caller decides to do, and what then runs by itself.
SessionCall == Open \/ Feed \/ Resume \/ Read \/ Flush \/ Close
SessionRuns ==
    \/ ConnectEnds \/ SendStep(S) \/ Push
    \/ ReadWaitEnds \/ BlockWait \/ GiveUp \/ FireStop
    \/ CloseWaitEnds \/ CloseWs \/ CloseFlag

WorkerStep == SendStep(W) \/ LoopTest \/ ResetProgress \/ Exit

CallbackRuns ==
    \/ OnCloseIdle \/ OnCloseConn \/ OnCloseFlag
    \/ OnRejectedIdle \/ BufferWrite \/ MarkAvailable \/ MarkStarted \/ FireStart

ServerAnswers == OnRejected \/ OnCompleted \/ \E f \in BOOLEAN : OnBinary(f)

DelayedStep == DelayedDone \/ DelayedIdle

Next ==
    \/ SessionCall \/ SessionRuns \/ WorkerStep \/ RequestTimedOut
    \/ OnOpen \/ OnClose \/ CallbackRuns \/ ServerAnswers \/ GoSilent
    \/ DelayedStep

Spec == Init /\ [][Next]_vars

\* Threads run; a close that was asked for is carried out; time passes, so a
\* request that stays unanswered times out; a server that is not silent
\* finishes.  Nothing is assumed of the calls the session makes.
Fairness ==
    /\ WF_vars(SessionRuns) /\ WF_vars(WorkerStep) /\ WF_vars(RequestTimedOut)
    /\ WF_vars(CallbackRuns) /\ WF_vars(close_asked /\ OnClose)
    /\ WF_vars(ServerAnswers) /\ WF_vars(DelayedStep)

FairSpec == Spec /\ Fairness

-----------------------------------------------------------------------------
(* Properties                                                              *)

\* Types; the queue and the buffer keep to their capacity.
TypeOK ==
    /\ pvt \in {"none", "live", "freed"}
    /\ pc \in [Threads -> Labels]
    /\ text \in [Threads -> 0..MaxTexts]
    /\ pending_request \in BOOLEAN
    /\ ws_connected \in BOOLEAN /\ ws_closed \in BOOLEAN
    /\ conn_finished \in BOOLEAN /\ tts_closed \in BOOLEAN
    /\ synthesisCompleted \in BOOLEAN /\ tts_in_progress \in BOOLEAN
    /\ audio_data_available \in BOOLEAN /\ play_back_stopped \in BOOLEAN
    /\ buffer \in 0..BufferCap
    /\ queue \in Seq(1..MaxTexts) /\ Len(queue) <= QueueCap
    /\ sock \in {"none", "connecting", "open", "closed"}
    /\ close_asked \in BOOLEAN
    /\ cb \in CbLabels
    /\ sleepers \in Nat /\ delayed \in {"idle", "progress"}
    /\ srv \in {"idle", "begun", "streaming", "silent"}
    /\ frames \in 0..MaxFrames /\ rejected \in Nat
    /\ given \in 0..MaxTexts
    /\ queued \in Seq(1..MaxTexts) /\ sent \in Seq(1..MaxTexts)
    /\ balance \in Int /\ skipped \in BOOLEAN
    /\ late \subseteq {"loop", "delayed"}

\* While a session is open or being closed, the object that its calls and the
\* worker use has not been destroyed: destroy() comes after tts_closed, the
\* last thing speech_close does to the object.
SessionSeesLivePvt ==
    pc[S] \notin {"start", "failed", "closed"} \/ pc[W] \notin {"none", "gone"}
        => pvt = "live"

\* A speech handle that was opened has no callback on a destroyed object: the
\* worker waits for onclose ("WebSocket connection closed") before destroy().
CallbacksSeeLivePvt == pc[S] # "failed" => "loop" \notin late

\* The worker sends the queued texts in order, none twice; and until the
\* session is closed none is lost: what was queued is sent, in the worker's
\* hands ("Save last text unable to process, avoid losing") or in the queue.
InHand == IF text[W] = 0 THEN <<>> ELSE <<text[W]>>
QueueFaithful ==
    LET rest == InHand \o queue IN
    /\ SubSeq(queued, 1, Len(sent)) = sent
    /\ ~tts_closed => queued = sent \o rest

\* PLAYBACK_START and PLAYBACK_STOP events pair up: when no thread is about to
\* fire one, a listener has seen one START more than STOPs while the playback
\* is on, and as many of each otherwise.
PlaybackEventsPaired ==
    cb # "fire" /\ pc[S] # "stop_fire"
        => balance = (IF play_back_stopped THEN 0 ELSE 1)

\* Queued texts are sent unless the session or the connection is closed or the
\* server goes silent, whatever happened to tts_in_progress meanwhile.
QueueDrains ==
    queue # <<>> ~> \/ queue = <<>> /\ text[W] = 0
                    \/ tts_closed \/ sock = "closed" \/ srv = "silent"

\* After speech_close the worker ends and destroys the object.
CloseDestroys == tts_closed ~> pvt = "freed"

\* "An ongoing TTS request is in progress, cannot send new request": the
\* server never gets a request while it works on another one.
OneOutstanding == rejected = 0

\* "we skip the first audio data, it is 76 bytes, not audio data": only the
\* header of an answer is skipped.
OnlyHeaderSkipped == ~skipped
=============================================================================
