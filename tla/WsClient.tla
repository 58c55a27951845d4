------------------------------ MODULE WsClient ------------------------------
(***************************************************************************)
(* One connection of libhv's WebSocketClient from open() to the end of the *)
(* destructor, as mod_funasr uses it: a user thread that opens, sends,     *)
(* closes and destroys, and the client's own loop thread (HvLoop), which   *)
(* connects, upgrades, parses, pings, writes what was queued, and closes.  *)
(* Modelled from WebSocketClient.cpp, WebSocketChannel.cpp, TcpClient.h,   *)
(* Channel.h, event/nio.c and event/hevent.c.                              *)
(*                                                                         *)
(* hio_close is not one step: it sets closed under write_mutex and then,    *)
(* without it, takes the hio down one store at a time, while a send() that  *)
(* has tested closed before may still write, queue, or even make the hio    *)
(* ready again, which takes its callbacks away.                             *)
(*                                                                         *)
(* A frame is two halves, so that a write may stop inside it: "first" and  *)
(* then "rest", or "req" for the second half of the upgrade request.       *)
(***************************************************************************)
EXTENDS HvLoop

CONSTANTS
    PingLimit,  \* pings without a pong before the client closes (3 in the code)
    MaxQueue,   \* max_write_bufsize, in halves
    MaxSend     \* bound: messages the user thread sends

\* A frame fits into an empty queue.
ASSUME WsConstants == {PingLimit, MaxQueue, MaxSend} \subseteq Nat /\ MaxQueue >= 2

VARIABLES
    upc,       \* where the user thread is
    sends,     \* messages the user thread has sent
    state,     \* WebSocketClient::state, written by both threads
    status,    \* Channel::status
    io,        \* the hio: phase of the socket, reading, watch (HV_WRITE), a connect
               \* or close timer, flags, and own: it has the channel's id and callbacks
    wq,        \* write_queue: the halves not yet written
    torn,      \* the last half on the wire was a "first"
    hb,        \* the heartbeat timer is set
    ping_cnt,
    chunk,     \* what onMessage has still to parse
    srv,       \* what the server may send next
    told       \* the last callback the user has seen

wsVars == <<upc, sends, state, status, io, wq, torn, hb, ping_cnt, chunk, srv, told>>
vars == <<loopVars, wsVars>>

Frames == {"text", "ping", "pong", "close", "bad"}

TypeOK ==
    /\ LoopTypeOK
    /\ upc \in {"new", "opening", "using", "sending", "close_post", "close_state",
                "closed", "stop_post", "stop_loop", "join", "gone"}
    /\ sends \in 0..MaxSend
    /\ state \in {"CLOSED", "CONNECTING", "UPGRADING", "OPENED"}
    /\ status \in {"none", "OPENED", "CONNECTING", "CONNECTED", "CLOSED"}
    /\ io \in [phase : {"idle", "refused", "connecting", "up", "shut"},
               reading : BOOLEAN, watch : BOOLEAN, timer : BOOLEAN, error : BOOLEAN,
               close : BOOLEAN, closed : BOOLEAN, ready : BOOLEAN, own : BOOLEAN]
    /\ wq \in Seq({"first", "rest", "req"}) /\ Len(wq) <= MaxQueue
    /\ {torn, hb} \subseteq BOOLEAN
    /\ ping_cnt \in 0..(PingLimit + 1)
    /\ chunk \in Seq(Frames \cup {"101", "feed"})
    /\ srv \in {"none", "asked", "open", "done"}
    /\ told \in {"none", "open", "message", "close"}

\* The constructor: no channel, no thread.  The hio is as hio_get will leave it.
Init ==
    /\ LoopInit
    /\ upc = "new" /\ sends = 0
    /\ state = "CLOSED" /\ status = "none"
    /\ io = [phase |-> "idle", reading |-> FALSE, watch |-> FALSE, timer |-> FALSE,
             error |-> FALSE, close |-> FALSE, closed |-> FALSE, ready |-> TRUE,
             own |-> TRUE]
    /\ wq = <<>> /\ torn = FALSE
    /\ hb = FALSE /\ ping_cnt = 0
    /\ chunk = <<>> /\ srv = "none" /\ told = "none"

-----------------------------------------------------------------------------
(* The socket.                                                             *)

\* Channel::isOpened: the status, the id, hio_is_opened.
IsOpened ==
    /\ status \in {"OPENED", "CONNECTING", "CONNECTED"}
    /\ io.own /\ io.ready /\ ~io.closed

\* send() puts some halves on the wire.
Wire(s) ==
    /\ torn' = IF s = <<>> THEN torn ELSE s[Len(s)] = "first"
    /\ srv' = IF srv = "none" /\ \E i \in 1..Len(s) : s[i] = "req" THEN "asked" ELSE srv

\* What send() may put on the wire of a frame f: nothing (EAGAIN) while the
\* connection is being made, any part of it once it is up, until the fd is closed.
Accepts(h, f, n) ==
    \/ h.phase = "connecting" /\ n = 0
    \/ h.phase = "up" /\ n \in 0..Len(f)

\* hio_add for HV_WRITE.  A hio that hio_close has marked as not ready goes through
\* hio_ready: its flags are reset, and it has a new id and no callbacks.
HioAdd(h) ==
    IF h.ready
    THEN [h EXCEPT !.watch = TRUE]
    ELSE [h EXCEPT !.ready = TRUE, !.own = FALSE, !.closed = FALSE, !.close = FALSE,
                   !.error = FALSE, !.reading = FALSE, !.watch = TRUE]

\* Bug: max_write_bufsize is not looked at.
EnqueueUnlimited(h, rest) ==
    /\ wq' = wq \o rest
    /\ io' = h
    /\ NoPost

\* The rest of a frame is queued if it fits; otherwise the connection is given up.
Enqueue(h, rest) ==
    LET fits == rest = <<>> \/ Len(wq) + Len(rest) <= MaxQueue
    IN  /\ wq' = IF fits THEN wq \o rest ELSE wq
        /\ io' = [h EXCEPT !.error = @ \/ ~fits]
        /\ IF fits THEN NoPost ELSE PostEvent("hio_close")

\* send() is tried; what it does not take is queued, after HV_WRITE is registered.
TryWrite(h, f) ==
    \E n \in 0..Len(f) :
        /\ Accepts(h, f, n)
        /\ Wire(SubSeq(f, 1, n))
        /\ Enqueue(IF n < Len(f) THEN HioAdd(h) ELSE h, SubSeq(f, n + 1, Len(f)))

\* send() fails (no connection, the peer gone, the fd closed since the caller
\* tested it): the error is noted and the close is left to the loop.
WriteFails(h) ==
    /\ io' = [h EXCEPT !.error = TRUE]
    /\ PostEvent("hio_close")
    /\ UNCHANGED <<wq, torn, srv>>

\* Bug: send() is tried although something is queued.
HioWriteAtOnce(h, f) == TryWrite(h, f) \/ WriteFails(h)

\* hio_write under write_mutex, on the hio h: written at once only when nothing is
\* queued.
HioWrite(h, f) ==
    \/ /\ wq # <<>>
       /\ Enqueue(h, f)
       /\ UNCHANGED <<torn, srv>>
    \/ wq = <<>> /\ (TryWrite(h, f) \/ WriteFails(h))

\* Channel::write from the loop thread, the only thread that closes.
ChannelWrite(f) ==
    IF IsOpened
    THEN HioWrite(io, f)
    ELSE UNCHANGED <<io, wq, torn, srv>> /\ NoPost

Frame == <<"first", "rest">>

\* Bug: a close that waits is asked to wait again.
MustDrainAgain(h, err) == wq # <<>> /\ ~h.error /\ ~err

\* hio_close has to wait for the queue to drain: nothing went wrong, and it has
\* not waited before.
MustDrain(h, err) == wq # <<>> /\ ~h.error /\ ~err /\ ~h.close

\* Bug: the user hears of the close before the queue is drained.
HioCloseTells(h, err, st) ==
    /\ IF h.closed \/ MustDrain(h, err)
       THEN /\ io' = [h EXCEPT !.close = @ \/ ~h.closed, !.timer = @ \/ ~h.closed]
            /\ task' = "none"
       ELSE /\ io' = [h EXCEPT !.error = @ \/ err, !.closed = TRUE]
            /\ task' = "hio_done"
    /\ status' = st /\ told' = "close"
    /\ UNCHANGED <<wq, hb, state>>

\* hio_close in the loop thread, under write_mutex: nothing on a closed hio; later,
\* with the close timer set, when it must drain; otherwise the hio is closed, which
\* the thread goes on to carry out.  st is what the caller made of Channel::status.
HioClose(h, err, st) ==
    /\ IF h.closed \/ MustDrain(h, err)
       THEN /\ io' = [h EXCEPT !.close = @ \/ ~h.closed, !.timer = @ \/ ~h.closed]
            /\ task' = "none"
       ELSE /\ io' = [h EXCEPT !.error = @ \/ err, !.closed = TRUE]
            /\ task' = "hio_done"
    /\ status' = st
    /\ UNCHANGED <<wq, hb, state, told>>

\* Channel::close.
ChannelClose ==
    IF IsOpened
    THEN HioClose(io, FALSE, "CLOSED")
    ELSE task' = "none" /\ UNCHANGED <<io, wq, hb, status, state, told>>

-----------------------------------------------------------------------------
(* The user thread.                                                        *)

\* What no write and no callback changes of the loop.
Quiet == UNCHANGED <<customEvents, batch, pushed, hl, lpc>>

\* open(): closes nothing, as there is no channel; the name may not resolve or
\* there may be no socket; otherwise the channel, the callbacks, the thread.
OpenFails ==
    /\ upc = "new" /\ upc' = "gone"
    /\ UNCHANGED <<loopVars, sends, state, status, io, wq, torn, hb, ping_cnt, chunk, srv, told>>

Open ==
    /\ upc = "new" /\ upc' = "opening"
    /\ status' = "OPENED" /\ state' = "CONNECTING"
    /\ CreateThread
    /\ UNCHANGED <<sends, io, wq, torn, hb, ping_cnt, chunk, srv, told>>

\* start() waits until the loop of the thread runs.
OpenReturns ==
    /\ upc = "opening" /\ lpc = "run"
    /\ upc' = "using"
    /\ UNCHANGED <<loopVars, sends, state, status, io, wq, torn, hb, ping_cnt, chunk, srv, told>>

\* send(): isOpened and io->closed are tested without a lock, and closed is not
\* tested again ...
Send ==
    /\ upc = "using" /\ sends < MaxSend
    /\ sends' = sends + 1
    /\ upc' = IF IsOpened THEN "sending" ELSE "using"
    /\ UNCHANGED <<loopVars, state, status, io, wq, torn, hb, ping_cnt, chunk, srv, told>>

\* ... and the write comes after it, maybe in the middle of a close.  hio_ready
\* also takes the heartbeat's function away.
SendWrite ==
    /\ upc = "sending" /\ upc' = "using"
    /\ HioWrite(io, Frame)
    /\ hb' = (hb /\ io'.own)
    /\ Quiet /\ UNCHANGED <<turn, task>>
    /\ UNCHANGED <<sends, state, status, ping_cnt, chunk, told>>

\* Bug: a channel that is not connected yet is left to itself.
ClosesocketConnected(posting, over) ==
    IF status = "CONNECTED"
    THEN PushFunctor("close") /\ upc' = posting
    ELSE UNCHANGED loopVars /\ upc' = over

\* closesocket(), from close() and from stop(): the lambda that closes the
\* channel goes to the loop unless the channel is closed.
Closesocket(posting, over) ==
    IF status # "CLOSED"
    THEN PushFunctor("close") /\ upc' = posting
    ELSE UNCHANGED loopVars /\ upc' = over

Close ==
    /\ upc = "using"
    /\ Closesocket("close_post", "close_state")
    /\ UNCHANGED <<sends, state, status, io, wq, torn, hb, ping_cnt, chunk, srv, told>>

PostClose ==
    /\ \/ upc = "close_post" /\ upc' = "close_state"
       \/ upc = "stop_post" /\ upc' = "stop_loop"
    /\ PostFunctor
    /\ UNCHANGED <<sends, state, status, io, wq, torn, hb, ping_cnt, chunk, srv, told>>

CloseState ==
    /\ upc = "close_state" /\ upc' = "closed"
    /\ state' = "CLOSED"
    /\ UNCHANGED <<loopVars, sends, status, io, wq, torn, hb, ping_cnt, chunk, srv, told>>

\* The destructor: stop() closes the socket again, stops the loop and joins.
Stop ==
    /\ upc = "closed"
    /\ Closesocket("stop_post", "stop_loop")
    /\ UNCHANGED <<sends, state, status, io, wq, torn, hb, ping_cnt, chunk, srv, told>>

StopThread ==
    /\ upc = "stop_loop" /\ upc' = "join"
    /\ StopLoop
    /\ UNCHANGED <<sends, state, status, io, wq, torn, hb, ping_cnt, chunk, srv, told>>

Join ==
    /\ upc = "join" /\ lpc = "ended"
    /\ upc' = "gone"
    /\ UNCHANGED <<loopVars, sends, state, status, io, wq, torn, hb, ping_cnt, chunk, srv, told>>

User ==
    \/ OpenFails \/ Open \/ OpenReturns \/ Send \/ SendWrite
    \/ Close \/ PostClose \/ CloseState \/ Stop \/ StopThread \/ Join

-----------------------------------------------------------------------------
(* The loop thread: events of the loop.                                    *)

\* A callback on the socket or on a timer, after the batch of this iteration.
Handle(w) ==
    /\ Idle /\ batch = 0 /\ chunk = <<>> /\ ~io.closed
    /\ w \in turn /\ turn' = turn \ {w}
    /\ Quiet /\ UNCHANGED <<upc, sends>>

Events ==
    /\ chunk = <<>>
    /\ LoopThread \/ Poll \/ TakeEvent
    /\ UNCHANGED wsVars

\* startConnect and hio_connect: connect() fails, succeeds at once, or goes on.
StartConnect ==
    /\ task = "connect" /\ task' = "none"
    /\ status' = "CONNECTING"
    /\ \/ /\ io' = [io EXCEPT !.phase = "refused", !.error = TRUE]
          /\ PostEvent("hio_close")
       \/ io' = [io EXCEPT !.phase = "up"] /\ PostEvent("nio_connect")
       \/ /\ io' = [io EXCEPT !.phase = "connecting", !.watch = TRUE, !.timer = TRUE]
          /\ NoPost
    /\ Quiet /\ UNCHANGED turn
    /\ UNCHANGED <<upc, sends, state, wq, torn, hb, ping_cnt, chunk, srv, told>>

\* __connect_cb, on_connect, onConnection: the connect timer goes, reading starts
\* and the upgrade request is written.  The status becomes CONNECTED whatever it was.
OnConnect(h) ==
    /\ status' = "CONNECTED" /\ state' = "UPGRADING"
    /\ HioWrite([h EXCEPT !.phase = "up", !.reading = TRUE, !.timer = h.close],
                <<"first", "req">>)
    /\ UNCHANGED <<hb, told>>

\* nio_connect_event_cb: getpeername fails on a hio closed since the post, and one
\* with another id is left alone.
NioConnect ==
    /\ task = "nio_connect" /\ task' = "none"
    /\ IF io.closed \/ ~io.own
       THEN UNCHANGED <<io, wq, torn, srv, status, state, hb, told>> /\ NoPost
       ELSE OnConnect(io)
    /\ Quiet /\ UNCHANGED turn
    /\ UNCHANGED <<upc, sends, ping_cnt, chunk>>

\* The lambda of closesocket, or hio_close_event_cb, which compares the id.
CloseTask ==
    /\ \/ task = "close" /\ ChannelClose
       \/ task = "hio_close" /\ io.own /\ HioClose(io, FALSE, status)
       \/ /\ task = "hio_close" /\ ~io.own /\ task' = "none"
          /\ UNCHANGED <<io, wq, hb, status, state, told>>
    /\ NoPost /\ Quiet /\ UNCHANGED turn
    /\ UNCHANGED <<upc, sends, torn, ping_cnt, chunk, srv>>

-----------------------------------------------------------------------------
(* The loop thread: hio_close after the lock.  The user thread may write    *)
(* between any two of these steps.                                          *)

Closing == NoPost /\ Quiet /\ UNCHANGED <<turn, upc, sends, torn, ping_cnt, chunk, srv>>

\* hio_done: ready is cleared, the events are deleted, the queue is freed.
HioDone ==
    /\ task = "hio_done" /\ task' = "hio_del"
    /\ io' = [io EXCEPT !.ready = FALSE]
    /\ Closing /\ UNCHANGED <<state, status, wq, hb, told>>

HioDel ==
    /\ task = "hio_del" /\ task' = "free_queue"
    /\ io' = [io EXCEPT !.watch = FALSE, !.reading = FALSE]
    /\ Closing /\ UNCHANGED <<state, status, wq, hb, told>>

FreeQueue ==
    /\ task = "free_queue" /\ task' = "close_cb"
    /\ wq' = <<>>
    /\ Closing /\ UNCHANGED <<state, status, io, hb, told>>

\* __close_cb: the timers the hio knows of are deleted (of a close that waited twice
\* it has forgotten one), and on_close sets the status and, once startConnect has
\* set it, calls the client's onclose (the state, the user's callback).
CloseCb ==
    /\ task = "close_cb" /\ task' = "close_fd"
    /\ IF io.own
       THEN /\ \E t \in {FALSE, io.timer} : io' = [io EXCEPT !.timer = t]
            /\ hb' = FALSE /\ status' = "CLOSED"
            /\ IF io.phase = "idle"
               THEN UNCHANGED <<state, told>>
               ELSE state' = "CLOSED" /\ told' = "close"
       ELSE UNCHANGED <<io, hb, status, state, told>>
    /\ Closing /\ UNCHANGED wq

CloseFd ==
    /\ task = "close_fd" /\ task' = "none"
    /\ io' = [io EXCEPT !.phase = "shut"]
    /\ Closing /\ UNCHANGED <<state, status, wq, hb, told>>

-----------------------------------------------------------------------------
(* The loop thread: the socket and the timers.                             *)

\* hio_handle_events for HV_WRITE while connecting: the event is dropped unless
\* something was queued; nio_connect finds the connection made or refused.
ConnectReady ==
    /\ Handle("io") /\ io.watch /\ io.phase = "connecting"
    /\ \/ OnConnect([io EXCEPT !.watch = (wq # <<>>)]) /\ UNCHANGED task
       \/ /\ HioClose(io, TRUE, status)
          /\ NoPost /\ UNCHANGED <<torn, srv>>
    /\ UNCHANGED <<ping_cnt, chunk>>

\* Bug: HV_WRITE is dropped without a look at the queue.
WritableOnce ==
    /\ Handle("io") /\ io.watch /\ io.phase = "up"
    /\ \E n \in 0..Len(wq) :
           /\ Wire(SubSeq(wq, 1, n))
           /\ wq' = SubSeq(wq, n + 1, Len(wq))
           /\ task' = IF n = Len(wq) /\ io.close THEN "drained" ELSE "none"
    /\ io' = [io EXCEPT !.watch = FALSE]
    /\ NoPost /\ UNCHANGED <<hb, status, state, told, ping_cnt, chunk>>

\* nio_write under write_mutex: what send() takes of the queue.  The event stays
\* registered until the queue is seen empty.
Writable ==
    /\ Handle("io") /\ io.watch /\ io.phase = "up"
    /\ \E n \in 0..Len(wq) :
           /\ Wire(SubSeq(wq, 1, n))
           /\ wq' = SubSeq(wq, n + 1, Len(wq))
           /\ task' = IF n = Len(wq) /\ io.close THEN "drained" ELSE "none"
    /\ io' = [io EXCEPT !.watch = (wq # <<>>)]
    /\ NoPost /\ UNCHANGED <<hb, status, state, told, ping_cnt, chunk>>

\* After the lock: a drained queue lets the close that waited go on, or wait
\* again if something has been queued since.
Drained ==
    /\ task = "drained"
    /\ HioClose([io EXCEPT !.close = FALSE], FALSE, status)
    /\ Closing

\* nio_read or nio_write fails: the error is noted and hio_close does not wait.
Broken ==
    /\ Handle("io")
    /\ io.reading \/ (io.watch /\ io.phase = "up")
    /\ HioClose(io, TRUE, status)
    /\ NoPost /\ UNCHANGED <<torn, ping_cnt, chunk, srv>>

\* Bug: a close that waits sets no timer.
TimeoutConnecting ==
    /\ Handle("timer")
    /\ io.phase = "connecting"
    /\ HioClose(io, TRUE, status)
    /\ NoPost /\ UNCHANGED <<torn, ping_cnt, chunk, srv>>

\* The connect timer, the close timer of a close that waits, or one that hio_ready
\* made the hio forget: the same.
Timeout ==
    /\ Handle("timer") /\ io.timer
    /\ HioClose(io, TRUE, status)
    /\ NoPost /\ UNCHANGED <<torn, ping_cnt, chunk, srv>>

\* nio_read returns 0: the server has closed its side.
ReadEof ==
    /\ Handle("io") /\ io.reading
    /\ srv' = "done"
    /\ HioClose(io, FALSE, status)
    /\ NoPost /\ UNCHANGED <<torn, ping_cnt, chunk>>

\* External: what a server may send, one or two messages in one read.  It answers
\* the request once it has it, and sends nothing after a close frame.
ServerSends ==
    CASE srv = "asked" -> {<<"101">>, <<"bad">>} \cup {<<"101", "feed", f>> : f \in Frames}
      [] srv = "open" -> {<<f>> : f \in Frames}
                         \cup {<<f, g>> : f \in Frames \ {"close", "bad"}, g \in Frames}
      [] OTHER -> {}

\* nio_read: onMessage looks at the state once for what one read brings.
Read ==
    /\ Handle("io") /\ io.reading
    /\ \E c \in ServerSends :
           /\ srv' = IF c[Len(c)] \in {"close", "bad"} THEN "done" ELSE "open"
           /\ chunk' = IF state \in {"UPGRADING", "OPENED"} THEN c ELSE <<>>
    /\ NoPost /\ UNCHANGED <<task, state, status, io, wq, torn, hb, ping_cnt, told>>

-----------------------------------------------------------------------------
(* The loop thread: onMessage.                                             *)

\* The message at the head of what was read.
Parsing(m) ==
    /\ Idle /\ chunk # <<>> /\ Head(chunk) = m
    /\ Quiet /\ UNCHANGED <<turn, upc, sends>>

\* The response is complete and right: the state, the heartbeat, onopen, in which
\* mod_funasr sends its parameters.
Upgraded ==
    /\ Parsing("101") /\ chunk' = Tail(chunk)
    /\ state' = "OPENED" /\ ping_cnt' = 0 /\ hb' = TRUE
    /\ told' = "open"
    /\ ChannelWrite(Frame)
    /\ UNCHANGED <<task, status>>

\* The rest of the read is parsed only if the state is still WS_OPENED.
Feed ==
    /\ Parsing("feed")
    /\ chunk' = IF state = "OPENED" THEN Tail(chunk) ELSE <<>>
    /\ NoPost /\ UNCHANGED <<task, state, status, io, wq, torn, hb, ping_cnt, srv, told>>

Text ==
    /\ Parsing("text") /\ chunk' = Tail(chunk)
    /\ told' = "message"
    /\ NoPost /\ UNCHANGED <<task, state, status, io, wq, torn, hb, ping_cnt, srv>>

Ping ==
    /\ Parsing("ping") /\ chunk' = Tail(chunk)
    /\ ChannelWrite(Frame)
    /\ UNCHANGED <<task, state, status, hb, ping_cnt, told>>

Pong ==
    /\ Parsing("pong") /\ chunk' = Tail(chunk)
    /\ ping_cnt' = 0
    /\ NoPost /\ UNCHANGED <<task, state, status, io, wq, torn, hb, srv, told>>

\* A close frame is sent back before the channel is closed.
CloseFrame ==
    /\ Parsing("close") /\ chunk' = Tail(chunk)
    /\ ChannelWrite(Frame)
    /\ task' = "close"
    /\ UNCHANGED <<state, status, hb, ping_cnt, told>>

\* A response or a frame that does not parse closes the channel.
ParseError ==
    /\ Parsing("bad") /\ chunk' = Tail(chunk)
    /\ ChannelClose
    /\ NoPost /\ UNCHANGED <<torn, ping_cnt, srv>>

\* The heartbeat: ping_cnt++ == 3 closes, otherwise a ping.  The counter is kept
\* below PingLimit + 2: past the limit its value is not looked at.
Heartbeat ==
    /\ Handle("timer") /\ hb
    /\ ping_cnt' = IF ping_cnt > PingLimit THEN ping_cnt ELSE ping_cnt + 1
    /\ \/ /\ ping_cnt = PingLimit
          /\ ChannelClose
          /\ NoPost /\ UNCHANGED <<torn, srv>>
       \/ /\ ping_cnt # PingLimit
          /\ ChannelWrite(Frame)
          /\ UNCHANGED <<task, hb, status, state, told>>
    /\ UNCHANGED chunk

\* hloop_run returns and hloop_cleanup frees the hio, closing it if hio_close will.
Leave ==
    /\ chunk = <<>>
    /\ LeaveLoop
    /\ HioClose(io, FALSE, status)
    /\ UNCHANGED <<upc, sends, torn, ping_cnt, chunk, srv>>

End == EndLoop /\ UNCHANGED wsVars

Closes == HioDone \/ HioDel \/ FreeQueue \/ CloseCb \/ CloseFd \/ Drained

Loop ==
    \/ Events \/ StartConnect \/ NioConnect \/ CloseTask \/ Closes \/ End
    \/ ConnectReady \/ Writable \/ Broken \/ Timeout \/ ReadEof \/ Read
    \/ Upgraded \/ Feed \/ Text \/ Ping \/ Pong \/ CloseFrame \/ ParseError
    \/ Heartbeat \/ Leave

\* The client is gone.
Done == upc = "gone" /\ UNCHANGED vars

Next == User \/ Loop \/ Done

Spec == Init /\ [][Next]_vars

(***************************************************************************)
(* Fairness.  An iteration of hloop_process_events polls the eventfd and   *)
(* the sockets, runs every timer that is due, and ends: no reader starves  *)
(* an event or a timer, and a loop that is to stop leaves (SF, because     *)
(* each waits while another callback runs).  A callback that was entered   *)
(* runs on, and so does a user thread inside a call.  Nothing is assumed   *)
(* of the server or of the network, nor that the user ever calls.          *)
(***************************************************************************)
Callback ==
    \/ StartConnect \/ NioConnect \/ CloseTask \/ Closes \/ End
    \/ Upgraded \/ Feed \/ Text \/ Ping \/ Pong \/ CloseFrame \/ ParseError

InCall == OpenReturns \/ SendWrite \/ PostClose \/ CloseState \/ StopThread \/ Join

FairSpec ==
    /\ Spec
    /\ WF_vars(Callback) /\ WF_vars(InCall)
    /\ SF_vars(Events) /\ SF_vars(Timeout) /\ SF_vars(Heartbeat) /\ SF_vars(Leave)

-----------------------------------------------------------------------------
(* Properties.                                                             *)

(***************************************************************************)
(* Frames stay whole on the wire of an open connection: whoever writes (the *)
(* user thread, a pong, a ping, the upgrade request), what is queued        *)
(* continues the frame that was cut, no frame starts inside another, and    *)
(* the rest of a cut frame is never dropped.                                *)
(***************************************************************************)
FramesWhole ==
    io.own /\ ~io.closed =>
        /\ torn => wq # <<>>
        /\ \A i \in 1..Len(wq) :
               (wq[i] = "first") <=> IF i = 1 THEN ~torn ELSE wq[i - 1] # "first"

(***************************************************************************)
(* What is queued is looked after: a hio with something queued has HV_WRITE *)
(* registered, or the loop thread is on its way to free the queue, although *)
(* the user thread queues while the loop thread drops the event of an empty *)
(* queue or closes.  Excepted is the hio that a write in the middle of the  *)
(* close made ready again: its queue is never written and never freed.      *)
(***************************************************************************)
QueueIsWatched ==
    wq # <<>> /\ io.own =>
        \/ io.watch /\ ~io.closed
        \/ task \in {"hio_done", "hio_del", "free_queue"}

(***************************************************************************)
(* When the loop thread has ended, the socket is closed and onclose has     *)
(* been called, unless the lambda of closesocket was still waiting to run,  *)
(* or, for onclose, a write in the middle of the close took it away.        *)
(***************************************************************************)
ClosedWhenEnded ==
    lpc = "ended" /\ customEvents = <<>> =>
        io.phase = "shut" /\ (told = "close" \/ ~io.own)

(***************************************************************************)
(* The callbacks come as WsSession promises, whichever of the two sides,   *)
(* the network, the heartbeat or the destructor ends the connection.       *)
(***************************************************************************)
Session == INSTANCE WsSession WITH ended <- (lpc = "ended")

ImplementsSession == Session!Spec

(***************************************************************************)
(* A ping does not stay open for ever: a pong comes, or the user hears     *)
(* that the connection is closed, even when the peer takes nothing more    *)
(* and the queue never drains, or the loop ends; or a send() in the middle *)
(* of the close made the hio ready again, which is then closed unheard.    *)
(***************************************************************************)
PingAnswered ==
    ping_cnt > 0 ~> ping_cnt = 0 \/ told = "close" \/ lpc = "ended" \/ ~io.own

(***************************************************************************)
(* A user that has called close() hears onclose, whatever the connection   *)
(* was doing, unless it destroys the client first or one of its sends came *)
(* in the middle of a close that was going on already.                     *)
(***************************************************************************)
CloseHeard == upc = "closed" ~> told = "close" \/ lpc = "ended" \/ ~io.own

=============================================================================
