------------------------------- MODULE HvLoop -------------------------------
(***************************************************************************)
(* The event loop of libhv as a WebSocketClient uses it: EventLoop.h and   *)
(* EventLoopThread.h over event/hloop.c.  Another thread hands work to the *)
(* loop thread in two steps: it pushes a functor on EventLoop's            *)
(* customEvents (under mutex_) and then posts a custom event to the loop   *)
(* (under custom_events_mutex), which adds one to an eventfd and appends   *)
(* to custom_events.  The loop reads the eventfd, which empties it, and    *)
(* takes that many events; an event of the EventLoop runs the functor at   *)
(* the head of customEvents, whichever post it came from.                  *)
(***************************************************************************)
EXTENDS Naturals, Sequences, FiniteSets

VARIABLES
    customEvents,   \* functors pushed and not yet run (EventLoop.h)
    custom_events,  \* events posted and not yet taken (hloop.c)
    eventfd,        \* the counter of the eventfd
    batch,          \* events eventfd_read_cb has still to take
    pushed,         \* the user thread is between its push and its post
    turn,           \* what this iteration may still look at: sockets, timers
    task,           \* the callback the loop thread is about to run
    hl,             \* hloop status: "stop", "running"
    lpc             \* loop thread: "none", "start", "run", "leaving", "ended"

loopVars == <<customEvents, custom_events, eventfd, batch, pushed, turn, task, hl, lpc>>

LoopTypeOK ==
    /\ customEvents \in Seq({"connect", "close"})
    /\ custom_events \in Seq({"functor", "wakeup", "hio_close", "nio_connect"})
    /\ {eventfd, batch} \subseteq Nat
    /\ pushed \in BOOLEAN
    /\ turn \subseteq {"io", "timer"}
    /\ task \in {"none", "connect", "close", "hio_close", "nio_connect", "drained",
                 "hio_done", "hio_del", "free_queue", "close_cb", "close_fd"}
    /\ hl \in {"stop", "running"}
    /\ lpc \in {"none", "start", "run", "leaving", "ended"}

LoopInit ==
    /\ customEvents = <<>> /\ custom_events = <<>>
    /\ eventfd = 0 /\ batch = 0
    /\ pushed = FALSE /\ turn = {} /\ task = "none"
    /\ hl = "stop" /\ lpc = "none"

\* hloop_post_event: one more in the eventfd and one more event, under the lock.
PostEvent(e) ==
    /\ custom_events' = Append(custom_events, e)
    /\ eventfd' = eventfd + 1

NoPost == UNCHANGED <<custom_events, eventfd>>

\* EventLoopThread::start, user side: the thread is created.
CreateThread ==
    /\ lpc' = "start"
    /\ UNCHANGED <<customEvents, custom_events, eventfd, batch, pushed, turn, task, hl>>

\* loop_thread: queueInLoop(pre), then run() up to the first poll of hloop_run.
LoopThread ==
    /\ lpc = "start"
    /\ customEvents' = Append(customEvents, "connect")
    /\ PostEvent("functor")
    /\ hl' = "running" /\ lpc' = "run"
    /\ UNCHANGED <<batch, pushed, turn, task>>

\* postEvent, first half: the functor is pushed.
PushFunctor(f) ==
    /\ customEvents' = Append(customEvents, f)
    /\ pushed' = TRUE
    /\ UNCHANGED <<custom_events, eventfd, batch, turn, task, hl, lpc>>

\* postEvent, second half: hloop_post_event.
PostFunctor ==
    /\ PostEvent("functor")
    /\ pushed' = FALSE
    /\ UNCHANGED <<customEvents, batch, turn, task, hl, lpc>>

\* The loop thread is between two callbacks.
Idle == lpc = "run" /\ task = "none"

\* Bug: the count read from the eventfd is taken for a flag.
PollOnce ==
    /\ Idle /\ hl = "running" /\ batch = 0
    /\ batch' = (IF eventfd > 0 THEN 1 ELSE 0) /\ eventfd' = 0
    /\ turn' = {"io", "timer"}
    /\ UNCHANGED <<customEvents, custom_events, pushed, task, hl, lpc>>

\* The last iteration is over (what it left was not ready) and hloop_process_events
\* begins one: the read of the eventfd, which has the highest priority, returns its
\* count and clears it; sockets and timers come after the batch.
Poll ==
    /\ Idle /\ hl = "running" /\ batch = 0
    /\ batch' = eventfd /\ eventfd' = 0
    /\ turn' = {"io", "timer"}
    /\ UNCHANGED <<customEvents, custom_events, pushed, task, hl, lpc>>

\* One round of eventfd_read_cb: an empty queue ends the batch; a wakeup has no
\* callback; onCustomEvent takes the functor at the head of customEvents.
TakeEvent ==
    /\ Idle /\ batch > 0
    /\ IF custom_events = <<>>
       THEN /\ batch' = 0
            /\ UNCHANGED <<customEvents, custom_events, task>>
       ELSE /\ batch' = batch - 1
            /\ custom_events' = Tail(custom_events)
            /\ CASE Head(custom_events) = "functor" ->
                      /\ task' = Head(customEvents)
                      /\ customEvents' = Tail(customEvents)
                 [] Head(custom_events) = "wakeup" ->
                      UNCHANGED <<task, customEvents>>
                 [] OTHER -> task' = Head(custom_events) /\ UNCHANGED customEvents
    /\ UNCHANGED <<eventfd, pushed, turn, hl, lpc>>

\* EventLoop::stop and hloop_stop from the user thread: wake the loop, then the
\* status.  EventLoop::run has entered hloop_run by then (see the README).
StopLoop ==
    /\ PostEvent("wakeup")
    /\ hl' = "stop"
    /\ UNCHANGED <<customEvents, batch, pushed, turn, task, lpc>>

\* hloop_run returns: hloop_cleanup frees the hio, which its caller models, and
\* drops the events; the functors stay behind.
LeaveLoop ==
    /\ Idle /\ hl = "stop" /\ batch = 0
    /\ custom_events' = <<>> /\ eventfd' = 0
    /\ lpc' = "leaving" /\ turn' = {}
    /\ UNCHANGED <<customEvents, batch, pushed, hl>>

\* The thread ends.
EndLoop ==
    /\ lpc = "leaving" /\ task = "none" /\ lpc' = "ended"
    /\ UNCHANGED <<customEvents, custom_events, eventfd, batch, pushed, turn, task, hl>>

\* The places of a queue of events that hold a functor's event.
Functors(q) == {i \in DOMAIN q : q[i] = "functor"}

(***************************************************************************)
(* No event is lost and none runs twice: as long as the loop runs, the     *)
(* eventfd and the rest of the batch together announce exactly the events  *)
(* that are queued, and every functor has its event, posted or about to be *)
(* posted by the thread that pushed it.                                    *)
(***************************************************************************)
EventsAccounted ==
    lpc \notin {"leaving", "ended"} =>
        /\ Len(custom_events) = eventfd + batch
        /\ Len(customEvents) =
               Cardinality(Functors(custom_events)) + (IF pushed THEN 1 ELSE 0)

=============================================================================
