# Verification of the FreeSWITCH speech modules

TLA+ models, TLC runs and TLAPS proofs for the code this repository adds to
FreeSWITCH: streaming speech recognition (`mod_funasr`), streaming speech
synthesis (`mod_aliyun_tts`), the audio queue between the media thread and the
recogniser, the changed `switch_ivr_play_say.c` that plays, records, speaks and
asks, and the part of the vendored libhv that both modules stand on: its event
loop and WebSocket client.
Paths below are relative to `src/` of the repository.

## 1. The system

A call is a *session* with a *channel*; the core runs one session thread per
call. The dialplan makes that thread call the applications of the modules. The
modules talk to their servers over WebSockets; every `WebSocketClient` of libhv
has callbacks that run on an event loop thread. The hard part of the code is
who may still touch an object when: the objects are pools freed by a detached
thread, flags are atomics or plain `int`s set one at a time, and nearly every
wait has a time limit.

| Component | State it keeps | Operations | Hard behaviours |
|---|---|---|---|
| Audio queue, `src/include/audio_queue.h` | byte buffer, mutex, condition, `read_bytes`, `write_bytes`, `waiting` | create, write, read (blocking or not), clear, signal, destroy | stores of `clear` after the unlock; lost and spurious wake-ups; timeouts; a full buffer |
| FunASR recognition, `mod_funasr.cpp` | one `switch_da` per `start_asr`: flags `hangup`, `ws_connected`, `ws_closed`, `paused`, retry counter, audio queue; per attempt a client and its locals | `start_asr`, `pause_asr`, `stop_asr`, hangup, media bug INIT/READ/CLOSE, sender thread, reconnection, `destroy()`, `onopen`/`onmessage`/`onclose` | three threads on one object, hand-over of the object at a reconnection, wait without a loop in `destroy()`, late callbacks |
| Access token, `getToken` of `mod_aliyun_tts.cpp` and `AccessToken.hpp` | one token and its expiry for all sessions, a mutex | `getToken`, `AccessToken::apply` | double-checked test without the lock, time taken before the lock, exceptions |
| Synthesis session, `mod_aliyun_tts.cpp` | one `aliyuntts_t` per speech handle: ten atomics, an audio buffer, a text queue | `speech_open`, `feed_tts`, `read_tts`, `flush_tts`, `speech_close`, `aliyuntts_resume`, worker thread, WebSocket callbacks, delayed completion thread, `destroy()` | session, worker, loop and delayed threads on single atomics; requests, answers and resets racing; connection failures; destruction |
| Speaking, `switch_ivr_play_say.c` 2744-3179 | a speech handle, codec and timer, per call or cached on the channel; recursion counter; audio absorbing thread | `switch_ivr_speak_text`, `switch_ivr_speak_text_handle`, `switch_ivr_clear_speech_cache` | many exits, a cache that survives calls, hangup at any step, hold and pause |
| Playing and recording, same file 39-2500 | files, codecs, a timer and buffers on the stack of a call; pointers to them in the session and on the channel | `switch_ivr_play_file`, `_record_file_event`, `_gentones`, `_wait_for_silence`, `_detect_audio`, `_detect_silence`, `_phrase_macro_event`, `_get_file_handle` | early returns, other threads that follow the pointers (`uuid_fileman`, video, media), "say:" files that call the synthesis |
| Asking, same file 2502-2742, 3265-3609 | digits so far, terminator, what of digits and speech is done, the recognition result | `switch_ivr_read`, `switch_play_and_get_digits`, `switch_ivr_play_and_collect_input` and its callback | digits, results, timeouts and hangup in any order, during the prompt and after it |
| libhv client, `libs/libhv/evpp`, `event`, `http/client` | per client a loop thread, two queues of posted work, a socket with a write queue, channel and client state | `open`, `send`, `close`, destructor; connect, read, write, timers and cleanup on the loop thread | two threads on one socket, partial writes, deferred close, posted work against the end of the loop |
| rest of libhv, rapidjson, cpputils, configuration, SQL, sounds | vendored code or data | | not modelled |

Interactions: `switch_ivr_speak_text` calls the speech interface of
`mod_aliyun_tts` (open, feed, read, flush, close) on the session thread;
`speech_open` calls `getToken`; `mod_funasr`'s READ callback writes the audio
queue and its sender thread reads it; both modules reach their object through a
private pointer of the channel; both own a `WebSocketClient` whose callbacks are
the third actor in their models; a file "say:..." of `switch_ivr_play_file` is a
call of `switch_ivr_speak_text`.

What makes each component correct:

* queue: nobody sleeps over data that is there, the counters are the totals
  their comments promise, a blocking read gives whole frames and returns;
* recogniser: an object has one owner at a time, is destroyed once and only
  after the hangup, no thread uses it afterwards, the server gets the parameters
  before audio, a pause mutes, a stop drains and frees;
* token: a token handed out is fresh, sessions do not renew it one after the
  other, a failure does not block the others;
* synthesis: no use after `destroy()`, queued texts are sent in order and not
  lost, playback events pair up, the queue drains, a close destroys;
* speaking: no closed handle is used, no exit leaks, a hangup ends everything;
* playing and recording: whatever another thread can find is alive, and every
  return leaves the session as it was, except for leaks that are named;
* asking: digits are kept in order, a recognised text is not lost, what is handed
  back is what was asked for, and the question ends;
* libhv client: posted work is done once, frames are whole, callbacks come in the
  promised order, a close and a dead peer are noticed.

## 2. The modules

Each component has a module with its state and actions, an `MC` module with the
sets TLC needs, and a `Proofs` module. `PROJECT.json` maps every definition to
the lines it models.

* **AudioQueue** - `inuse`, `read_bytes`, `write_bytes` and `waiting` are the
  fields of `struct audio_queue`; `pc`, `reg`, `len` and `status` are the locals
  of the calls. A function is one step where it holds the mutex, except that
  `x += n` on a counter is a load and a store, because the three stores of
  `audio_queue_clear` come after its unlock and can fall between the two.
  Bytes are counted, not represented.
* **FunAsr** - objects are `Pvts`, sender threads are pairs of an object and an
  attempt. The session thread's steps are `SessionNext`, a sender's
  `SenderStep`, the callbacks carry the loop thread. The audio queue is a
  bounded sequence of `"voice"` and `"silence"` frames here, which is what
  AudioQueue shows its functions to provide. `Faults` names what may fail.
  `StartAsr` is one step: the thread, which its last call creates, is the first
  that could see a part of it. A hangup leaves the channel's private as it is
  (no line of the module clears it); no application of an ended session runs.
  `woken` are the objects whose wait in `destroy()` returned without a signal.
* **TokenCache** - a token is known by its expiry time; the string and its
  expiry are two variables written in two steps, and a copy made while the
  string is assigned is marked torn.
* **AliyunTts** - the atomics of `struct aliyuntts` are variables; a thread's
  position is `pc`, the callback's is `cb`. Loads between two stores belong to
  one step, each store of `send_tts_request` is one. `Resume` is a call on the
  session thread before `speech_close`. `read_audio_data` only ends a 20 ms wait early and is left out;
  `last_request_time_ms` only limits waits, and a wait may end at any moment.
  The buffer has no mutex, so an access that overlaps a write leaves any amount
  in it. The server is external: it begins a task, sends its header and frames,
  completes, rejects a request that comes during a task (status 40010005), or
  falls silent.
* **AudioPipe** - what the queue promises: chunks go in whole or not at all, a
  read takes at most a frame, and less than that only after a timeout.
  `AudioQueue` implements it (`ImplementsPipe`): the pipe
  holds what the buffer holds, and its reader waits while the queue's is blocked
  or woken.
* **SpeakText** - `place` says whether a call uses its own variables or those
  of the cached object; handles, codecs and timers are followed from creation
  to release. Core functions (`switch_channel_pre_answer`, codec, timer, session
  destruction) are external.
* **PlayFile** extends SpeakText. `held` is what the running call owns, `refs`
  what the session and its channel point to; `ppc` is where the call stands. A
  step is what lies between two points at which another thread can see a
  difference, so withdrawing a pointer and destroying its target are two steps.
  Audio, seeking, volume and events are left out; whether a frame comes from the
  file or a buffer, and whether an input handler stops the playback, are choices.
  `decoded` counts how often a recording has raised `CF_VIDEO_DECODED_READ`
  (548, 653) and not cleared it again (735, 974); the flag of the core counts too.
  The three detectors share their actions: they differ in what they count.
* **CollectInput** extends PlayFile. `st` is `switch_collect_input_state_t`; one
  `Round` of the prompt or of `switch_ivr_sleep` hands a digit and then an event
  to the callback. `switch_ivr_sleep` and `switch_ivr_collect_digits_count` belong
  to the core. A digit is "1" or the terminator "#". `play_and_get_digits` is
  asked for any minimum up to its maximum.
* **HvLoop** - the two halves of `EventLoop::postEvent` (functor, then custom
  event) are two steps, the eventfd is a counter; `task` is the callback, or the
  part of `hio_close`, the loop thread is in. After `hloop_run` the thread is
  "leaving" while `hloop_cleanup` closes the socket, then "ended".
* **WsClient** extends HvLoop with one connection. A frame is two halves, so that
  a write can stop inside it; `io` is the `hio_t`. `isOpened` and the write that
  follows are two steps of the user thread. `hio_close` is six: the critical
  section that sets `closed` (`HioClose`), then without the lock `ready` = 0
  (`HioDone`), the events (`HioDel`), the queue (`FreeQueue`), `__close_cb`
  (`CloseCb`) and `closesocket` (`CloseFd`); a `send()` that tested `closed`
  before may come between any two. `HioAdd` is `hio_add` with `hio_ready`, which
  such a send runs when it meets a hio that is no longer ready; `io.own` says
  that the hio still has the channel's id and callbacks. `Drained` is the part of
  `nio_write` after its unlock (358-361). The timers a hio knows of are one
  Boolean; one it has lost track of may fire or not.
* **WsSession** - the order of callbacks a user may rely on; WsClient implements
  it (`ImplementsSession`).

AliyunTts justifies an assumption of SpeakText: every wait in `read_tts` is
bounded, so a blocking read returns.

## 3. Runs

| Run | Checks | Shows |
|---|---|---|
| `audio_queue` | `TypeOK NoLostWakeup TotalsMatch ImplementsPipe ReadReturns` | a writer and a reader that also clears, with timeouts and spurious wake-ups |
| `asr_session` | `SessionSeesLivePvt CallbacksSeeLivePvt StreamingIsFed` | two `start_asr` in one call without reconnection, failing bugs, threads and names, spurious wake-ups |
| `asr_live` | `SingleOwner AudioAfterInit StopDrains PauseTakesEffect` | one reconnection, a failing resampler, slow closes, spurious wake-ups; liveness |
| `asr_reconnect` (violation) | `StreamingIsFed` | after a reconnection nothing is sent or reported |
| `asr_lost_wakeup` (violation) | `HangupFrees` | a hangup between the test and the wait of `destroy()` is missed |
| `token_cache` | `FreshEnough RenewedOnce LockReleased` | two sessions, failed and hung requests, expiry |
| `tts_session` | `SessionSeesLivePvt CallbacksSeeLivePvt QueueFaithful PlaybackEventsPaired QueueDrains CloseDestroys` | a handle from open to destroy with outages |
| `tts_overlap` (violation) | `OneOutstanding` | two requests can be outstanding |
| `tts_underrun` (violation) | `OnlyHeaderSkipped` | real audio is skipped as a header |
| `ivr` | `SpeaksOpenHandle CallLeavesNothing HangupReleases` (speaking), `CommanderSeesOpenFile SessionPointsAtLive ReturnsClean FirstFileKeepsSpeed` (playing, recording), `DigitsInOrder TextKept AcceptedDigits AskEnds` (asking) | two calls of any kind, every failure, a `uuid_fileman`, a recognizer, a break or hangup anywhere |
| `collect_no_match` (violation) | `ResultEndsWait` | a result without text does not end the question |
| `ws_client` | `TypeOK EventsAccounted FramesWhole QueueIsWatched ClosedWhenEnded ImplementsSession PingAnswered CloseHeard` | a user thread against the loop thread, sends in the middle of a close, partial writes, broken connections, any server |

### The disagreements

1. `asr_reconnect`. The first attempt's `onclose` path sets `ws_closed`
   (`mod_funasr.cpp` 376) and nothing resets it. The comment "add function to
   reconnect..." (387) promises a recognition that goes on, but READ drops every
   frame and `fireAsrEvent` every result.
2. `asr_lost_wakeup`. `destroy()` tests `hangup` outside `write_mutex` (117);
   the CLOSE callback can set it and signal before the wait begins, and "wait for
   session hangup" (118) lasts for ever.
3. `tts_overlap`. The worker loads `synthesisCompleted` (675), a `feed_tts`
   passes the check and marks its request (482), and the worker then clears the
   mark (677). The next request is sent while the first is being served, which
   the check "An ongoing TTS request is in progress, cannot send new request"
   (473-476) is there to prevent.
4. `tts_underrun`. An answer that pauses for two seconds makes `read_tts` clear
   `audio_data_available` (1105); the next packet is then skipped as "the first
   audio data ... not audio data" (391), although it is audio.
5. `collect_no_match`. `begin-speaking` sets `is_speech` (`switch_ivr_play_say.c`
   3345); a result without text, or "closed", sets SPEECH_DONE to "stop waiting
   for speech" (3320, 3340). While `is_speech` is set the digit timeout is not
   looked at (3542), and only a digit clears it: the collection waits for a digit
   or the hangup.

Seen while modelling. They are hazards with a note, are stated as exceptions of a
property, or lie outside what a property of this code could ask:

* recogniser: `ws_connected` survives the attempt that set it (291). If the first
  attempt opens and is closed, and READ queues a frame before `ws_closed` is set,
  the second attempt sends that frame while it is still upgrading, before its
  parameters. `AudioAfterInit` makes an exception of an attempt that follows an
  opened one, and holds on every other attempt. The wait of `destroy()` (119) is
  not in a loop, and an object it frees without a signal is still reachable:
  `SessionSeesLivePvt` makes an exception of that object. Between the flag and the
  signal of CLOSE (437-441) the object may be destroyed; the property is about
  READ, `pause_asr` and `stop_asr`;
* token: a failed `apply` returns the cached token, where `mod_aliyun_tts.cpp` 128
  says "otherwise returns empty string";
* synthesis: `destroy()` does not wait for the delayed completion threads (337),
  and a failed `speech_open` destroys the object under its own `onclose` (251);
* speaking: a second close of a cached handle on the error paths (3129, 3145); after
  a change of engine with a cached handle the channel speaks nothing any more,
  because `need_create` stays 0 (3060);
* recording: when the write codec fails the file stays open (621), the read codec
  is never destroyed, the indication and video files stay open at the end, a
  missing video takes one from the recursion counter too often (553), and
  `CF_VIDEO_DECODED_READ`, raised at 548 on every video channel, is cleared on no
  way out (735 and 974 undo 653). `ReturnsClean` lists exactly these;
* playing: in a second file `last_speed` survives and `sp_audio_buffer` does not
  (1845); `FirstFileKeepsSpeed` is therefore about the first;
* asking: `read_terminator_used` is never cleared (2581), so that a later
  `play_and_get_digits` with `min_digits` 0 can succeed without input; a second
  result without text overwrites the first without freeing it (3326);
  `min_digits` above 100 can never be met (3446);
* libhv: `hio_write` tests `closed` without the lock (`nio.c` 484) and not again,
  and `hio_close` gives the lock back (588) before it takes the hio down. A send
  that has passed the test, comes after `ready` = 0 (`hevent.c` 168) and gets
  EAGAIN from the descriptor, which is still open, runs `hio_add` and with it
  `hio_ready` (`hloop.c` 780), which resets `closed`, `close_cb`, the heartbeat
  and the id. Its frame is queued on a socket that is about to be closed and never
  written; `onclose` is not called unless `__close_cb` had come first; the user's
  `close()` does nothing, because `isOpened` compares the id. The comments at
  `Channel.h` 144 and 180 call write and close thread-safe. The model has this
  outcome (`~io.own`); `QueueIsWatched`, `ClosedWhenEnded` (as to `onclose`),
  `PingAnswered` and `CloseHeard` make an exception of it, and `FramesWhole` is
  about a hio that is open. Every other place where a send can fall into a close
  is covered. What such a send does when the descriptor's number has been given
  out again meanwhile is not modelled;
* libhv: a `stop()` before `hloop_run` has stored its status is lost (EventLoop.h
  68); a hio with something queued is freed without a close when the loop ends before
  the lambda of `close()` ran, which `ClosedWhenEnded` exempts; a message sent
  before the connection is up is queued ahead of the upgrade request; `onopen`
  can come after the user's `close()`.

## 4. Bounds

* AudioQueue: the unit is half a frame; capacity 5, frame 2, writes of 1 or 2, so
  that the buffer fills with half a frame to spare. `MaxBytes` = 8 lets the
  buffer fill, drain and fill again, and a clear happen at every point.
* FunAsr: one object and `RetryMax` = 1, the code's default, is the smallest
  instance with a hand-over and with an attempt that follows another; two objects
  without reconnection is the smallest with overlapping recognitions. A queue of 1 or 2 frames is empty, partly full and full. The two
  objects are interchangeable, which the safety run uses as symmetry.
* TokenCache: `Margin` 2, `Life` 4 and a clock up to 7 let a token be fresh, at
  exactly the margin, near expiry and expired, and be renewed twice.
* AliyunTts: two texts are needed to have one in progress and one waiting, one
  frame beside the header to underrun, and a buffer of one frame to overflow. Of
  the faults `slow_connect` and `slow_close` are left out of `tts_session`: they
  let `destroy()` overtake `onclose`, and `CallbacksSeeLivePvt` does not hold
  then (the code's time limits are 3.5 s and the connection timeout).
* Ivr: two calls, so that what the first leaves behind meets the second (a cached
  handle replaced by another engine's, a "say:" inside a playback, a call inside
  a phrase macro); two files, two digits of which one may be the terminator, two
  events of the recognizer, two tries. `pre_answer` fails only after a hangup.
* WsClient: the queue holds two frames, so that a third overflows it while the
  first is cut; a frame fits into an empty queue (`MaxQueue` is at least 2, where
  the code has 16 MB); one ping may stay open where the code allows three; the user
  thread sends one message, at any time, beside what the loop thread writes (the
  upgrade request, the message of `onopen`, pings, pongs and the close frame), so
  that it can meet a queue, overflow it or fall into a close. The server sends up to
  two messages in one read and nothing after a close frame. `stop()` comes after
  the loop thread has entered `hloop_run`.

The proofs (section 6) remove these bounds for the properties they cover.

`CHECK_DEADLOCK FALSE` is set where a call ends and nothing remains to do.

## 5. Fairness

Threads that can run do run (weak fairness of the steps of a thread), a close
that was asked for is carried out by the loop thread, and time passes, so that a
timed wait which nothing else ends does end. In the IVR the write lock of
`Unpublish` has strong fairness: `uuid_fileman` gives its read lock back after
each command, and the core's lock does not starve a writer. In WsClient the
events, timers and the end of the loop have strong fairness: each iteration of
`hloop_process_events` polls the eventfd and runs the timers that are due, but
each waits while another callback runs. In AudioQueue the timeout has
strong fairness, since a spurious wake-up disables and re-enables it. Nothing is
assumed of calls a user decides to make (feeding, pausing, hanging up), of new
connections, or of the server beyond this: a server that has not gone silent
finishes an answer. In TokenCache a request is answered, fails or
hangs: `AccessToken.hpp` sets no time limit on `curl_easy_perform` and runs it
with the lock, so a server that never answers stops every session whose token is
expiring. `LockReleased` exempts the hung request, and the run sets
`CHECK_DEADLOCK FALSE` because all sessions may then wait for it.

## 6. Proofs

Each safety theorem has the form `Spec => []P` and follows from an inductive
invariant by `Init`, one step per action, and `PTL`. The only assumptions are
the named ones on the constants (`QueueAssumption`, `FunAsrAssumption`,
`TokenAssumption`, `AliyunTtsAssumption`, `SpeakTextAssumption`,
`PlayFileAssumption`, `CollectInputAssumption`, `WsConstants`), which TLC evaluates in the runs.

* **AudioQueueProofs**: `TypeCorrect`, `WakeupCorrect` (`NoLostWakeup`),
  `TotalsCorrect` (`TotalsMatch`), for any number of writers and clearers.
  `QueueImplementsPipe` is the refinement, step by step. `NoLostWakeup` is not
  inductive alone: `MutexInv` says that a thread inside a
  counter update owns the mutex. The totals need `Accounts`, the balance of the
  counters and the buffer at each half of an update.
* **FunAsrProofs**: `TypeCorrect`, `SingleOwnerCorrect`, `SessionSafe`,
  `DestroySafe`, for any number of objects and retries. `RetryInv` ties the
  running attempt to `ws_conn_retry`, which makes the hand-over at a reconnection
  exclusive; `OwnerInv` says that a running sender's object is live. `LifeInv`
  adds that `hangup` is set only for an object the session can no longer reach.
  `SessionSafe` and `DestroySafe` hold for every fault; they leave out the
  objects in `woken`, which a spurious wake-up frees as if the session had hung
  up, and `SessionSafe` says nothing of CLOSE between its flag and its signal.
  `CallbacksSafe` (`CallbacksSeeLivePvt`) holds for any number of reconnections
  and with spurious wake-ups; it excludes the two faults that let the sender go on
  without `onclose`, a close slower than its wait and a resampler that cannot be
  made. `FreshInv` says that the attempts of an object are made one after the
  other, `QuietInv` that an attempt past its wait has no callback left.
  `InitFirst` (`AudioAfterInit`) holds for every retry limit: `OrderInv` says that
  the flag a sender waits for was set by an `onopen`, which has sent the
  parameters, of its own connection or of an earlier one, and that an attempt not
  yet made has opened nothing. `StreamFed` (`StreamingIsFed`) is about sessions
  without reconnection, as its run is: with one, `ws_closed` is still set, which is
  the disagreement that `asr_reconnect` shows.
* **TokenCacheProofs**: `TypeCorrect`, `RenewedOnceCorrect`, `FreshCorrect`, for
  any number of callers and any margin and life. `LockInv` and `TimeInv` say who
  renews and how far ahead of the cache a received token is; `FreshInv` that the
  string is never older than the expiry, because it is stored first.
* **AliyunTtsProofs**: `TypeCorrect`, `SessionSafe`, `CallbacksSafe`,
  `PlaybackPaired`, `QueueCorrect`, for any number of texts and frames and any
  capacity. `LifeInv` orders open, worker, close and destroy; `CbInv` (without
  `slow_close`) that nothing runs on the loop once `ws_closed` is set;
  `PlayInv` counts the events with the one about to be fired; `QueueInv` states
  `QueueFaithful` index by index, so that an append and a removal are local.
* **SpeakTextProofs**: `TypeCorrect`, `CallClean`, `CacheCorrect`,
  `SpeaksCorrect`, for any engines and number of calls. `LocalInv` says in which
  order a call fills its variables; `ReadyInv`, for `SpeaksOpenHandle`, that a
  ready codec has an open handle while the channel is up. It needs that
  `pre_answer` fails only on a channel that was hung up.
* **IvrProofs**: `CommanderSafe` (`CommanderSeesOpenFile`), `SessionSafe`
  (`SessionPointsAtLive`), `ReturnsCorrect` (`ReturnsClean`), about all functions
  of switch_ivr_play_say.c together, for any number of calls and files. The
  properties speak of pointers only; `PointInv` gives, for each place of a call,
  what the session may point to and what the call still holds, and `BookInv` what
  a call has borrowed (event, service thread, prefix, recursion counter, decoding
  flag) and has to give back. `SpeedCorrect` (`FirstFileKeepsSpeed`) rests on `SpeedInv`: in the
  first file `last_speed` is noted only together with the buffer.
* **CollectInputProofs**: `DigitsCorrect` (`DigitsInOrder`), `TextCorrect`
  (`TextKept`), `AcceptedCorrect` (`AcceptedDigits`), for any digit limits, tries
  and recognizer events. `Kept` states the order index by index; `TextInv` that a
  text is never held where another event can come, because it has ended prompt,
  sleep and loop; `ReadInv` bounds the buffer of a try before it is answered.
* **WsClientProofs**: `WatchCorrect` (`QueueIsWatched`), `FramesCorrect`
  (`FramesWhole`), `TypesCorrect` (`TypeOK`), `AccountsCorrect`
  (`EventsAccounted`), `EndCorrect` (`ClosedWhenEnded`) and the refinement
  `SessionCorrect` (`ImplementsSession`), for every queue limit of at least one
  frame, every ping limit and any number of messages. They come from one
  inductive invariant, `ClientInv`, because with sends between the steps of a
  close no property stands alone:
  - `QueueInv`: `FramesWhole` and `QueueIsWatched` with `EndsWhole` (a queue ends
    at the end of a frame), `ReadyInv` (only a hio being closed is not ready) and
    `ChainInv` (during the steps of a close the hio is closed, or a write has
    taken it from the channel);
  - `LoopInv`: the types of the loop, `EventsAccounted`, and where the user thread
    is when the loop is where it is;
  - `FirstInv`: the "connect" functor and its event are the first of their queues,
    so that `startConnect` precedes every other callback; `FreshInv`: until then
    nothing is written, told or closed; `ConnectInv`: `nio_connect` comes once and
    the server is asked once;
  - `ShutInv`: a closed hio, or one taken from the channel, has its descriptor
    closed or the loop thread is about to; the write that took it was the user's
    only one under way, so that no second write can meet it. `ToldInv`: `onclose`
    is called in the course of the close and once;
  - `TellInv`: what can be left of a read for each callback already called;
  - `EndInv`: a close that was asked for is not lost before the loop ends, also
    when it waits for the queue.

## 7. Only model-checked

Liveness (`ReadReturns`, `StopDrains`, `PauseTakesEffect`, `LockReleased`,
`QueueDrains`, `CloseDestroys`, `HangupReleases`, `AskEnds`, `PingAnswered`,
`CloseHeard`) is out of the prover's reach. Every safety property of a passing run
is proved.

## 8. Not modelled, and what is left

Of the code that the repository writes or changes: allocation failures at the
start of `start_asr` and `speech_open`; configuration and loading of the modules;
the JSON of requests and results; the PCM dump files; calls of `aliyuntts_resume`
after `speech_close`; handlers that call these functions recursively inside
`switch_ivr_parse_all_events`; `switch_ivr_soft_hold` (3182-3263), a bridge of two
sessions that the core carries out; the terminator modes `+`, `x` and `=`, digit
machines and the pausing of the recognizer in a collection; the expansion of `*`
and `#` in a text (2788-2822).

Of libhv: everything that the two modules do not run, which is most of the
repository's lines. `cpputil/json.hpp` alone has 25,447; the HTTP server and
router, KCP, MQTT, TLS backends, the poll backends of other platforms, the
protocol parsers and the examples are third-party code that is built, but not
used, or is a pure function on data. Of what is used, DNS, TLS, the
redirect of the upgrade response (`WebSocketClient.cpp` 113-124, which the map
leaves out), reconnection and a loop shared by several clients are left out. A model of a
large share of these lines would say nothing about the modules here.

Left for the future, in this order:

1. **SpeakAliyun**: SpeakText composed with AliyunTts through the speech
   interface, where a second close or a freed text pointer (2827) becomes
   visible; an abstract engine that AliyunTts implements and SpeakText relies on.
2. FunAsr and AliyunTts over WsClient instead of their own external loop thread.
3. The text expansion as a function on sequences against a reference definition;
   its size limit is that of a pointer.
4. Proofs of further action properties: what a reconnection of FunAsr resets and
   what it keeps.

## 9. Running

```
tlc -workers 2 -config AliyunTts.cfg MCAliyunTts
tlapm AliyunTtsProofs.tla
```

The longest runs are `ivr` (about a million distinct states, two minutes),
`ws_client` (290,713, two minutes, most of it for the liveness properties) and
`tts_session` (634,903, one minute); the others take seconds.
