----------------------------- MODULE SpeakText -----------------------------
(***************************************************************************)
(* switch_ivr_speak_text, switch_ivr_speak_text_handle and                 *)
(* switch_ivr_clear_speech_cache: how a session opens, uses and releases a *)
(* speech handle, a codec and a timer, for each call or kept in a cache.   *)
(*                                                                         *)
(* The session thread makes one call after the other.  Any other thread    *)
(* may at any time hang the channel up or set and clear its flags.         *)
(* switch_core_speech_read_tts returns after a bounded wait (mod_aliyun_tts *)
(* limits each of its own).  What runs inside switch_ivr_parse_all_events  *)
(* is not modelled.                                                        *)
(***************************************************************************)
EXTENDS Integers

CONSTANTS
    TtsNames,   \* engines the dialplan speaks with
    MaxCalls,   \* bound: calls of switch_ivr_speak_text
    Faults      \* what may go wrong

FaultKinds == {"open",         \* the module cannot open a handle
               "codec",        \* switch_core_codec_init fails
               "timer",        \* switch_core_timer_init fails
               "pre_answer"}   \* pre_answer fails on a channel that is up

ASSUME SpeakTextAssumption ==
    /\ MaxCalls \in Nat
    /\ Faults \subseteq FaultKinds
    /\ "none" \notin TtsNames

\* A call works on its own variables or on those of the cache_obj.
Places == {"local", "cache"}

VARIABLES
    pc,
    place,      \* the variables the running call uses
    need_create,
    timer_name, \* does the running call have one?
    sh,         \* speech handles: "open", or "none" when failed or closed
    codec,      \* codecs: "ready", or "none" when failed or destroyed
    timer,      \* timers: "running", or "none" when failed or destroyed
    cached,     \* tts_name of the channel's cache_obj, or "none"
    absorber,   \* is the thread that absorbs incoming audio running?
    loops,      \* args->loops, the recursion check's counter
    hungup, CF_BREAK, CF_HOLD, paused,
    calls

resources == <<sh, codec, timer, cached>>
flags == <<hungup, CF_BREAK, CF_HOLD, paused>>
vars == <<pc, place, need_create, timer_name, resources, absorber, loops, flags,
          calls>>

Init ==
    /\ pc = "idle" /\ place = "local" /\ need_create = TRUE /\ timer_name = FALSE
    /\ sh = [p \in Places |-> "none"]
    /\ codec = [p \in Places |-> "none"]
    /\ timer = [p \in Places |-> "none"]
    /\ cached = "none"
    /\ absorber = FALSE /\ loops = 0
    /\ hungup = FALSE /\ CF_BREAK = FALSE /\ CF_HOLD = FALSE /\ paused = FALSE
    /\ calls = 0

\* switch_channel_pre_answer: fails once the channel is hung up.
PreAnswerFails == hungup \/ "pre_answer" \in Faults
PreAnswers == ~hungup

\* What destroying and closing leaves of a codec, a timer and a handle.
Destroyed(c) == IF c = "ready" THEN "none" ELSE c
Stopped(t) == IF t = "running" THEN "none" ELSE t
Closed(h) == IF h = "open" THEN "none" ELSE h

\* switch_ivr_clear_speech_cache, applied to the resources h, c and t.
ClearSpeechCache(h, c, t) ==
    IF cached = "none"
    THEN sh' = h /\ codec' = c /\ timer' = t /\ UNCHANGED cached
    ELSE /\ sh' = [h EXCEPT !["cache"] = Closed(@)]
         /\ codec' = [c EXCEPT !["cache"] = Destroyed(@)]
         /\ timer' = [t EXCEPT !["cache"] = Stopped(@)]
         /\ cached' = "none"

-----------------------------------------------------------------------------
(* switch_ivr_speak_text                                                   *)

\* The first failure leaves nothing to undo.
CallRefused ==
    /\ pc = "idle" /\ calls < MaxCalls /\ PreAnswerFails
    /\ calls' = calls + 1
    /\ UNCHANGED <<pc, place, need_create, timer_name, resources, absorber,
                   loops, flags>>

\* Fresh variables in the given place; memset of a handle that is created.
Fresh(p) ==
    /\ sh' = [sh EXCEPT ![p] = "none"]
    /\ codec' = [codec EXCEPT ![p] = "none"]
    /\ timer' = [timer EXCEPT ![p] = "none"]

\* Look for a cached handle.  One of another engine is closed and its object
\* used for this engine, but need_create stays 0.
LookUp(tts_name) ==
    \/ /\ place' = "local" /\ need_create' = TRUE
       /\ Fresh("local") /\ UNCHANGED cached
    \/ /\ place' = "cache" /\ cached = "none"
       /\ need_create' = TRUE
       /\ Fresh("cache") /\ cached' = tts_name
    \/ /\ place' = "cache" /\ cached = tts_name
       /\ need_create' = FALSE
       /\ UNCHANGED resources
    \/ /\ place' = "cache" /\ cached \notin {"none", tts_name}
       /\ need_create' = FALSE
       /\ sh' = [sh EXCEPT !["cache"] = Closed(@)]
       /\ codec' = [codec EXCEPT !["cache"] = Destroyed(@)]
       /\ timer' = [timer EXCEPT !["cache"] = Stopped(@)]
       /\ cached' = tts_name

Call(tts_name) ==
    /\ pc = "idle" /\ calls < MaxCalls /\ PreAnswers
    /\ calls' = calls + 1
    /\ loops' = loops + 1
    /\ LookUp(tts_name)
    /\ timer_name' \in BOOLEAN
    /\ pc' = "open"
    /\ UNCHANGED <<absorber, flags>>

\* An error return after the recursion check has started.
Fail == pc' = "idle" /\ loops' = loops - 1
CallFrame == UNCHANGED <<place, need_create, timer_name, flags, calls>>

OpenHandle ==
    /\ pc = "open" /\ need_create
    /\ \/ /\ sh' = [sh EXCEPT ![place] = "open"]
          /\ pc' = "pre_answer"
          /\ UNCHANGED <<codec, timer, cached, loops>>
       \/ /\ "open" \in Faults
          /\ ClearSpeechCache([sh EXCEPT ![place] = "none"], codec, timer)
          /\ Fail
    /\ CallFrame /\ UNCHANGED absorber

ReuseHandle ==
    /\ pc = "open" /\ ~need_create
    /\ pc' = "pre_answer"
    /\ CallFrame /\ UNCHANGED <<resources, absorber, loops>>

\* The second pre_answer: its failure closes the handle, but leaves it and
\* its codec in the cache.
PreAnswerAgain ==
    /\ pc = "pre_answer"
    /\ \/ PreAnswers /\ pc' = "codec" /\ UNCHANGED <<resources, loops>>
       \/ /\ PreAnswerFails
          /\ sh' = [sh EXCEPT ![place] = Closed(@)]
          /\ Fail /\ UNCHANGED <<codec, timer, cached>>
    /\ CallFrame /\ UNCHANGED absorber

\* Mutant: the handle stays open when the codec cannot be initialised.
InitCodecLeaks ==
    /\ pc = "codec"
    /\ \/ /\ codec' = IF need_create THEN [codec EXCEPT ![place] = "ready"]
                      ELSE codec
          /\ pc' = "timer"
          /\ UNCHANGED <<sh, timer, cached, loops>>
       \/ /\ need_create /\ "codec" \in Faults
          /\ ClearSpeechCache(sh, codec, timer)
          /\ Fail
    /\ CallFrame /\ UNCHANGED absorber

InitCodec ==
    /\ pc = "codec"
    /\ \/ /\ codec' = IF need_create THEN [codec EXCEPT ![place] = "ready"]
                      ELSE codec
          /\ pc' = "timer"
          /\ UNCHANGED <<sh, timer, cached, loops>>
       \/ /\ need_create /\ "codec" \in Faults
          /\ ClearSpeechCache([sh EXCEPT ![place] = Closed(@)], codec, timer)
          /\ Fail
    /\ CallFrame /\ UNCHANGED absorber

\* With a timer, a thread absorbs the audio that comes in meanwhile.
InitTimer ==
    /\ pc = "timer"
    /\ \/ /\ timer' = IF timer_name /\ need_create
                      THEN [timer EXCEPT ![place] = "running"] ELSE timer
          /\ absorber' = timer_name
          /\ pc' = "handle"
          /\ UNCHANGED <<sh, codec, cached, loops>>
       \/ /\ timer_name /\ need_create /\ "timer" \in Faults
          /\ ClearSpeechCache([sh EXCEPT ![place] = Closed(@)],
                              [codec EXCEPT ![place] = Destroyed(@)], timer)
          /\ Fail /\ UNCHANGED absorber
    /\ CallFrame

-----------------------------------------------------------------------------
(* switch_ivr_speak_text_handle                                            *)

HandleFrame == CallFrame /\ UNCHANGED <<resources, absorber>>
Goto(l) == pc' = l /\ UNCHANGED loops

\* Mutant: the codec is not looked at.
StartUnchecked ==
    /\ pc = "handle"
    /\ \/ PreAnswerFails /\ Goto("finish")
       \/ PreAnswers /\ pc' = "loop" /\ loops' = loops + 1
    /\ HandleFrame

\* Feed the text, unless the channel or the codec is not ready.
Start ==
    /\ pc = "handle"
    /\ \/ PreAnswerFails /\ Goto("finish")
       \/ PreAnswers /\ codec[place] # "ready" /\ Goto("finish")
       \/ PreAnswers /\ codec[place] = "ready" /\ pc' = "loop"
          /\ loops' = loops + 1
    /\ HandleFrame

\* The top of the loop: hangup, break, input (a digit or an event whose
\* handler may stop the speech), pause.
LoopTop ==
    /\ pc = "loop"
    /\ \/ hungup /\ Goto("flush") /\ UNCHANGED CF_BREAK
       \/ ~hungup /\ CF_BREAK /\ CF_BREAK' = FALSE /\ Goto("flush")
       \/ ~hungup /\ ~CF_BREAK /\ Goto("flush") /\ UNCHANGED CF_BREAK
       \/ /\ ~hungup /\ ~CF_BREAK
          /\ Goto(IF paused THEN "time" ELSE "read") /\ UNCHANGED CF_BREAK
    /\ UNCHANGED <<place, need_create, timer_name, hungup, CF_HOLD, paused,
                   calls, resources, absorber>>

\* Blocking read of the next frame and its write to the channel.  The read
\* fails at the end of the speech.
ReadAndWrite ==
    /\ pc = "read"
    /\ Goto("time") \/ Goto("flush")
    /\ HandleFrame

\* A frame's time passes on the timer or by reading a frame of the channel,
\* after which the channel may be on hold.
NextFrame ==
    /\ pc = "time"
    /\ IF timer_name
       THEN \/ timer[place] = "running" /\ Goto("loop")
            \/ timer[place] # "running" /\ Goto("flush")
       ELSE Goto("hold")
    /\ HandleFrame

\* Mutant: a hold is waited out on a channel that is gone.
HoldEndsUnheld ==
    /\ pc = "hold"
    /\ ~CF_HOLD
    /\ Goto("loop") \/ Goto("flush")
    /\ HandleFrame

\* Wait while on hold; then go on, or stop on a read error or a callback.
HoldEnds ==
    /\ pc = "hold"
    /\ hungup \/ ~CF_HOLD
    /\ Goto("loop") \/ Goto("flush")
    /\ HandleFrame

Flush ==
    /\ pc = "flush"
    /\ pc' = "finish" /\ loops' = loops - 1
    /\ HandleFrame

\* Back in switch_ivr_speak_text: a handle that is not cached is closed.
Finish ==
    /\ pc = "finish"
    /\ IF place = "local"
       THEN /\ sh' = [sh EXCEPT !["local"] = Closed(@)]
            /\ codec' = [codec EXCEPT !["local"] = Destroyed(@)]
            /\ timer' = [timer EXCEPT !["local"] = Stopped(@)]
       ELSE UNCHANGED <<sh, codec, timer>>
    /\ absorber' = (absorber /\ ~timer_name)
    /\ Fail
    /\ CallFrame /\ UNCHANGED cached

-----------------------------------------------------------------------------
(* The rest of the core                                                    *)

\* The core destroys the session of a channel that is hung up and clears its
\* speech cache.
EndSession ==
    /\ pc = "idle" /\ hungup
    /\ ClearSpeechCache(sh, codec, timer)
    /\ pc' = "gone"
    /\ CallFrame /\ UNCHANGED <<absorber, loops>>

Hangup == ~hungup /\ hungup' = TRUE /\ UNCHANGED <<CF_BREAK, CF_HOLD, paused>>
Break == CF_BREAK' = TRUE /\ UNCHANGED <<hungup, CF_HOLD, paused>>
Hold == CF_HOLD' = ~CF_HOLD /\ UNCHANGED <<hungup, CF_BREAK, paused>>
Pause == paused' = ~paused /\ UNCHANGED <<hungup, CF_BREAK, CF_HOLD>>
Others ==
    /\ Hangup \/ Break \/ Hold \/ Pause
    /\ UNCHANGED <<pc, place, need_create, timer_name, resources, absorber,
                   loops, calls>>

SessionRuns ==
    \/ OpenHandle \/ ReuseHandle \/ PreAnswerAgain \/ InitCodec \/ InitTimer
    \/ Start \/ LoopTop \/ ReadAndWrite \/ NextFrame \/ HoldEnds \/ Flush
    \/ Finish \/ EndSession

Next ==
    \/ CallRefused \/ (\E n \in TtsNames : Call(n))
    \/ SessionRuns \/ Others

Spec == Init /\ [][Next]_vars

\* The session thread runs.
FairSpec == Spec /\ WF_vars(SessionRuns)

-----------------------------------------------------------------------------
(* Properties                                                              *)

\* Types; the recursion counter is at most that of the two nested functions.
TypeOK ==
    /\ pc \in {"idle", "open", "pre_answer", "codec", "timer", "handle", "loop",
               "read", "time", "hold", "flush", "finish", "gone"}
    /\ place \in Places
    /\ need_create \in BOOLEAN /\ timer_name \in BOOLEAN
    /\ sh \in [Places -> {"none", "open"}]
    /\ codec \in [Places -> {"none", "ready"}]
    /\ timer \in [Places -> {"none", "running"}]
    /\ cached \in TtsNames \cup {"none"}
    /\ absorber \in BOOLEAN /\ loops \in 0..2
    /\ hungup \in BOOLEAN /\ CF_BREAK \in BOOLEAN
    /\ CF_HOLD \in BOOLEAN /\ paused \in BOOLEAN
    /\ calls \in 0..MaxCalls

Released(p) == sh[p] # "open" /\ codec[p] # "ready" /\ timer[p] # "running"

\* Text is fed to, and audio read from and flushed in, an open handle, with a
\* codec that is ready; also when the handle comes from the cache and another
\* call, for another engine, closed it or failed with it.
SpeaksOpenHandle ==
    pc \in {"loop", "read", "time", "hold", "flush"}
        => sh[place] = "open" /\ codec[place] = "ready"

\* Whichever way a call returns, what it created for itself is released, the
\* recursion counter is back at zero and nothing absorbs the channel's audio.
CallLeavesNothing ==
    pc \in {"idle", "gone"} => Released("local") /\ loops = 0 /\ ~absorber

\* What is live in a cache_obj can be found by switch_ivr_clear_speech_cache.
CacheReachable == cached = "none" => Released("cache")

\* After a hangup the call ends, on hold and paused too, and in the end every
\* handle, codec and timer is released.
HangupReleases ==
    hungup ~> pc = "gone" /\ Released("local") /\ Released("cache")
=============================================================================
