-------------------------- MODULE SpeakTextProofs --------------------------
(***************************************************************************)
(* Theorems about SpeakText, for any engines, any number of calls and      *)
(* every fault except where one is excluded.                               *)
(***************************************************************************)
EXTENDS SpeakText, TLAPS

USE SpeakTextAssumption DEF SpeakTextAssumption

Speaking == {"loop", "read", "time", "hold", "flush"}
Idle == {"idle", "gone"}
Creating == {"open", "pre_answer", "codec"}

-----------------------------------------------------------------------------
(* The inductive invariant                                                 *)

\* The recursion counter is determined by where the call is.
LoopsInv ==
    /\ pc \in Idle => loops = 0
    /\ pc \in Speaking => loops = 2
    /\ pc \notin Idle \cup Speaking => loops = 1

\* The call's own variables are used by a call without a cache only, and fill
\* up in the order of its steps.
LocalInv ==
    /\ pc \in Idle \/ place = "cache" => Released("local")
    /\ ~need_create => place = "cache"
    /\ pc \in Creating /\ place = "local" => codec["local"] = "none"
    /\ pc \in Creating \cup {"timer"} /\ place = "local"
         => timer["local"] = "none"

\* The audio is absorbed only while a call with a timer speaks.
AbsorberInv ==
    absorber => timer_name /\ pc \in Speaking \cup {"handle", "finish"}

\* A call that uses the cache has its object published.
CacheInv ==
    /\ pc \notin Idle /\ place = "cache" => cached # "none"
    /\ CacheReachable

IInv == TypeOK /\ LoopsInv /\ LocalInv /\ AbsorberInv /\ CacheInv

LEMMA InitInv == Init => IInv
<1> SUFFICES ASSUME Init PROVE IInv
  OBVIOUS
<1>1. /\ need_create \in BOOLEAN /\ timer_name \in BOOLEAN
      /\ absorber \in BOOLEAN /\ hungup \in BOOLEAN /\ CF_BREAK \in BOOLEAN
      /\ CF_HOLD \in BOOLEAN /\ paused \in BOOLEAN
  BY Zenon DEF Init
<1>2. TypeOK
  BY <1>1 DEF Init, TypeOK, Places
<1>3. LoopsInv /\ LocalInv /\ AbsorberInv /\ CacheInv
  BY DEF Init, LoopsInv, LocalInv, AbsorberInv, CacheInv, CacheReachable,
         Released, Places, Idle, Speaking, Creating
<1> QED
  BY <1>2, <1>3 DEF IInv

\* What switch_ivr_clear_speech_cache leaves.
LEMMA Cleared ==
    ASSUME NEW h \in [Places -> {"none", "open"}],
           NEW c \in [Places -> {"none", "ready"}],
           NEW t \in [Places -> {"none", "running"}],
           cached = "none" => /\ h["cache"] # "open" /\ c["cache"] # "ready"
                              /\ t["cache"] # "running",
           ClearSpeechCache(h, c, t)
    PROVE  /\ sh' \in [Places -> {"none", "open"}]
           /\ codec' \in [Places -> {"none", "ready"}]
           /\ timer' \in [Places -> {"none", "running"}]
           /\ cached' = "none" /\ Released("cache")'
           /\ sh'["local"] = h["local"] /\ codec'["local"] = c["local"]
           /\ timer'["local"] = t["local"]
BY DEF ClearSpeechCache, Released, Closed, Destroyed, Stopped, Places

\* An error return that has closed the handle of its place, clears the cache.
LEMMA FailInv ==
    ASSUME IInv, pc \in Creating \cup {"timer"}, place = "cache" \/ need_create,
           NEW h \in [Places -> {"none", "open"}],
           NEW c \in [Places -> {"none", "ready"}],
           h[place] # "open", c["local"] # "ready",
           \A p \in Places \ {place} : h[p] = sh[p] /\ c[p] = codec[p],
           ClearSpeechCache(h, c, timer), Fail, CallFrame, UNCHANGED absorber
    PROVE  IInv'
<1> USE DEF IInv, TypeOK, LoopsInv, LocalInv, AbsorberInv, CacheInv,
            CacheReachable, Released, Places, Idle, Speaking, Creating,
            flags, CallFrame, Fail
<1>1. cached = "none" => /\ h["cache"] # "open" /\ c["cache"] # "ready"
                         /\ timer["cache"] # "running"
  OBVIOUS
<1>2. /\ sh' \in [Places -> {"none", "open"}]
      /\ codec' \in [Places -> {"none", "ready"}]
      /\ timer' \in [Places -> {"none", "running"}]
      /\ cached' = "none" /\ Released("cache")'
      /\ sh'["local"] = h["local"] /\ codec'["local"] = c["local"]
      /\ timer'["local"] = timer["local"]
  BY <1>1, Cleared
<1>3. pc' = "idle" /\ loops' = 0
  OBVIOUS
<1>4. TypeOK'
  BY <1>2, <1>3
<1>5. LoopsInv' /\ LocalInv' /\ AbsorberInv' /\ CacheInv'
  BY <1>2, <1>3
<1> QED
  BY <1>4, <1>5

LEMMA StepInv == IInv /\ [Next]_vars => IInv'
<1> SUFFICES ASSUME IInv, [Next]_vars PROVE IInv'
  OBVIOUS
<1> DEFINE Inv == LoopsInv /\ LocalInv /\ AbsorberInv /\ CacheInv
<1>i. IInv' <=> TypeOK' /\ Inv'
  BY DEF IInv
<1> USE DEF IInv, TypeOK, LoopsInv, LocalInv, AbsorberInv, CacheInv,
            CacheReachable, Released, Places, Idle, Speaking, Creating,
            resources, flags, CallFrame, HandleFrame, Fail, Goto
<1>1. CASE CallRefused
  BY <1>1 DEF CallRefused
<1>2. ASSUME NEW n \in TtsNames, Call(n) PROVE IInv'
  <2>1. need_create' \in BOOLEAN /\ timer_name' \in BOOLEAN
    BY <1>2 DEF Call, LookUp
  <2>2. TypeOK'
    BY <1>2, <2>1 DEF Call, LookUp, Fresh, Closed, Destroyed, Stopped
  <2>3. Inv'
    BY <1>2 DEF Call, LookUp, Fresh, Closed, Destroyed, Stopped
  <2> QED BY <2>2, <2>3, <1>i
<1>3. CASE OpenHandle
  <2>1. CASE UNCHANGED <<codec, timer, cached, loops>>
    <3>1. TypeOK'
      BY <1>3, <2>1 DEF OpenHandle
    <3>2. Inv'
      BY <1>3, <2>1 DEF OpenHandle
    <3> QED BY <3>1, <3>2, <1>i
  <2>2. CASE /\ ClearSpeechCache([sh EXCEPT ![place] = "none"], codec, timer)
             /\ Fail
    <3> DEFINE h == [sh EXCEPT ![place] = "none"]
               c == codec
    <3>1. /\ h \in [Places -> {"none", "open"}]
          /\ c \in [Places -> {"none", "ready"}]
          /\ h[place] # "open" /\ c["local"] # "ready"
          /\ \A p \in Places \ {place} : h[p] = sh[p] /\ c[p] = codec[p]
      BY <1>3 DEF OpenHandle, Closed, Destroyed
    <3>2. /\ ClearSpeechCache(h, c, timer) /\ Fail /\ CallFrame
          /\ UNCHANGED absorber /\ pc \in Creating \cup {"timer"}
          /\ place = "cache" \/ need_create
      BY <1>3, <2>2 DEF OpenHandle
    <3> HIDE DEF h, c
    <3> QED BY <3>1, <3>2, FailInv
  <2> QED BY <1>3, <2>1, <2>2 DEF OpenHandle
<1>4. CASE ReuseHandle
  BY <1>4 DEF ReuseHandle
<1>5. CASE PreAnswerAgain
  <2>1. TypeOK'
    BY <1>5 DEF PreAnswerAgain, Closed
  <2>2. Inv'
    BY <1>5 DEF PreAnswerAgain, Closed
  <2> QED BY <2>1, <2>2, <1>i
<1>6. CASE InitCodec
  <2>1. CASE pc' = "timer"
    <3>1. TypeOK'
      BY <1>6, <2>1 DEF InitCodec
    <3>2. Inv'
      BY <1>6, <2>1 DEF InitCodec
    <3> QED BY <3>1, <3>2, <1>i
  <2>2. CASE /\ ClearSpeechCache([sh EXCEPT ![place] = Closed(@)], codec, timer)
             /\ Fail
    <3> DEFINE h == [sh EXCEPT ![place] = Closed(@)]
               c == codec
    <3>1. /\ h \in [Places -> {"none", "open"}]
          /\ c \in [Places -> {"none", "ready"}]
          /\ h[place] # "open" /\ c["local"] # "ready"
          /\ \A p \in Places \ {place} : h[p] = sh[p] /\ c[p] = codec[p]
      BY <1>6 DEF InitCodec, Closed, Destroyed
    <3>2. /\ ClearSpeechCache(h, c, timer) /\ Fail /\ CallFrame
          /\ UNCHANGED absorber /\ pc \in Creating \cup {"timer"}
          /\ place = "cache" \/ need_create
      BY <1>6, <2>2 DEF InitCodec
    <3> HIDE DEF h, c
    <3> QED BY <3>1, <3>2, FailInv
  <2> QED BY <1>6, <2>1, <2>2 DEF InitCodec
<1>7. CASE InitTimer
  <2>1. CASE pc' = "handle"
    <3>0. absorber' \in BOOLEAN
      BY <1>7, <2>1 DEF InitTimer
    <3>1. TypeOK'
      BY <1>7, <2>1, <3>0 DEF InitTimer
    <3>2. Inv'
      BY <1>7, <2>1 DEF InitTimer
    <3> QED BY <3>1, <3>2, <1>i
  <2>2. CASE /\ ClearSpeechCache([sh EXCEPT ![place] = Closed(@)],
                                 [codec EXCEPT ![place] = Destroyed(@)], timer)
             /\ Fail /\ UNCHANGED absorber
    <3> DEFINE h == [sh EXCEPT ![place] = Closed(@)]
               c == [codec EXCEPT ![place] = Destroyed(@)]
    <3>1. /\ h \in [Places -> {"none", "open"}]
          /\ c \in [Places -> {"none", "ready"}]
          /\ h[place] # "open" /\ c["local"] # "ready"
          /\ \A p \in Places \ {place} : h[p] = sh[p] /\ c[p] = codec[p]
      BY <1>7 DEF InitTimer, Closed, Destroyed
    <3>2. /\ ClearSpeechCache(h, c, timer) /\ Fail /\ CallFrame
          /\ UNCHANGED absorber /\ pc \in Creating \cup {"timer"}
          /\ place = "cache" \/ need_create
      BY <1>7, <2>2 DEF InitTimer
    <3> HIDE DEF h, c
    <3> QED BY <3>1, <3>2, FailInv
  <2> QED BY <1>7, <2>1, <2>2 DEF InitTimer
<1>8. CASE Start \/ LoopTop \/ ReadAndWrite \/ NextFrame \/ HoldEnds \/ Flush
  <2>1. CF_BREAK' \in BOOLEAN
    BY <1>8 DEF Start, LoopTop, ReadAndWrite, NextFrame, HoldEnds, Flush
  <2>2. TypeOK'
    BY <1>8, <2>1 DEF Start, LoopTop, ReadAndWrite, NextFrame, HoldEnds, Flush
  <2>3. Inv'
    BY <1>8 DEF Start, LoopTop, ReadAndWrite, NextFrame, HoldEnds, Flush
  <2> QED BY <2>2, <2>3, <1>i
<1>9. CASE Finish
  <2>1. absorber' \in BOOLEAN
    <3>1. CASE timer_name
      BY <1>9, <3>1 DEF Finish
    <3>2. CASE ~timer_name
      BY <1>9, <3>2 DEF Finish
    <3> QED BY <3>1, <3>2
  <2>2. TypeOK'
    BY <1>9, <2>1 DEF Finish, Closed, Destroyed, Stopped
  <2>3. ~absorber'
    BY <1>9 DEF Finish
  <2>4. LoopsInv' /\ AbsorberInv'
    BY <1>9, <2>3 DEF Finish
  <2>5. LocalInv' /\ CacheInv'
    BY <1>9 DEF Finish, Closed, Destroyed, Stopped
  <2> QED BY <2>2, <2>4, <2>5, <1>i
<1>10. CASE EndSession
  BY <1>10, Cleared DEF EndSession
<1>11. CASE Others
  <2>1. /\ hungup' \in BOOLEAN /\ CF_BREAK' \in BOOLEAN
        /\ CF_HOLD' \in BOOLEAN /\ paused' \in BOOLEAN
    BY <1>11 DEF Others, Hangup, Break, Hold, Pause
  <2> QED BY <1>11, <2>1 DEF Others
<1>12. CASE UNCHANGED vars
  BY <1>12 DEF vars
<1> QED
  BY <1>1, <1>2, <1>3, <1>4, <1>5, <1>6, <1>7, <1>8, <1>9, <1>10, <1>11, <1>12
  DEF Next, SessionRuns

-----------------------------------------------------------------------------
(* Theorems                                                                *)

\* In every execution of switch_ivr_speak_text the types hold.
THEOREM TypeCorrect == Spec => []TypeOK
<1>1. IInv => TypeOK
  BY DEF IInv
<1> QED
  BY <1>1, InitInv, StepInv, PTL DEF Spec

\* Every return of switch_ivr_speak_text, successful or not, has released what
\* the call created for itself.
THEOREM CallClean == Spec => []CallLeavesNothing
<1>1. IInv => CallLeavesNothing
  BY DEF IInv, LoopsInv, LocalInv, AbsorberInv, CallLeavesNothing, Idle,
         Speaking
<1> QED
  BY <1>1, InitInv, StepInv, PTL DEF Spec

\* switch_ivr_clear_speech_cache finds every cached resource that is live.
THEOREM CacheCorrect == Spec => []CacheReachable
<1>1. IInv => CacheReachable
  BY DEF IInv, CacheInv
<1> QED
  BY <1>1, InitInv, StepInv, PTL DEF Spec

\* A codec that is ready has an open handle, as long as the channel is up;
\* this is what the codec check of switch_ivr_speak_text_handle rests on.
ReadyInv ==
    /\ \A p \in Places : codec[p] = "ready" /\ ~hungup => sh[p] = "open"
    /\ pc \in {"pre_answer", "codec"} /\ need_create => sh[place] = "open"
    /\ SpeaksOpenHandle

LEMMA ReadyStep ==
    "pre_answer" \notin Faults => (IInv /\ ReadyInv /\ [Next]_vars => ReadyInv')
<1> SUFFICES ASSUME "pre_answer" \notin Faults, IInv, ReadyInv, [Next]_vars
             PROVE  ReadyInv'
  OBVIOUS
<1> USE DEF IInv, TypeOK, ReadyInv, SpeaksOpenHandle, Places, resources, flags,
            CallFrame, HandleFrame, Fail, Goto
<1>1. CASE CallRefused
  BY <1>1 DEF CallRefused
<1>2. ASSUME NEW n \in TtsNames, Call(n) PROVE ReadyInv'
  BY <1>2 DEF Call, LookUp, Fresh, Closed, Destroyed, Stopped
<1>3. CASE OpenHandle
  BY <1>3 DEF OpenHandle, ClearSpeechCache, Closed, Destroyed, LocalInv, CacheInv,
      Creating, Idle
<1>4. CASE ReuseHandle
  BY <1>4 DEF ReuseHandle
<1>5. CASE PreAnswerAgain
  BY <1>5 DEF PreAnswerAgain, PreAnswerFails, PreAnswers, Closed
<1>6. CASE InitCodec
  BY <1>6 DEF InitCodec, ClearSpeechCache, Closed, Destroyed, LocalInv, CacheInv,
      Creating, Idle
<1>7. CASE InitTimer
  BY <1>7 DEF InitTimer, ClearSpeechCache, Closed, Destroyed
<1>8. CASE Start
  BY <1>8 DEF Start, PreAnswers
<1>9. CASE LoopTop \/ ReadAndWrite \/ NextFrame \/ HoldEnds \/ Flush
  BY <1>9 DEF LoopTop, ReadAndWrite, NextFrame, HoldEnds, Flush
<1>10. CASE Finish
  BY <1>10 DEF Finish, Closed, Destroyed
<1>11. CASE EndSession
  BY <1>11 DEF EndSession, ClearSpeechCache, Closed, Destroyed
<1>12. CASE Others
  BY <1>12 DEF Others, Hangup, Break, Hold, Pause
<1>13. CASE UNCHANGED vars
  BY <1>13 DEF vars
<1> QED
  BY <1>1, <1>2, <1>3, <1>4, <1>5, <1>6, <1>7, <1>8, <1>9, <1>10, <1>11, <1>12,
     <1>13
  DEF Next, SessionRuns

\* When pre_answer fails only on a channel that was hung up, text is fed to and
\* audio read from open handles only, for any sequence of engines.
THEOREM SpeaksCorrect ==
    "pre_answer" \notin Faults => (Spec => []SpeaksOpenHandle)
<1> SUFFICES ASSUME "pre_answer" \notin Faults
             PROVE  Spec => []SpeaksOpenHandle
  OBVIOUS
<1>1. Init => ReadyInv
  BY DEF Init, ReadyInv, SpeaksOpenHandle, Places
<1>2. ReadyInv => SpeaksOpenHandle
  BY DEF ReadyInv
<1>3. IInv /\ ReadyInv /\ [Next]_vars => ReadyInv'
  BY ReadyStep
<1> QED
  BY <1>1, <1>2, <1>3, InitInv, StepInv, PTL DEF Spec
============================================================================
