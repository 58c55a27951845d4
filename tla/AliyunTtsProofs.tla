-------------------------- MODULE AliyunTtsProofs --------------------------
(***************************************************************************)
(* Theorems about AliyunTts, for every number of texts and frames, every   *)
(* capacity and, unless said otherwise, every set of faults.               *)
(***************************************************************************)
EXTENDS AliyunTts, SequenceTheorems, TLAPS

USE AliyunTtsAssumption
USE DEF AliyunTtsAssumption, life, wsFlags, reqFlags, audFlags, store, conn,
        server, hist, Goto, S, W, Threads

-----------------------------------------------------------------------------
(* The inductive invariant                                                 *)

\* Each thread is at a label of its own and holds a text where it needs one.
TextInv ==
    /\ pc[S] \in SendLabels \cup SessionLabels
    /\ pc[W] \in SendLabels \cup WorkerLabels
    /\ pc[S] \in SendLabels \cup {"push"} => text[S] # 0
    /\ pc[W] \in SendLabels => text[W] # 0

\* The life of the object: the worker runs from the end of speech_open until
\* it has destroyed the object, and stops only for tts_closed, which is set
\* when the session has made its last use of the object.
LifeInv ==
    /\ pvt = "none" <=> pc[S] = "start"
    /\ pvt = "freed" <=> pc[S] = "failed" \/ pc[W] = "gone"
    /\ pc[S] \in {"start", "connecting", "failed"} <=> pc[W] = "none"
    /\ tts_closed <=> pc[S] = "closed"
    /\ pc[W] \in {"exit", "gone"} => tts_closed
    /\ pc[W] = "none" => queue = <<>>

IInv == TypeOK /\ TextInv /\ LifeInv

\* What the loop thread, the delayed threads and the server do.
Others == \/ OnOpen \/ OnClose \/ CallbackRuns \/ ServerAnswers \/ GoSilent
          \/ DelayedStep

\* They leave the threads, their texts and the queue alone.
LEMMA OthersFrame ==
    Others => UNCHANGED <<life, tts_closed, queue, given, queued, sent>>
BY DEF Others, OnOpen, OnClose, CallbackRuns, OnCloseIdle, OnRejectedIdle,
       StoreIdle, OnCloseConn, OnCloseFlag, BufferWrite, MarkAvailable,
       MarkStarted, FireStart, ServerAnswers, OnRejected, OnCompleted, OnBinary,
       GoSilent, DelayedStep, DelayedDone, DelayedIdle, CbFrame

\* Every step of send_tts_request keeps the invariant.
LEMMA SendInv ==
    ASSUME IInv, NEW t \in Threads, SendStep(t)
    PROVE  TypeOK' /\ TextInv' /\ LifeInv'
<1> USE DEF IInv, SendLabels, SessionLabels, WorkerLabels
<1>1. CASE SendCheck(t)
  <2>1. TypeOK'
    BY <1>1 DEF SendCheck, TypeOK, Labels
  <2>2. TextInv' /\ LifeInv'
    BY <1>1 DEF SendCheck, TypeOK, TextInv, LifeInv
  <2> QED BY <2>1, <2>2
<1>2. CASE ResetFlags(t) \/ ResetAudio(t) \/ MarkRequest(t)
  <2>0. pc' \in [Threads -> Labels]
    BY <1>2 DEF ResetFlags, ResetAudio, MarkRequest, TypeOK, Labels
  <2>b. {synthesisCompleted', audio_data_available', tts_in_progress'} \subseteq BOOLEAN
    BY <1>2 DEF ResetFlags, ResetAudio, MarkRequest, TypeOK
  <2>1. TypeOK'
    <3>1. UNCHANGED <<pvt, text, pending_request, wsFlags, play_back_stopped, store,
                      conn, server, hist>>
      BY <1>2 DEF ResetFlags, ResetAudio, MarkRequest, audFlags
    <3> QED
      BY <2>0, <2>b, <3>1 DEF TypeOK
  <2>2. TextInv' /\ LifeInv'
    BY <1>2 DEF ResetFlags, ResetAudio, MarkRequest, TypeOK, TextInv, LifeInv
  <2> QED BY <2>1, <2>2
<1>3. CASE WsSend(t)
  <2>1. srv' \in {"idle", "begun", "streaming", "silent"}
        /\ frames' \in 0..MaxFrames /\ rejected' \in Nat
    BY <1>3 DEF WsSend, ServerGets, TypeOK
  <2>2. sent' \in Seq(1..MaxTexts)
    <3>1. CASE t = S
      BY <1>3, <3>1 DEF WsSend, TypeOK
    <3>2. CASE t = W
      <4>1. text[W] \in 1..MaxTexts
        BY <1>3, <3>2 DEF WsSend, TypeOK, TextInv
      <4>2. sent' = Append(sent, text[W])
        BY <1>3, <3>2 DEF WsSend
      <4> QED BY <4>1, <4>2 DEF TypeOK
    <3> QED BY <3>1, <3>2
  <2>3. pc' \in [Threads -> Labels] /\ text' \in [Threads -> 0..MaxTexts]
    BY <1>3 DEF WsSend, TypeOK, Labels
  <2>6. pending_request' \in BOOLEAN
    BY <1>3 DEF WsSend, TypeOK
  <2>4. TypeOK'
    BY <1>3, <2>1, <2>2, <2>3, <2>6 DEF WsSend, TypeOK
  <2>5. TextInv' /\ LifeInv'
    BY <1>3 DEF WsSend, TypeOK, TextInv, LifeInv
  <2> QED BY <2>4, <2>5
<1> QED
  BY <1>1, <1>2, <1>3 DEF SendStep

\* Every other step of the session thread keeps the invariant.
LEMMA SessionInv ==
    ASSUME IInv, SessionCall \/ SessionRuns, ~SendStep(S)
    PROVE  TypeOK' /\ TextInv' /\ LifeInv'
<1> USE DEF IInv, TypeOK, SendLabels, SessionLabels, WorkerLabels, Labels
<1>1. CASE Open
  <2>1. buffer' \in 0..BufferCap /\ queue' = queue
    BY <1>1 DEF Open, ConnectWs, Destroy, LifeInv
  <2>2. pc' \in [Threads -> Labels] /\ pvt' \in {"live", "freed"}
        /\ sock' \in {"none", "connecting", "open", "closed"}
    BY <1>1 DEF Open, ConnectWs, Destroy
  <2>3. TypeOK'
    BY <1>1, <2>1, <2>2 DEF Open
  <2>4. TextInv' /\ LifeInv'
    BY <1>1, <2>1 DEF Open, ConnectWs, Destroy, TextInv, LifeInv
  <2> QED BY <2>3, <2>4
<1>2. CASE ConnectEnds
  <2>1. buffer' \in 0..BufferCap /\ queue' = queue
    BY <1>2 DEF ConnectEnds, Destroy, LifeInv
  <2>2. TypeOK'
    BY <1>2, <2>1 DEF ConnectEnds, Destroy
  <2>3. TextInv' /\ LifeInv'
    BY <1>2, <2>1 DEF ConnectEnds, Destroy, TextInv, LifeInv
  <2> QED BY <2>2, <2>3
<1>3. CASE Feed
  BY <1>3 DEF Feed, NewText, TextInv, LifeInv
<1>4. CASE Resume
  BY <1>4 DEF Resume, NewText, TextInv, LifeInv
<1>5. CASE Push
  <2>1. /\ Append(queue, text[S]) \in Seq(1..MaxTexts)
        /\ Append(queued, text[S]) \in Seq(1..MaxTexts)
        /\ Len(Append(queue, text[S])) <= QueueCap
    BY <1>5 DEF Push, TextInv
  <2>2. TypeOK'
    BY <1>5, <2>1 DEF Push
  <2>3. TextInv' /\ LifeInv'
    BY <1>5 DEF Push, TextInv, LifeInv
  <2> QED BY <2>2, <2>3
<1>6. CASE Read
  BY <1>6 DEF Read, Take, Block, Return, ReadFrame, TextInv, LifeInv
<1>7. CASE ReadWaitEnds
  BY <1>7 DEF ReadWaitEnds, Take, Block, Return, ReadFrame, TextInv, LifeInv
<1>8. CASE BlockWait
  BY <1>8 DEF BlockWait, Take, Return, ReadFrame, TextInv, LifeInv
<1>9. CASE GiveUp
  BY <1>9 DEF GiveUp, Return, ReadFrame, TextInv, LifeInv
<1>10. CASE FireStop
  <2>1. balance' \in Int
    BY <1>10 DEF FireStop
  <2>2. pc' \in [Threads -> Labels]
    BY <1>10 DEF FireStop, Return
  <2>b. audio_data_available' \in BOOLEAN
    BY <1>10 DEF FireStop
  <2>3. TypeOK'
    BY <1>10, <2>1, <2>2, <2>b DEF FireStop
  <2>4. TextInv' /\ LifeInv'
    BY <1>10 DEF FireStop, Return, TextInv, LifeInv
  <2> QED BY <2>3, <2>4
<1>11. CASE Flush
  BY <1>11 DEF Flush, ReadFrame, TextInv, LifeInv
<1>12. CASE Close
  BY <1>12 DEF Close, SessionOnly, TextInv, LifeInv
<1>13. CASE CloseWaitEnds
  BY <1>13 DEF CloseWaitEnds, SessionOnly, TextInv, LifeInv
<1>14. CASE CloseWs
  BY <1>14 DEF CloseWs, SessionOnly, TextInv, LifeInv
<1>15. CASE CloseFlag
  BY <1>15 DEF CloseFlag, SessionOnly, TextInv, LifeInv
<1> QED
  BY <1>1, <1>2, <1>3, <1>4, <1>5, <1>6, <1>7, <1>8, <1>9, <1>10, <1>11,
     <1>12, <1>13, <1>14, <1>15 DEF SessionCall, SessionRuns

\* Every other step of the worker keeps the invariant.
LEMMA WorkerInv ==
    ASSUME IInv, LoopTest \/ ResetProgress \/ Exit \/ RequestTimedOut
    PROVE  TypeOK' /\ TextInv' /\ LifeInv'
<1> USE DEF IInv, TypeOK, SendLabels, SessionLabels, WorkerLabels, Labels,
            WorkerFrame
<1>1. CASE LoopTest
  BY <1>1 DEF LoopTest, TextInv, LifeInv
<1>2. CASE RequestTimedOut
  <2>1. /\ synthesisCompleted' \in BOOLEAN /\ tts_in_progress' \in BOOLEAN
        /\ pending_request' \in BOOLEAN
    BY <1>2 DEF RequestTimedOut
  <2>2. TypeOK'
    BY <1>2, <2>1 DEF RequestTimedOut
  <2>3. TextInv' /\ LifeInv'
    BY <1>2 DEF RequestTimedOut, TextInv, LifeInv
  <2> QED BY <2>2, <2>3
<1>3. CASE ResetProgress
  <2>1. queue # <<>> => /\ Tail(queue) \in Seq(1..MaxTexts)
                        /\ Head(queue) \in 1..MaxTexts
                        /\ Len(Tail(queue)) <= QueueCap
    OBVIOUS
  <2>2. queue' \in Seq(1..MaxTexts) /\ Len(queue') <= QueueCap
    BY <1>3, <2>1 DEF ResetProgress, TakeText
  <2>3. pc' \in [Threads -> Labels] /\ text' \in [Threads -> 0..MaxTexts]
    BY <1>3, <2>1 DEF ResetProgress, TakeText
  <2>b. pending_request' \in BOOLEAN /\ tts_in_progress' \in BOOLEAN
    BY <1>3 DEF ResetProgress
  <2>4. TypeOK'
    BY <1>3, <2>2, <2>3, <2>b DEF ResetProgress
  <2>5. TextInv' /\ LifeInv'
    BY <1>3, <2>1 DEF ResetProgress, TakeText, TextInv, LifeInv
  <2> QED BY <2>4, <2>5
<1>4. CASE Exit
  BY <1>4 DEF Exit, Destroy, TextInv, LifeInv
<1> QED
  BY <1>1, <1>2, <1>3, <1>4

\* Every step of the other threads keeps the types.
LEMMA OthersTypes == ASSUME IInv, Others PROVE TypeOK'
<1> USE DEF IInv, TypeOK, CbFrame, CbLabels
<1>0. Touch("loop") \/ Touch("delayed") \/ late' = late
         => late' \subseteq {"loop", "delayed"}
  BY DEF Touch
<1>1. CASE OnOpen
  BY <1>0, <1>1 DEF OnOpen
<1>2. CASE OnClose
  <2>1. synthesisCompleted' \in BOOLEAN
    BY <1>2 DEF OnClose
  <2> QED BY <1>0, <1>2, <2>1 DEF OnClose
<1>3. CASE OnCloseIdle
  <2>1. tts_in_progress' \in BOOLEAN
    BY <1>3 DEF OnCloseIdle, StoreIdle
  <2> QED BY <1>0, <1>3, <2>1 DEF OnCloseIdle, StoreIdle
<1>4. CASE OnRejectedIdle
  <2>1. tts_in_progress' \in BOOLEAN
    BY <1>4 DEF OnRejectedIdle, StoreIdle
  <2> QED BY <1>0, <1>4, <2>1 DEF OnRejectedIdle, StoreIdle
<1>5. CASE OnCloseConn
  BY <1>0, <1>5 DEF OnCloseConn
<1>6. CASE OnCloseFlag
  BY <1>0, <1>6 DEF OnCloseFlag
<1>7. CASE BufferWrite
  BY <1>0, <1>7 DEF BufferWrite
<1>8. CASE MarkAvailable
  BY <1>0, <1>8 DEF MarkAvailable
<1>9. CASE MarkStarted
  <2>1. play_back_stopped' \in BOOLEAN
    BY <1>9 DEF MarkStarted
  <2> QED BY <1>0, <1>9, <2>1 DEF MarkStarted
<1>10. CASE FireStart
  <2>1. balance' \in Int
    BY <1>10 DEF FireStart
  <2> QED BY <1>0, <1>10, <2>1 DEF FireStart
<1>11. CASE OnRejected
  <2>1. rejected' \in Nat
    BY <1>11 DEF OnRejected
  <2> QED BY <1>0, <1>11, <2>1 DEF OnRejected
<1>12. CASE OnCompleted
  <2>1. sleepers' \in Nat
    BY <1>12 DEF OnCompleted
  <2> QED BY <1>0, <1>12, <2>1 DEF OnCompleted
<1>13. ASSUME NEW f \in BOOLEAN, OnBinary(f) PROVE TypeOK'
  <2>1. frames' \in 0..MaxFrames
    BY <1>13 DEF OnBinary
  <2>2. skipped' \in BOOLEAN
    BY <1>13 DEF OnBinary
  <2> QED BY <1>0, <1>13, <2>1, <2>2 DEF OnBinary
<1>14. CASE GoSilent
  BY <1>14 DEF GoSilent
<1>15. CASE DelayedDone
  <2>1. sleepers' \in Nat
    BY <1>15 DEF DelayedDone
  <2> QED BY <1>0, <1>15, <2>1 DEF DelayedDone
<1>16. CASE DelayedIdle
  <2>1. tts_in_progress' \in BOOLEAN
    BY <1>16 DEF DelayedIdle
  <2> QED BY <1>0, <1>16, <2>1 DEF DelayedIdle
<1> QED
  BY <1>1, <1>2, <1>3, <1>4, <1>5, <1>6, <1>7, <1>8, <1>9, <1>10, <1>11,
     <1>12, <1>13, <1>14, <1>15, <1>16
  DEF Others, CallbackRuns, ServerAnswers, DelayedStep

\* IInv holds initially and is inductive.
LEMMA InitIInv == Init => IInv
<1> SUFFICES ASSUME Init PROVE IInv
  OBVIOUS
<1> USE DEF Init
<1>1. TextInv /\ LifeInv
  BY DEF TextInv, LifeInv, SendLabels, SessionLabels, WorkerLabels
<1>2. pc \in [Threads -> Labels] /\ text \in [Threads -> 0..MaxTexts]
  BY DEF Labels, SessionLabels, WorkerLabels
<1>3. /\ buffer \in 0..BufferCap /\ sleepers \in Nat /\ frames \in 0..MaxFrames
      /\ rejected \in Nat /\ given \in 0..MaxTexts /\ balance \in Int
  OBVIOUS
<1>4. /\ queue \in Seq(1..MaxTexts) /\ Len(queue) <= QueueCap
      /\ queued \in Seq(1..MaxTexts) /\ sent \in Seq(1..MaxTexts)
  OBVIOUS
<1>5. TypeOK
  BY <1>2, <1>3, <1>4 DEF TypeOK, CbLabels
<1> QED
  BY <1>1, <1>5 DEF IInv

LEMMA NextIInv == IInv /\ [Next]_vars => IInv'
<1> SUFFICES ASSUME IInv, [Next]_vars PROVE IInv'
  OBVIOUS
<1>1. ASSUME NEW t \in Threads, SendStep(t) PROVE IInv'
  BY <1>1, SendInv DEF IInv
<1>2. CASE (SessionCall \/ SessionRuns) /\ ~SendStep(S)
  BY <1>2, SessionInv DEF IInv
<1>3. CASE LoopTest \/ ResetProgress \/ Exit \/ RequestTimedOut
  BY <1>3, WorkerInv DEF IInv
<1>4. CASE Others
  <2>1. UNCHANGED <<pvt, pc, text, tts_closed, queue>>
    BY <1>4, OthersFrame
  <2>2. TextInv' /\ LifeInv'
    BY <2>1 DEF IInv, TextInv, LifeInv
  <2> QED BY <1>4, <2>2, OthersTypes DEF IInv
<1>5. CASE UNCHANGED vars
  BY <1>5 DEF vars, IInv, TypeOK, TextInv, LifeInv
<1> QED
  BY <1>1, <1>2, <1>3, <1>4, <1>5 DEF Next, SessionRuns, WorkerStep, Others

LEMMA AlwaysIInv == Spec => []IInv
BY InitIInv, NextIInv, PTL DEF Spec

\* Spec implies []TypeOK: types, and the text queue and the audio buffer keep
\* to their capacity, also when an access to the buffer races with a write.
THEOREM TypeCorrect == Spec => []TypeOK
<1>1. IInv => TypeOK
  BY DEF IInv
<1> QED BY <1>1, AlwaysIInv, PTL

\* Spec implies []SessionSeesLivePvt: whatever fails, the calls of an open
\* session and its worker work on an object that is not destroyed, because
\* tts_closed is speech_close's last access and the worker's only way out.
THEOREM SessionSafe == Spec => []SessionSeesLivePvt
<1>1. IInv => SessionSeesLivePvt
  BY DEF IInv, TypeOK, LifeInv, SessionSeesLivePvt
<1> QED BY <1>1, AlwaysIInv, PTL

-----------------------------------------------------------------------------
(* Callbacks never outlive the object of an opened speech handle           *)

\* After onclose the loop thread is done with the object, and the worker has
\* waited for it.
CbInv ==
    /\ pc[S] = "start" => sock = "none" /\ cb = "idle" /\ ~ws_closed
    /\ cb \in {"close_progress", "close_conn", "close_flag"} => sock = "closed"
    /\ ws_closed => sock = "closed" /\ cb = "idle"
    /\ pc[W] = "gone" => ws_closed
    /\ "loop" \in late => pc[S] = "failed"

\* The session and the worker only touch this through Open, ConnectEnds and
\* Exit.
LEMMA ThreadsFrame ==
    ASSUME IInv, SessionCall \/ SessionRuns \/ WorkerStep \/ RequestTimedOut,
           ~Open, ~ConnectEnds, ~Exit
    PROVE  /\ UNCHANGED <<ws_closed, sock, cb, late>>
           /\ pc[S] # "failed" /\ pc'[S] # "start"
           /\ pc'[W] = "gone" => pc[W] = "gone"
<1> USE DEF IInv, TypeOK, LifeInv, TextInv, SendLabels, WorkerLabels,
            SessionLabels
<1>1. ASSUME NEW t \in Threads, SendStep(t)
      PROVE  /\ UNCHANGED <<ws_closed, sock, cb, late>>
             /\ pc[S] # "failed" /\ pc'[S] # "start"
             /\ pc'[W] = "gone" => pc[W] = "gone"
  BY <1>1 DEF SendStep, SendCheck, ResetFlags, ResetAudio, MarkRequest, WsSend
<1>2. CASE Feed \/ Resume \/ Push
  BY <1>2 DEF Feed, Resume, Push
<1>3. CASE Read \/ Flush \/ ReadWaitEnds \/ BlockWait
  BY <1>3 DEF Read, Flush, ReadWaitEnds, BlockWait, ReadFrame, Block, Return
<1>4. CASE GiveUp \/ FireStop
  BY <1>4 DEF GiveUp, FireStop, ReadFrame, Return
<1>5. CASE Close \/ CloseWaitEnds \/ CloseWs \/ CloseFlag
  BY <1>5 DEF Close, CloseWaitEnds, CloseWs, CloseFlag, SessionOnly
<1>6. CASE LoopTest \/ RequestTimedOut
  BY <1>6 DEF LoopTest, RequestTimedOut, WorkerFrame
<1>7. CASE ResetProgress
  BY <1>7 DEF ResetProgress, TakeText, WorkerFrame
<1> QED
  BY <1>1, <1>2, <1>3, <1>4, <1>5, <1>6, <1>7
  DEF SessionCall, SessionRuns, WorkerStep

LEMMA CbStep ==
    ASSUME "slow_close" \notin Faults, IInv, CbInv, [Next]_vars
    PROVE  CbInv'
<1> USE DEF IInv, TypeOK, LifeInv, CbInv
<1>1. CASE Open
  BY <1>1 DEF Open, ConnectWs, Destroy
<1>2. CASE ConnectEnds
  BY <1>2 DEF ConnectEnds, Destroy
<1>3. CASE Exit
  BY <1>3 DEF Exit, Destroy, WorkerFrame
<1>4. CASE /\ SessionCall \/ SessionRuns \/ WorkerStep \/ RequestTimedOut
           /\ ~Open /\ ~ConnectEnds /\ ~Exit
  <2>1. /\ UNCHANGED <<ws_closed, sock, cb, late>>
        /\ pc[S] # "failed" /\ pc'[S] # "start"
        /\ pc'[W] = "gone" => pc[W] = "gone"
    BY <1>4, ThreadsFrame
  <2> QED BY <2>1
<1>5. CASE Others
  <2>0. UNCHANGED <<pvt, pc>>
    BY <1>5, OthersFrame
  <2>1. pvt = "freed" /\ pc[S] # "failed" => ws_closed /\ sock = "closed" /\ cb = "idle"
    OBVIOUS
  <2>2. CASE OnOpen
    BY <2>0, <2>1, <2>2 DEF OnOpen, Touch
  <2>3. CASE OnClose
    BY <2>0, <2>1, <2>3 DEF OnClose, Touch
  <2>4. CASE OnCloseIdle \/ OnRejectedIdle
    BY <2>0, <2>1, <2>4 DEF OnCloseIdle, OnRejectedIdle, StoreIdle, Touch
  <2>5. CASE OnCloseConn \/ OnCloseFlag
    BY <2>0, <2>1, <2>5 DEF OnCloseConn, OnCloseFlag, Touch
  <2>6. CASE BufferWrite \/ MarkAvailable \/ MarkStarted \/ FireStart
    BY <2>0, <2>1, <2>6 DEF BufferWrite, MarkAvailable, MarkStarted, FireStart,
                            Touch
  <2>7. CASE OnRejected \/ OnCompleted
    BY <2>0, <2>1, <2>7 DEF OnRejected, OnCompleted, Receiving, Touch
  <2>8. ASSUME NEW f \in BOOLEAN, OnBinary(f) PROVE CbInv'
    BY <2>0, <2>1, <2>8 DEF OnBinary, Receiving, Touch
  <2>9. CASE GoSilent
    BY <2>0, <2>9 DEF GoSilent
  <2>10. CASE DelayedStep
    BY <2>0, <2>10 DEF DelayedStep, DelayedDone, DelayedIdle, Touch
  <2> QED
    BY <1>5, <2>2, <2>3, <2>4, <2>5, <2>6, <2>7, <2>8, <2>9, <2>10
    DEF Others, CallbackRuns, ServerAnswers
<1>6. CASE UNCHANGED vars
  BY <1>6 DEF vars
<1> QED
  BY <1>1, <1>2, <1>3, <1>4, <1>5, <1>6 DEF Next, Others

\* Spec implies []CallbacksSeeLivePvt, provided onclose comes within the 3.5
\* seconds the worker waits for it: no callback of an opened speech handle
\* runs on a destroyed object.
THEOREM CallbacksSafe ==
    "slow_close" \notin Faults => (Spec => []CallbacksSeeLivePvt)
<1> SUFFICES ASSUME "slow_close" \notin Faults
             PROVE  Spec => []CallbacksSeeLivePvt
  OBVIOUS
<1>1. Init => CbInv
  BY DEF Init, CbInv
<1>2. IInv /\ CbInv /\ [Next]_vars => CbInv'
  BY CbStep
<1>3. CbInv => CallbacksSeeLivePvt
  BY DEF CbInv, CallbacksSeeLivePvt
<1> QED BY <1>1, <1>2, <1>3, AlwaysIInv, PTL DEF Spec

-----------------------------------------------------------------------------
(* Playback events                                                         *)

\* The events fired so far, from the flag and from the events that a thread is
\* about to fire.
PlayInv ==
    balance = (IF play_back_stopped THEN 0 ELSE 1)
              - (IF cb = "fire" THEN 1 ELSE 0)
              + (IF pc[S] = "stop_fire" THEN 1 ELSE 0)

\* Spec implies []PlaybackEventsPaired: only the loop thread clears
\* play_back_stopped and only the session thread sets it, so every START and
\* STOP that listeners see has its counterpart however the two interleave.
THEOREM PlaybackPaired == Spec => []PlaybackEventsPaired
<1>1. Init => PlayInv
  BY DEF Init, PlayInv
<1>2. IInv /\ PlayInv /\ [Next]_vars => PlayInv'
  <2> SUFFICES ASSUME IInv, PlayInv, [Next]_vars PROVE PlayInv'
    OBVIOUS
  <2> USE DEF IInv, TypeOK, PlayInv
  <2>1. CASE GiveUp
    <3>1. /\ pc[S] = "give_up" /\ cb' = cb /\ balance' = balance
          /\ play_back_stopped' = TRUE
          /\ pc'[S] = IF play_back_stopped THEN "idle" ELSE "stop_fire"
      BY <2>1 DEF GiveUp, Return, ReadFrame
    <3> QED BY <3>1
  <2>2. CASE FireStop
    <3>1. /\ pc[S] = "stop_fire" /\ pc'[S] = "idle" /\ cb' = cb
          /\ play_back_stopped' = play_back_stopped /\ balance' = balance - 1
      BY <2>2 DEF FireStop, Return
    <3> QED BY <3>1
  <2>3. CASE Open \/ ConnectEnds \/ Feed \/ Resume \/ Push
    BY <2>3 DEF Open, ConnectWs, Destroy, ConnectEnds, Feed, Resume, Push
  <2>4. CASE Read \/ Flush \/ ReadWaitEnds \/ BlockWait
    BY <2>4 DEF Read, Flush, ReadWaitEnds, BlockWait, ReadFrame, Block, Return
  <2>5. CASE Close \/ CloseWaitEnds \/ CloseWs \/ CloseFlag
    <3>1. /\ UNCHANGED <<balance, play_back_stopped, cb>>
          /\ pc[S] # "stop_fire" /\ pc'[S] # "stop_fire"
      BY <2>5 DEF Close, CloseWaitEnds, CloseWs, CloseFlag, SessionOnly
    <3> QED BY <3>1
  <2>6. ASSUME NEW t \in Threads, SendStep(t) PROVE PlayInv'
    <3>1. /\ UNCHANGED <<balance, play_back_stopped, cb>>
          /\ pc'[S] = "stop_fire" <=> pc[S] = "stop_fire"
      BY <2>6 DEF SendStep, SendCheck, ResetFlags, ResetAudio, MarkRequest, WsSend
    <3> QED BY <3>1
  <2>7. CASE LoopTest \/ RequestTimedOut \/ Exit
    BY <2>7 DEF LoopTest, RequestTimedOut, Exit, Destroy, WorkerFrame
  <2>8. CASE ResetProgress
    BY <2>8 DEF ResetProgress, TakeText, WorkerFrame
  <2>9. CASE MarkStarted
    <3>1. /\ cb = "start" /\ pc' = pc /\ balance' = balance
          /\ play_back_stopped' = FALSE
          /\ cb' = IF play_back_stopped THEN "fire" ELSE "idle"
      BY <2>9 DEF MarkStarted, CbFrame
    <3> QED BY <3>1
  <2>10. CASE FireStart
    <3>1. /\ cb = "fire" /\ cb' = "idle" /\ pc' = pc
          /\ play_back_stopped' = play_back_stopped /\ balance' = balance + 1
      BY <2>10 DEF FireStart, CbFrame
    <3> QED BY <3>1
  <2>11. CASE BufferWrite \/ MarkAvailable
    BY <2>11 DEF BufferWrite, MarkAvailable, CbFrame
  <2>12. CASE OnOpen \/ OnClose \/ OnCloseConn \/ OnCloseFlag
    BY <2>12 DEF OnOpen, OnClose, OnCloseConn, OnCloseFlag, CbFrame
  <2>13. CASE OnCloseIdle \/ OnRejectedIdle
    BY <2>13 DEF OnCloseIdle, OnRejectedIdle, StoreIdle, CbFrame
  <2>14. CASE OnRejected \/ OnCompleted
    BY <2>14 DEF OnRejected, OnCompleted, Receiving, CbFrame
  <2>15. ASSUME NEW f \in BOOLEAN, OnBinary(f) PROVE PlayInv'
    BY <2>15 DEF OnBinary, Receiving, CbFrame
  <2>16. CASE GoSilent \/ DelayedStep
    BY <2>16 DEF GoSilent, DelayedStep, DelayedDone, DelayedIdle
  <2>17. CASE UNCHANGED vars
    BY <2>17 DEF vars
  <2> QED
    BY <2>1, <2>2, <2>3, <2>4, <2>5, <2>6, <2>7, <2>8, <2>9, <2>10, <2>11,
       <2>12, <2>13, <2>14, <2>15, <2>16, <2>17
    DEF Next, SessionCall, SessionRuns, WorkerStep, CallbackRuns, ServerAnswers
<1>3. PlayInv => PlaybackEventsPaired
  BY DEF PlayInv, PlaybackEventsPaired
<1> QED BY <1>1, <1>2, <1>3, AlwaysIInv, PTL DEF Spec

-----------------------------------------------------------------------------
(* The text queue                                                          *)

Held == IF text[W] = 0 THEN 0 ELSE 1

\* q is what is left of Q after its first k elements.
Follows(Q, k, q) ==
    /\ Len(Q) = k + Len(q)
    /\ \A i \in 1..Len(q) : Q[k + i] = q[i]

LEMMA FollowsAppend ==
    ASSUME NEW T, NEW Q \in Seq(T), NEW q \in Seq(T), NEW k \in Nat, NEW x \in T,
           Follows(Q, k, q)
    PROVE  Follows(Append(Q, x), k, Append(q, x))
<1>1. /\ Len(Append(q, x)) = Len(q) + 1 /\ Len(Append(Q, x)) = Len(Q) + 1
      /\ \A i \in 1..Len(q) : Append(q, x)[i] = q[i]
      /\ \A i \in 1..Len(Q) : Append(Q, x)[i] = Q[i]
      /\ Append(q, x)[Len(q) + 1] = x /\ Append(Q, x)[Len(Q) + 1] = x
  BY AppendProperties
<1>2. Len(q) \in Nat /\ Len(Q) \in Nat
  OBVIOUS
<1> DEFINE u == Append(q, x)
           v == Append(Q, x)
<1> HIDE DEF u, v
<1>3. /\ Len(u) = Len(q) + 1 /\ Len(v) = Len(Q) + 1
      /\ \A i \in 1..Len(q) : u[i] = q[i]
      /\ \A i \in 1..Len(Q) : v[i] = Q[i]
      /\ u[Len(q) + 1] = x /\ v[Len(Q) + 1] = x
  BY <1>1 DEF u, v
<1>4. ASSUME NEW i \in 1..Len(u) PROVE v[k + i] = u[i]
  <2>1. CASE i = Len(q) + 1
    BY <2>1, <1>2, <1>3 DEF Follows
  <2>2. CASE i \in 1..Len(q)
    BY <2>2, <1>2, <1>3 DEF Follows
  <2> QED BY <2>1, <2>2, <1>2, <1>3
<1>5. Len(v) = k + Len(u)
  BY <1>2, <1>3 DEF Follows
<1>6. Follows(v, k, u)
  BY <1>4, <1>5 DEF Follows
<1> QED BY <1>6 DEF u, v

LEMMA FollowsTail ==
    ASSUME NEW T, NEW Q \in Seq(T), NEW q \in Seq(T), NEW k \in Nat,
           q # <<>>, Follows(Q, k, q)
    PROVE  Follows(Q, k + 1, Tail(q)) /\ Q[k + 1] = Head(q) /\ k + 1 <= Len(Q)
<1>1. /\ Len(Tail(q)) = Len(q) - 1
      /\ \A i \in 1..Len(Tail(q)) : Tail(q)[i] = q[i + 1]
  BY HeadTailProperties
<1>2. Len(q) \in Nat /\ Len(q) >= 1 /\ Head(q) = q[1] /\ Len(Q) \in Nat
  OBVIOUS
<1>3. ASSUME NEW i \in 1..Len(Tail(q)) PROVE Q[k + 1 + i] = Tail(q)[i]
  <2>1. i + 1 \in 1..Len(q) /\ k + (i + 1) = k + 1 + i
    BY <1>1, <1>2
  <2> QED BY <2>1, <1>1 DEF Follows
<1> QED BY <1>1, <1>2, <1>3 DEF Follows

\* The texts queued are the ones sent, then the one in the worker's hands,
\* then, until the session is closed, the ones in the queue.
QueueInv ==
    /\ Len(sent) <= Len(queued)
    /\ \A i \in 1..Len(sent) : queued[i] = sent[i]
    /\ text[W] # 0 => /\ Len(sent) + 1 <= Len(queued)
                      /\ queued[Len(sent) + 1] = text[W]
    /\ ~tts_closed => Follows(queued, Len(sent) + Held, queue)

\* The steps that touch none of it.
LEMMA QueueUntouched ==
    ASSUME QueueInv, UNCHANGED <<queue, queued, sent>>, text'[W] = text[W],
           tts_closed => tts_closed'
    PROVE  QueueInv'
BY DEF QueueInv, Held

LEMMA QueueStep == IInv /\ QueueInv /\ [Next]_vars => QueueInv'
<1> SUFFICES ASSUME IInv, QueueInv, [Next]_vars PROVE QueueInv'
  OBVIOUS
<1> USE DEF IInv, TypeOK
<1>1. CASE Push
  <2> DEFINE x == text[S]
  <2>1. x \in 1..MaxTexts
    BY <1>1 DEF Push, TextInv
  <2>2. /\ queue' = Append(queue, x) /\ queued' = Append(queued, x)
        /\ UNCHANGED <<sent, tts_closed>> /\ text'[W] = text[W]
    BY <1>1 DEF Push
  <2>3. Held' = Held /\ Len(sent) + Held \in Nat
    BY <2>2 DEF Held
  <2> HIDE DEF x
  <2>4. ~tts_closed => Follows(queued', Len(sent) + Held, queue')
    BY <2>1, <2>2, <2>3, FollowsAppend DEF QueueInv
  <2>5. /\ Len(queued') = Len(queued) + 1
        /\ \A i \in 1..Len(queued) : queued'[i] = queued[i]
    BY <2>1, <2>2, AppendProperties
  <2>6. /\ Len(sent) <= Len(queued')
        /\ \A i \in 1..Len(sent) : queued'[i] = sent[i]
    BY <2>5 DEF QueueInv
  <2>7. text[W] # 0 => /\ Len(sent) + 1 <= Len(queued')
                       /\ queued'[Len(sent) + 1] = text[W]
    BY <2>5 DEF QueueInv
  <2> QED BY <2>2, <2>3, <2>4, <2>6, <2>7 DEF QueueInv
<1>2. CASE WsSend(W)
  <2> DEFINE x == text[W]
  <2>1. x \in 1..MaxTexts
    BY <1>2 DEF WsSend, TextInv, SendLabels
  <2>2. /\ sent' = Append(sent, x) /\ text'[W] = 0
        /\ UNCHANGED <<queue, queued, tts_closed>>
    BY <1>2 DEF WsSend
  <2>3. Held = 1 /\ Held' = 0
    BY <2>1, <2>2 DEF Held
  <2>4. queued[Len(sent) + 1] = x /\ Len(sent) + 1 <= Len(queued)
    BY <2>1 DEF QueueInv
  <2> HIDE DEF x
  <2>5. /\ Len(sent') = Len(sent) + 1 /\ sent'[Len(sent) + 1] = x
        /\ \A i \in 1..Len(sent) : sent'[i] = sent[i]
    BY <2>1, <2>2, AppendProperties
  <2>6. Len(sent') + Held' = Len(sent) + Held
    BY <2>3, <2>5
  <2> QED BY <2>2, <2>4, <2>5, <2>6 DEF QueueInv
<1>3. CASE ResetProgress
  <2>1. CASE text[W] # 0 \/ queue = <<>> \/ tts_closed
    <3>1. CASE UNCHANGED <<queue, text>>
      BY <1>3, <3>1, QueueUntouched DEF ResetProgress, WorkerFrame
    <3>2. CASE /\ tts_closed /\ queue' = Tail(queue) /\ UNCHANGED text
      BY <1>3, <3>2 DEF ResetProgress, WorkerFrame, QueueInv
    <3> QED BY <1>3, <2>1, <3>1, <3>2 DEF ResetProgress, TakeText
  <2>2. CASE text[W] = 0 /\ queue # <<>> /\ ~tts_closed
    <3>1. /\ queue' = Tail(queue) /\ text'[W] = Head(queue)
          /\ UNCHANGED <<queued, sent, tts_closed>>
      BY <1>3, <2>2 DEF ResetProgress, TakeText, WorkerFrame
    <3>2. /\ Len(queue) >= 1 /\ Head(queue) = queue[1]
          /\ Head(queue) \in 1..MaxTexts
      BY <2>2
    <3>4. Held = 0 /\ Held' = 1
      BY <2>2, <3>1, <3>2 DEF Held
    <3>5. Follows(queued, Len(sent), queue) /\ Len(sent) \in Nat
      BY <2>2, <3>4 DEF QueueInv
    <3>6. /\ Follows(queued, Len(sent) + 1, Tail(queue))
          /\ queued[Len(sent) + 1] = Head(queue) /\ Len(sent) + 1 <= Len(queued)
      BY <2>2, <3>5, FollowsTail
    <3> QED BY <3>1, <3>4, <3>6 DEF QueueInv
  <2> QED BY <2>1, <2>2
<1>4. CASE Exit
  <2>1. tts_closed /\ tts_closed' /\ UNCHANGED <<queued, sent, text>>
    BY <1>4 DEF Exit, Destroy, WorkerFrame, LifeInv
  <2> QED BY <2>1 DEF QueueInv
<1>5. CASE Feed \/ Resume \/ Open \/ ConnectEnds
  <2>1. UNCHANGED <<queue, queued, sent, tts_closed>> /\ text'[W] = text[W]
    BY <1>5 DEF Feed, Resume, NewText, Open, ConnectWs, ConnectEnds, Destroy,
                LifeInv
  <2> QED BY <2>1, QueueUntouched
<1>6. CASE Read \/ Flush \/ ReadWaitEnds \/ BlockWait \/ GiveUp \/ FireStop
  BY <1>6, QueueUntouched
  DEF Read, Flush, ReadWaitEnds, BlockWait, GiveUp, FireStop, ReadFrame
<1>7. CASE Close \/ CloseWaitEnds \/ CloseWs \/ CloseFlag
  BY <1>7, QueueUntouched
  DEF Close, CloseWaitEnds, CloseWs, CloseFlag, SessionOnly
<1>8. CASE LoopTest \/ RequestTimedOut
  BY <1>8, QueueUntouched DEF LoopTest, RequestTimedOut, WorkerFrame
<1>9. ASSUME NEW t \in Threads,
             SendCheck(t) \/ ResetFlags(t) \/ ResetAudio(t) \/ MarkRequest(t)
      PROVE  QueueInv'
  BY <1>9, QueueUntouched DEF SendCheck, ResetFlags, ResetAudio, MarkRequest
<1>10. CASE WsSend(S)
  BY <1>10, QueueUntouched DEF WsSend
<1>11. CASE Others
  BY <1>11, OthersFrame, QueueUntouched
<1>12. CASE UNCHANGED vars
  BY <1>12, QueueUntouched DEF vars
<1> QED
  BY <1>1, <1>2, <1>3, <1>4, <1>5, <1>6, <1>7, <1>8, <1>9, <1>10, <1>11, <1>12
  DEF Next, Others, SessionCall, SessionRuns, WorkerStep, SendStep

\* Spec implies []QueueFaithful: whatever races and fails, the worker sends
\* the queued texts in order and none twice, and none is lost before the
\* session is closed.
THEOREM QueueCorrect == Spec => []QueueFaithful
<1>1. Init => QueueInv
  BY DEF Init, QueueInv, Held, Follows
<1>2. IInv /\ QueueInv => QueueFaithful
  <2> SUFFICES ASSUME IInv, QueueInv PROVE QueueFaithful
    OBVIOUS
  <2> DEFINE T == 1..MaxTexts
  <2>0. queued \in Seq(T) /\ sent \in Seq(T) /\ queue \in Seq(T)
    BY DEF IInv, TypeOK
  <2>t. text[W] # 0 => text[W] \in T
    BY DEF IInv, TypeOK
  <2>h. /\ InHand \in Seq(T) /\ Len(InHand) = Held
        /\ text[W] # 0 => InHand[1] = text[W]
    <3>1. CASE text[W] = 0
      BY <3>1 DEF InHand, Held
    <3>2. CASE text[W] # 0
      <4> DEFINE x == text[W]
      <4>1. x \in T /\ InHand = <<x>> /\ Held = 1
        BY <3>2, <2>t DEF InHand, Held
      <4> HIDE DEF x, T
      <4>2. <<x>> \in Seq(T) /\ Len(<<x>>) = 1 /\ <<x>>[1] = x
        BY <4>1
      <4> QED BY <4>1, <4>2 DEF x
    <3> QED BY <3>1, <3>2
  <2>1. SubSeq(queued, 1, Len(sent)) = sent
    <3>1. \A i \in 1..Len(sent) : queued[i] \in T
      BY <2>0, ElementOfSeq DEF QueueInv
    <3>2. /\ SubSeq(queued, 1, Len(sent)) \in Seq(T)
          /\ Len(SubSeq(queued, 1, Len(sent))) = Len(sent)
          /\ \A i \in 1..Len(sent) : SubSeq(queued, 1, Len(sent))[i] = queued[i]
      BY <2>0, <3>1, SubSeqProperties
    <3> QED BY <2>0, <3>2, SeqEqual DEF QueueInv
  <2>2. ASSUME ~tts_closed PROVE queued = sent \o (InHand \o queue)
    <3> DEFINE r == InHand \o queue
               a == sent \o r
               n == Len(sent)
               h == Held
               m == Len(queue)
    <3>0. /\ n \in Nat /\ h \in {0, 1} /\ m \in Nat /\ Len(queued) = n + h + m
          /\ h = 1 <=> text[W] # 0
      BY <2>0, <2>2 DEF QueueInv, Follows, Held
    <3>1. /\ r \in Seq(T) /\ Len(r) = h + m
          /\ \A i \in 1..h + m : r[i] = IF i <= h THEN InHand[i] ELSE queue[i - h]
      <4>1. /\ r \in Seq(T) /\ Len(r) = Len(InHand) + Len(queue)
            /\ \A i \in 1..Len(InHand) + Len(queue) :
                 r[i] = IF i <= Len(InHand) THEN InHand[i]
                        ELSE queue[i - Len(InHand)]
        BY <2>0, <2>h, ConcatProperties
      <4> QED BY <4>1, <2>h
    <3> HIDE DEF r
    <3>2. /\ a \in Seq(T) /\ Len(a) = n + Len(r)
          /\ \A i \in 1..n + Len(r) : a[i] = IF i <= n THEN sent[i] ELSE r[i - n]
      BY <2>0, <3>1, ConcatProperties
    <3> HIDE DEF a
    <3>3. Len(a) = Len(queued)
      BY <3>0, <3>1, <3>2
    <3>6. /\ \A i \in 1..n : queued[i] = sent[i]
          /\ h = 1 => queued[n + 1] = InHand[1]
          /\ \A j \in 1..m : queued[n + h + j] = queue[j]
      BY <2>2, <2>h, <3>0 DEF QueueInv, Follows
    <3> HIDE DEF n, h, m
    <3>4. ASSUME NEW i \in 1..Len(queued) PROVE queued[i] = a[i]
      <4>0. i \in 1..n + Len(r)
        BY <3>0, <3>1
      <4>1. CASE i <= n
        <5>1. i \in 1..n
          BY <4>1, <3>0
        <5>2. a[i] = sent[i]
          BY <4>0, <4>1, <3>2
        <5> QED BY <5>1, <5>2, <3>6
      <4>2. CASE i = n + 1 /\ h = 1
        <5>1. a[i] = r[1]
          BY <4>0, <4>2, <3>0, <3>2
        <5>2. r[1] = InHand[1]
          BY <4>2, <3>0, <3>1
        <5> QED BY <4>2, <5>1, <5>2, <3>6
      <4>3. CASE i > n + h
        <5> DEFINE j == i - n - h
        <5>1. j \in 1..m /\ i = n + h + j /\ i - n \in 1..h + m /\ ~(i - n <= h)
              /\ (i - n) - h = j /\ ~(i <= n)
          BY <4>3, <3>0
        <5>2. queued[i] = queue[j]
          BY <5>1, <3>6
        <5>3. a[i] = r[i - n]
          BY <4>0, <5>1, <3>2
        <5>4. r[i - n] = queue[j]
          BY <5>1, <3>1
        <5> QED BY <5>2, <5>3, <5>4
      <4> QED BY <4>1, <4>2, <4>3, <3>0
    <3>5. queued = a
      BY <2>0, <3>2, <3>3, <3>4, SeqEqual
    <3> QED BY <3>5 DEF a, r
  <2> QED BY <2>1, <2>2 DEF QueueFaithful
<1> QED BY <1>1, <1>2, QueueStep, AlwaysIInv, PTL DEF Spec
=============================================================================
