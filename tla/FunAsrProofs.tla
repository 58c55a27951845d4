---------------------------- MODULE FunAsrProofs ----------------------------
(***************************************************************************)
(* Theorems about FunAsr, for any number of start_asr per call, any retry  *)
(* limit and any set of faults.                                            *)
(***************************************************************************)
EXTENDS FunAsr, SequenceTheorems, TLAPS

USE DEF chanVars, flagVars, daVars, connVars, histVars, Goto

-----------------------------------------------------------------------------
(* Who owns a switch_da                                                    *)

\* The labels at which a sender's attempt has not been counted yet.
Uncounted == {"start", "open", "wait_conn", "loop", "reading", "after_loop",
              "close", "wait_close"}

\* Attempt k runs while ws_conn_retry is k; an attempt that sleeps before the
\* next one has counted itself and the limit allows the next.
RetryInv ==
    \A t \in Senders :
        /\ pc[t] \in Uncounted => ws_conn_retry[Da(t)] = t[2]
        /\ pc[t] = "retry_sleep" => /\ ws_conn_retry[Da(t)] = t[2] + 1
                                    /\ t[2] + 1 <= RetryMax

\* A running sender's object is allocated and not yet destroyed, it is the
\* object's only running sender, and an object never allocated is pristine.
OwnerInv ==
    /\ \A t \in Senders : pc[t] \in Owning => pool[Da(t)] = "live"
    /\ \A t, u \in Senders :
          pc[t] \in Owning /\ pc[u] \in Owning /\ Da(t) = Da(u) => t = u
    /\ \A p \in Pvts : pool[p] = "none" => ws_conn_retry[p] = 0

IInv == TypeOK /\ RetryInv /\ OwnerInv

\* The object of a sender is an object, and first attempts are senders.
LEMMA SenderFacts ==
    ASSUME FunAsrAssumption
    PROVE  /\ \A t \in Senders : Da(t) \in Pvts /\ t[2] \in 0..RetryMax
           /\ \A p \in Pvts : <<p, 0>> \in Senders
           /\ \A p \in Pvts : \A k \in 0..RetryMax :
                 <<p, k>> \in Senders /\ Da(<<p, k>>) = p
           /\ \A t \in Senders : t = <<Da(t), t[2]>>
BY DEF FunAsrAssumption, Senders, Attempts, Da

\* What is sent on a connection stays a sequence of messages.
LEMMA SentType ==
    ASSUME NEW t \in Senders, NEW m \in Messages, wire \in [Senders -> Seq(Messages)]
    PROVE  Sent(t, m) \in Seq(Messages)
BY DEF Sent

\* Every step of the session thread keeps the types.
LEMMA SessionTypes == FunAsrAssumption /\ IInv /\ SessionNext => TypeOK'
<1> SUFFICES ASSUME FunAsrAssumption, IInv, SessionNext PROVE TypeOK'
  OBVIOUS
<1> USE SenderFacts DEF FunAsrAssumption, IInv, TypeOK, Labels
<1>1. ASSUME NEW p \in Pvts, StartAsr(p) PROVE TypeOK'
  <2>1. pc' \in [Senders -> Labels]
    BY <1>1 DEF StartAsr
  <2>2. bug' \in [Pvts -> {"none", "attached", "removed"}]
    BY <1>1 DEF StartAsr
  <2>3. /\ priv' = p /\ pool' = [pool EXCEPT ![p] = "live"]
        /\ UNCHANGED <<ended, closing, step, flagVars, queue, connVars, histVars>>
    BY <1>1 DEF StartAsr
  <2> QED BY <2>1, <2>2, <2>3
<1>2. ASSUME NEW p \in Pvts, HangupBug(p) PROVE TypeOK'
  BY <1>2 DEF HangupBug, RemoveBug
<1>3. ASSUME NEW p \in Pvts, ReadFrame(p) PROVE TypeOK'
  <2>1. NextFrame(p) \in Frames
    BY DEF NextFrame, Frames
  <2>2. queue' = [queue EXCEPT ![p] = Append(queue[p], NextFrame(p))]
    BY <1>3 DEF ReadFrame
  <2>3. /\ Append(queue[p], NextFrame(p)) \in Seq(Frames)
        /\ Len(Append(queue[p], NextFrame(p))) <= QueueCap
    BY <1>3, <2>1 DEF ReadFrame, QueueHasRoom
  <2>4. /\ queue' \in [Pvts -> Seq(Frames)]
        /\ \A q \in Pvts : Len(queue'[q]) <= QueueCap
    BY <2>2, <2>3
  <2> QED BY <1>3, <2>4 DEF ReadFrame
<1>4. ASSUME NEW on \in BOOLEAN, PauseAsr(on) PROVE TypeOK'
  BY <1>4 DEF PauseAsr
<1>5. CASE StopAsr
  BY <1>5 DEF StopAsr, RemoveBug
<1>6. CASE Hangup
  BY <1>6 DEF Hangup
<1>7. CASE CloseFlag
  BY <1>7 DEF CloseFlag
<1>8. CASE CloseSignal
  BY <1>8 DEF CloseSignal
<1> QED
  BY <1>1, <1>2, <1>3, <1>4, <1>5, <1>6, <1>7, <1>8 DEF SessionNext

\* Every step of a sender thread keeps the types; the retry counter stays
\* within bounds because attempts are counted one by one.
LEMMA SenderTypes ==
    ASSUME FunAsrAssumption, IInv, NEW t \in Senders, SenderStep(t)
    PROVE  TypeOK'
<1> USE SenderFacts DEF FunAsrAssumption, IInv, TypeOK, Labels
<1>1. CASE Begin(t)
  BY <1>1 DEF Begin
<1>2. CASE OpenWs(t)
  BY <1>2 DEF OpenWs
<1>3. CASE WaitConnEnds(t)
  BY <1>3, ZenonT(30) DEF WaitConnEnds, AskClose
<1>4. CASE LoopTest(t)
  BY <1>4 DEF LoopTest
<1>5. CASE ReadAndSend(t)
  <2>1. Sent(t, "audio") \in Seq(Messages)
    BY SentType DEF Messages
  <2>2. queue[Da(t)] # <<>> => /\ Tail(queue[Da(t)]) \in Seq(Frames)
                               /\ Len(Tail(queue[Da(t)])) <= QueueCap
    OBVIOUS
  <2>3. /\ queue' \in [Pvts -> Seq(Frames)]
        /\ \A q \in Pvts : Len(queue'[q]) <= QueueCap
    <3>1. CASE queue' = queue
      BY <3>1
    <3>2. CASE /\ queue[Da(t)] # <<>>
               /\ queue' = [queue EXCEPT ![Da(t)] = Tail(queue[Da(t)])]
      BY <2>2, <3>2
    <3> QED BY <1>5, <3>1, <3>2 DEF ReadAndSend
  <2>4. wire' \in [Senders -> Seq(Messages)]
    BY <1>5, <2>1, ZenonT(40) DEF ReadAndSend
  <2> QED BY <1>5, <2>3, <2>4 DEF ReadAndSend
<1>6. CASE SayEnd(t)
  <2>1. Sent(t, "end") \in Seq(Messages)
    BY SentType DEF Messages
  <2> QED BY <1>6, <2>1 DEF SayEnd
<1>7. CASE CloseWs(t)
  BY <1>7 DEF CloseWs, AskClose
<1>8. CASE WaitCloseEnds(t)
  <2>1. ws_conn_retry[Da(t)] + 1 \in 0..RetryMax + 1
    BY <1>8 DEF WaitCloseEnds, RetryInv, Uncounted
  <2> QED BY <1>8, <2>1 DEF WaitCloseEnds
<1>9. CASE Retry(t)
  <2> DEFINE u == <<Da(t), t[2] + 1>>
  <2>1. CASE pc' = [pc EXCEPT ![t] = "unwind", ![u] = "start"]
    <3> HIDE DEF u
    <3>1. pc' \in [Senders -> Labels]
      BY <2>1
    <3> QED BY <1>9, <3>1 DEF Retry
  <2>2. CASE pc' = [pc EXCEPT ![t] = "destroy"]
    BY <1>9, <2>2 DEF Retry
  <2> QED BY <1>9, <2>1, <2>2 DEF Retry
<1>10. CASE DestroyTest(t)
  BY <1>10 DEF DestroyTest
<1>11. CASE EnterWait(t)
  BY <1>11 DEF EnterWait
<1>12. CASE FreePool(t)
  <2>1. <<>> \in Seq(Frames) /\ Len(<<>>) <= QueueCap
    OBVIOUS
  <2> QED BY <1>12, <2>1 DEF FreePool
<1>13. CASE JoinLoop(t)
  BY <1>13 DEF JoinLoop
<1> QED
  BY <1>1, <1>2, <1>3, <1>4, <1>5, <1>6, <1>7, <1>8, <1>9, <1>10, <1>11,
     <1>12, <1>13 DEF SenderStep

\* Every callback keeps the types.
LEMMA LoopTypes ==
    ASSUME FunAsrAssumption, IInv, NEW t \in Senders, LoopStep(t)
    PROVE  TypeOK'
<1> USE SenderFacts DEF FunAsrAssumption, IInv, TypeOK
<1>1. CASE TcpConnected(t)
  BY <1>1 DEF TcpConnected
<1>2. CASE OnOpenSend(t)
  <2>1. Sent(t, "init") \in Seq(Messages)
    BY SentType DEF Messages
  <2> QED BY <1>2, <2>1 DEF OnOpenSend, Freed
<1>3. CASE OnOpenFlags(t)
  BY <1>3 DEF OnOpenFlags, Freed
<1>4. CASE OnMessage(t)
  BY <1>4 DEF OnMessage, Freed
<1>5. CASE OnClose(t)
  BY <1>5 DEF OnClose, Freed
<1> QED BY <1>1, <1>2, <1>3, <1>4, <1>5 DEF LoopStep

-----------------------------------------------------------------------------
(* Ownership is inductive                                                  *)

\* Membership of the labels the steps below move to or from.
LEMMA LabelFacts ==
    /\ \A l \in Uncounted : l \in Owning
    /\ "start" \in Uncounted /\ "wait_close" \in Uncounted
    /\ "retry_sleep" \notin Uncounted /\ "destroy" \notin Uncounted
    /\ "free" \notin Uncounted
    /\ "retry_sleep" \in Owning /\ "destroy" \in Owning
    /\ "cond_wait" \in Owning /\ "free" \in Owning
    /\ "none" \notin Owning /\ "unwind" \notin Owning /\ "gone" \notin Owning
BY DEF Uncounted, Owning, Labels

\* A sender that moves on without counting its attempt, handing its object on
\* or freeing it keeps ownership as it is.
LEMMA KeepOwner ==
    ASSUME FunAsrAssumption, IInv, NEW t \in Senders, NEW l \in Owning,
           pc[t] \in Owning, l \in Uncounted => pc[t] \in Uncounted,
           l # "retry_sleep", Goto(t, l), UNCHANGED <<pool, ws_conn_retry>>
    PROVE  RetryInv' /\ OwnerInv'
BY SenderFacts, SMTT(30) DEF IInv, TypeOK, RetryInv, OwnerInv

\* The session thread creates an object's first sender and otherwise leaves
\* ownership alone.
LEMMA SessionOwner ==
    FunAsrAssumption /\ IInv /\ SessionNext => RetryInv' /\ OwnerInv'
<1> SUFFICES ASSUME FunAsrAssumption, IInv, SessionNext
             PROVE  RetryInv' /\ OwnerInv'
  OBVIOUS
<1> USE SenderFacts, LabelFacts DEF IInv, TypeOK, RetryInv, OwnerInv
<1>1. ASSUME NEW p \in Pvts, StartAsr(p) PROVE RetryInv' /\ OwnerInv'
  <2> DEFINE s == <<p, 0>>
  <2>1. s \in Senders /\ Da(s) = p /\ s[2] = 0
    BY DEF FunAsrAssumption
  <2>2. /\ pool[p] = "none" /\ pool' = [pool EXCEPT ![p] = "live"]
        /\ ws_conn_retry' = ws_conn_retry
        /\ pc' = [pc EXCEPT ![s] = "start"] \/ pc' = pc
    BY <1>1 DEF StartAsr
  <2> HIDE DEF s
  <2>3. \A t \in Senders : Da(t) = p => pc[t] \notin Owning
    BY <2>2
  <2>4. ws_conn_retry[p] = 0
    BY <2>2
  <2>6. /\ \A t \in Senders \ {s} : pc'[t] = pc[t]
        /\ pc'[s] = pc[s] \/ pc'[s] = "start"
    BY <2>1, <2>2
  <2>5. RetryInv'
    BY <2>1, <2>2, <2>4, <2>6
  <2>7. \A t \in Senders : pc'[t] \in Owning =>
           t = s \/ (pc[t] \in Owning /\ Da(t) # p)
    BY <2>3, <2>6
  <2>8. OwnerInv'
    <3>1. \A t \in Senders : pc'[t] \in Owning => pool'[Da(t)] = "live"
      BY <2>1, <2>2, <2>7
    <3>2. \A t, u \in Senders :
             pc'[t] \in Owning /\ pc'[u] \in Owning /\ Da(t) = Da(u) => t = u
      BY <2>1, <2>7
    <3>3. \A q \in Pvts : pool'[q] = "none" => ws_conn_retry'[q] = 0
      BY <2>2
    <3> QED BY <3>1, <3>2, <3>3
  <2> QED BY <2>5, <2>8
<1>2. CASE CloseSignal
  <2>1. \A t \in Senders : \/ pc'[t] = pc[t]
                           \/ pc[t] = "cond_wait" /\ pc'[t] = "free"
    BY <1>2 DEF CloseSignal
  <2>2. UNCHANGED <<pool, ws_conn_retry>>
    BY <1>2 DEF CloseSignal
  <2>3. RetryInv'
    BY <2>1, <2>2, ZenonT(30)
  <2>4. \A t \in Senders : pc'[t] \in Owning => pc[t] \in Owning
    BY ONLY <2>1, LabelFacts
  <2>5. OwnerInv'
    BY <2>2, <2>4
  <2> QED BY <2>3, <2>5
<1>3. CASE UNCHANGED <<pool, ws_conn_retry, pc>>
  BY <1>3
<1> QED
  BY <1>1, <1>2, <1>3
  DEF SessionNext, HangupBug, ReadFrame, PauseAsr, StopAsr, Hangup, CloseFlag

\* A sender hands its object on (Retry), destroys it (FreePool) or keeps it.
LEMMA SenderOwner ==
    ASSUME FunAsrAssumption, IInv, NEW t \in Senders, SenderStep(t)
    PROVE  RetryInv' /\ OwnerInv'
<1>1. CASE \/ Begin(t) \/ OpenWs(t) \/ WaitConnEnds(t) \/ LoopTest(t)
           \/ ReadAndSend(t) \/ SayEnd(t) \/ CloseWs(t) \/ DestroyTest(t)
           \/ EnterWait(t)
  <2>1. PICK l \in Owning :
           /\ pc[t] \in Owning /\ (l \in Uncounted => pc[t] \in Uncounted)
           /\ l # "retry_sleep" /\ Goto(t, l)
    BY <1>1, Zenon
    DEF Begin, OpenWs, WaitConnEnds, LoopTest, ReadAndSend, SayEnd, CloseWs,
        DestroyTest, EnterWait, Owning, Labels, Uncounted
  <2>2. UNCHANGED <<pool, ws_conn_retry>>
    BY <1>1
    DEF Begin, OpenWs, WaitConnEnds, LoopTest, ReadAndSend, SayEnd, CloseWs,
        DestroyTest, EnterWait
  <2> QED BY <2>1, <2>2, KeepOwner
<1> USE SenderFacts, LabelFacts DEF IInv, TypeOK, RetryInv, OwnerInv
<1>2. CASE WaitCloseEnds(t)
  <2>1. /\ pc[t] = "wait_close" /\ pool' = pool
        /\ ws_conn_retry' = [ws_conn_retry EXCEPT ![Da(t)] = @ + 1]
    BY <1>2 DEF WaitCloseEnds
  <2>2. \/ pc' = [pc EXCEPT ![t] = "destroy"]
        \/ /\ pc' = [pc EXCEPT ![t] = "retry_sleep"]
           /\ ws_conn_retry[Da(t)] + 1 <= RetryMax
    BY <1>2 DEF WaitCloseEnds
  <2>3. \A u \in Senders \ {t} : pc'[u] = pc[u]
    BY <2>2
  <2>4. \A u \in Senders \ {t} : Da(u) = Da(t) => pc[u] \notin Owning
    BY <2>1
  <2>5. ws_conn_retry[Da(t)] = t[2] /\ pool[Da(t)] = "live"
    BY <2>1
  <2>6. RetryInv'
    <3>1. ASSUME NEW u \in Senders, u # t, Da(u) = Da(t)
          PROVE  pc'[u] \notin Uncounted /\ pc'[u] # "retry_sleep"
      BY <2>3, <2>4, <3>1
    <3>2. ASSUME NEW u \in Senders, Da(u) # Da(t)
          PROVE  pc'[u] = pc[u] /\ ws_conn_retry'[Da(u)] = ws_conn_retry[Da(u)]
      BY <2>1, <2>3, <3>2
    <3>3. /\ pc'[t] \notin Uncounted
          /\ pc'[t] = "retry_sleep" => /\ ws_conn_retry'[Da(t)] = t[2] + 1
                                       /\ t[2] + 1 <= RetryMax
      BY <2>1, <2>2, <2>5
    <3> QED BY <3>1, <3>2, <3>3
  <2>7. OwnerInv'
    <3>1. pc'[t] \in Owning /\ pc[t] \in Owning
      BY <2>1, <2>2
    <3>2. \A u \in Senders : pc'[u] \in Owning <=> pc[u] \in Owning
      BY <2>3, <3>1
    <3>3. \A p \in Pvts : pool[p] = "none" => ws_conn_retry'[p] = 0
      BY <2>1, <2>5
    <3> QED BY <2>1, <3>2, <3>3
  <2> QED BY <2>6, <2>7
<1>3. CASE Retry(t)
  <2> DEFINE u == <<Da(t), t[2] + 1>>
  <2>1. pc[t] = "retry_sleep" /\ pool' = pool /\ ws_conn_retry' = ws_conn_retry
    BY <1>3 DEF Retry
  <2>2. u \in Senders /\ Da(u) = Da(t) /\ u[2] = t[2] + 1 /\ u # t
    BY <2>1 DEF FunAsrAssumption
  <2>3. \/ pc' = [pc EXCEPT ![t] = "unwind", ![u] = "start"]
        \/ pc' = [pc EXCEPT ![t] = "destroy"]
    BY <1>3 DEF Retry
  <2> HIDE DEF u
  <2>4. \A v \in Senders \ {t} : Da(v) = Da(t) => pc[v] \notin Owning
    BY <2>1
  <2>5. CASE pc' = [pc EXCEPT ![t] = "destroy"]
    BY <2>1, <2>5, KeepOwner, SMTT(30)
  <2>6. CASE pc' = [pc EXCEPT ![t] = "unwind", ![u] = "start"]
    <3>1. /\ pc'[t] = "unwind" /\ pc'[u] = "start"
          /\ \A v \in Senders \ {t, u} : pc'[v] = pc[v]
      BY <2>2, <2>6
    <3>2. ws_conn_retry[Da(u)] = u[2] /\ pool[Da(u)] = "live"
      BY <2>1, <2>2
    <3>3. RetryInv'
      BY <2>1, <3>1, <3>2, ZenonT(30)
    <3>4. \A v \in Senders : pc'[v] \in Owning =>
             v = u \/ (pc[v] \in Owning /\ Da(v) # Da(u))
      BY ONLY <2>2, <2>4, <3>1, LabelFacts
    <3>5. OwnerInv'
      BY <2>1, <3>2, <3>4
    <3> QED BY <3>3, <3>5
  <2> QED BY <2>3, <2>5, <2>6
<1>4. CASE FreePool(t) \/ JoinLoop(t)
  <2>1. /\ pc[t] \in {"free", "unwind"} /\ ws_conn_retry' = ws_conn_retry
        /\ pc' = [pc EXCEPT ![t] = "unwind"] \/ pc' = [pc EXCEPT ![t] = "gone"]
        /\ \/ pool' = pool
           \/ pc[t] = "free" /\ pool' = [pool EXCEPT ![Da(t)] = "freed"]
    BY <1>4 DEF FreePool, JoinLoop
  <2>2. pc'[t] \notin Owning /\ \A u \in Senders \ {t} : pc'[u] = pc[u]
    BY <2>1
  <2>3. \A u \in Senders : pc'[u] \in Owning => pool'[Da(u)] = "live"
    <3>1. CASE pool' = pool
      BY <2>2, <3>1
    <3>2. CASE pc[t] = "free" /\ pool' = [pool EXCEPT ![Da(t)] = "freed"]
      <4>1. \A u \in Senders \ {t} : pc[u] \in Owning => Da(u) # Da(t)
        BY <3>2
      <4> QED BY <2>2, <3>2, <4>1, ZenonT(30)
    <3> QED BY <2>1, <3>1, <3>2
  <2>4. RetryInv'
    <3>1. pc'[t] \notin Uncounted /\ pc'[t] # "retry_sleep"
      BY <2>2
    <3> QED BY <2>1, <2>2, <3>1
  <2>5. \A p \in Pvts : pool'[p] = "none" => ws_conn_retry'[p] = 0
    BY <2>1
  <2>6. \A u, v \in Senders :
           pc'[u] \in Owning /\ pc'[v] \in Owning /\ Da(u) = Da(v) => u = v
    BY <2>2
  <2>7. OwnerInv'
    BY <2>3, <2>5, <2>6
  <2> QED BY <2>4, <2>7
<1> QED
  BY <1>1, <1>2, <1>3, <1>4 DEF SenderStep

\* Whatever goes wrong, the invariant survives every step.
LEMMA IInvStep == FunAsrAssumption /\ IInv /\ [Next]_vars => IInv'
<1> SUFFICES ASSUME FunAsrAssumption, IInv, [Next]_vars PROVE IInv'
  OBVIOUS
<1>1. CASE SessionNext
  BY <1>1, SessionTypes, SessionOwner DEF IInv
<1>2. ASSUME NEW t \in Senders, SenderStep(t) PROVE IInv'
  BY <1>2, SenderTypes, SenderOwner DEF IInv
<1>3. ASSUME NEW t \in Senders, SpuriousWake(t) PROVE IInv'
  BY <1>3, SenderFacts, SMTT(20)
  DEF SpuriousWake, IInv, TypeOK, RetryInv, OwnerInv, Owning, Labels, Uncounted
<1>4. ASSUME NEW t \in Senders, LoopStep(t) PROVE IInv'
  <2>1. UNCHANGED <<pc, pool, ws_conn_retry>>
    BY <1>4 DEF LoopStep, TcpConnected, OnOpenSend, OnOpenFlags, OnMessage, OnClose
  <2>2. TypeOK'
    BY <1>4, LoopTypes
  <2> QED BY <2>1, <2>2 DEF IInv, RetryInv, OwnerInv
<1>5. CASE UNCHANGED vars
  BY <1>5 DEF vars, IInv, TypeOK, RetryInv, OwnerInv
<1> QED BY <1>1, <1>2, <1>3, <1>4, <1>5 DEF Next

\* A fresh call satisfies the invariant.
LEMMA IInvInit == FunAsrAssumption /\ Init => IInv
<1> SUFFICES ASSUME FunAsrAssumption, Init PROVE IInv
  OBVIOUS
<1>1. TypeOK
  <2>1. 0 \in 0..RetryMax + 1
    BY DEF FunAsrAssumption
  <2>2. <<>> \in Seq(Frames) /\ <<>> \in Seq(Messages)
    OBVIOUS
  <2>3. queue \in [Pvts -> Seq(Frames)] /\ wire \in [Senders -> Seq(Messages)]
    BY <2>2 DEF Init
  <2>4. \A p \in Pvts : Len(queue[p]) <= QueueCap
    <3>1. \A p \in Pvts : queue[p] = <<>>
      BY DEF Init
    <3>2. Len(<<>>) <= QueueCap
      BY DEF FunAsrAssumption
    <3> QED BY <3>1, <3>2
  <2> QED BY <2>1, <2>3, <2>4 DEF Init, TypeOK, Labels
<1>2. \A t \in Senders : pc[t] = "none"
  BY DEF Init
<1>3. RetryInv /\ OwnerInv
  BY <1>2, LabelFacts DEF Init, RetryInv, OwnerInv
<1> QED BY <1>1, <1>3 DEF IInv

\* The types hold throughout a call; in particular the audio queue stays
\* within its capacity and the retry counter never exceeds the limit by more
\* than the last attempt.
THEOREM TypeCorrect == Spec => []TypeOK
<1>1. IInv => TypeOK
  BY DEF IInv
<1> QED BY FunAsrAssumption, IInvInit, IInvStep, <1>1, PTL DEF Spec

\* However often the sender reconnects and whichever step fails, one thread at
\* a time uses a switch_da and none does after destroy().
THEOREM SingleOwnerCorrect == Spec => []SingleOwner
<1>1. IInv => SingleOwner
  <2> SUFFICES ASSUME IInv, NEW p \in Pvts, NEW j \in Attempts, NEW k \in Attempts,
                      pc[<<p, j>>] \in Owning
               PROVE  /\ ~Freed(p)
                      /\ j # k => pc[<<p, k>>] \notin Owning
    BY DEF SingleOwner
  <2>1. /\ <<p, j>> \in Senders /\ <<p, k>> \in Senders
        /\ Da(<<p, j>>) = p /\ Da(<<p, k>>) = p
        /\ j # k => <<p, j>> # <<p, k>>
    BY DEF Senders, Da
  <2> QED BY <2>1 DEF IInv, OwnerInv, Freed
<1> QED BY FunAsrAssumption, IInvInit, IInvStep, <1>1, PTL DEF Spec

-----------------------------------------------------------------------------
(* READ, pause_asr and stop_asr never meet a destroyed switch_da           *)

\* The channel's private still leads to the object.
Reaches(p) == priv = p /\ ~ended

\* Only a set hangup flag or a wake-up without a signal leads to the pool being
\* freed; the flag is set only for an object whose bug is removed and which the
\* applications can no longer find.
LifeInv ==
    /\ FreedAfterHangup
    /\ SessionSeesLivePvt
    /\ \A t \in Senders : pc[t] = "free" => hangup[Da(t)] \/ Da(t) \in woken
    /\ \A p \in Pvts : hangup[p] => bug[p] = "removed" /\ ~Reaches(p)
    /\ \A p \in Pvts : pool[p] = "none" => ~hangup[p] /\ bug[p] = "none"
    /\ step = "flag" => bug[closing] = "removed" /\ ~Reaches(closing)
    /\ step = "signal" => hangup[closing]

\* A fresh call has nothing to reach.
LEMMA LifeInit == FunAsrAssumption /\ Init => LifeInv
BY DEF Init, LifeInv, FreedAfterHangup, SessionSeesLivePvt, Freed, FunAsrAssumption

\* Every step keeps the lifetimes in order.
LEMMA LifeStep ==
    ASSUME FunAsrAssumption, IInv, LifeInv, [Next]_vars
    PROVE  LifeInv'
<1> USE SenderFacts
    DEF FunAsrAssumption, IInv, TypeOK, LifeInv, FreedAfterHangup,
        SessionSeesLivePvt, Freed, Reaches
<1>1. CASE SessionNext
  <2>1. ASSUME NEW p \in Pvts, StartAsr(p) PROVE LifeInv'
    <3>1. \A t \in Senders : pc'[t] = "free" => pc[t] = "free"
      <4> DEFINE s == <<p, 0>>
      <4>1. pc' = [pc EXCEPT ![s] = "start"] \/ pc' = pc
        BY <2>1 DEF StartAsr
      <4> HIDE DEF s
      <4>2. \A t \in Senders : pc'[t] = pc[t] \/ pc'[t] = "start"
        BY <4>1
      <4> QED BY <4>2
    <3>2. /\ \A q \in Pvts : bug'[q] = bug[q] \/ q = p
          /\ ~hangup[p]
      BY <2>1 DEF StartAsr
    <3>3. /\ pool[p] = "none" /\ pool' = [pool EXCEPT ![p] = "live"]
          /\ priv' = p /\ step = "idle" /\ ~ended
          /\ UNCHANGED <<hangup, step, closing, ended, woken>>
      BY <2>1 DEF StartAsr, SessionIdle
    <3> QED BY <3>1, <3>2, <3>3
  <2>2. ASSUME NEW p \in Pvts, HangupBug(p) PROVE LifeInv'
    BY <2>2 DEF HangupBug, RemoveBug
  <2>3. ASSUME NEW p \in Pvts, ReadFrame(p) PROVE LifeInv'
    BY <2>3 DEF ReadFrame
  <2>4. ASSUME NEW on \in BOOLEAN, PauseAsr(on) PROVE LifeInv'
    BY <2>4 DEF PauseAsr
  <2>5. CASE StopAsr
    BY <2>5 DEF StopAsr, RemoveBug, SessionIdle
  <2>6. CASE Hangup
    BY <2>6 DEF Hangup, SessionIdle
  <2>7. CASE CloseFlag
    <3>1. closing \in Pvts /\ UNCHANGED <<priv, ended, pool, bug, pc, woken>>
      BY <2>7 DEF CloseFlag
    <3>2. CASE /\ pool[closing] = "live" /\ step' = "signal" /\ closing' = closing
               /\ hangup' = [hangup EXCEPT ![closing] = TRUE]
      BY <2>7, <3>1, <3>2 DEF CloseFlag
    <3>3. CASE step' = "idle" /\ hangup' = hangup
      BY <3>1, <3>3
    <3> QED BY <2>7, <3>2, <3>3 DEF CloseFlag
  <2>8. CASE CloseSignal
    BY <2>8 DEF CloseSignal
  <2> QED
    BY <1>1, <2>1, <2>2, <2>3, <2>4, <2>5, <2>6, <2>7, <2>8 DEF SessionNext
<1>2. ASSUME NEW t \in Senders, SenderStep(t) PROVE LifeInv'
  <2>1. UNCHANGED <<chanVars, bug, hangup, woken>>
    BY <1>2
    DEF SenderStep, Begin, OpenWs, WaitConnEnds, LoopTest, ReadAndSend, SayEnd,
        CloseWs, WaitCloseEnds, Retry, DestroyTest, EnterWait, FreePool, JoinLoop
  <2>2. \/ pool' = pool
        \/ pc[t] = "free" /\ pool' = [pool EXCEPT ![Da(t)] = "freed"]
    BY <1>2
    DEF SenderStep, Begin, OpenWs, WaitConnEnds, LoopTest, ReadAndSend, SayEnd,
        CloseWs, WaitCloseEnds, Retry, DestroyTest, EnterWait, FreePool, JoinLoop
  <2>3. \A u \in Senders : pc'[u] = "free" => hangup[Da(u)] \/ Da(u) \in woken
    <3>1. CASE DestroyTest(t)
      BY <3>1 DEF DestroyTest
    <3>2. CASE Retry(t)
      <4> DEFINE v == <<Da(t), t[2] + 1>>
      <4>1. \/ pc' = [pc EXCEPT ![t] = "unwind", ![v] = "start"]
            \/ pc' = [pc EXCEPT ![t] = "destroy"]
        BY <3>2 DEF Retry
      <4> HIDE DEF v
      <4>2. CASE pc' = [pc EXCEPT ![t] = "unwind", ![v] = "start"]
        <5>1. ASSUME NEW u \in Senders PROVE pc'[u] = "free" => pc[u] = "free"
          BY <4>2 DEF TypeOK
        <5> QED BY <5>1
      <4>3. CASE pc' = [pc EXCEPT ![t] = "destroy"]
        BY <4>3
      <4> QED BY <4>1, <4>2, <4>3
    <3>3. CASE \/ Begin(t) \/ OpenWs(t) \/ WaitConnEnds(t) \/ LoopTest(t)
               \/ ReadAndSend(t) \/ SayEnd(t) \/ CloseWs(t) \/ WaitCloseEnds(t)
               \/ EnterWait(t) \/ FreePool(t) \/ JoinLoop(t)
      <4>1. PICK l : Goto(t, l) /\ l # "free"
        BY <3>3
        DEF Begin, OpenWs, WaitConnEnds, LoopTest, ReadAndSend, SayEnd, CloseWs,
            WaitCloseEnds, EnterWait, FreePool, JoinLoop
      <4> QED BY <4>1
    <3> QED BY <1>2, <3>1, <3>2, <3>3 DEF SenderStep
  <2> QED BY <2>1, <2>2, <2>3
<1>3. ASSUME NEW t \in Senders, SpuriousWake(t) PROVE LifeInv'
  BY <1>3 DEF SpuriousWake
<1>4. ASSUME NEW t \in Senders, LoopStep(t) PROVE LifeInv'
  <2>1. UNCHANGED <<chanVars, pc, pool, bug, hangup, woken>>
    BY <1>4 DEF LoopStep, TcpConnected, OnOpenSend, OnOpenFlags, OnMessage, OnClose
  <2> QED BY <2>1
<1>5. CASE UNCHANGED vars
  BY <1>5 DEF vars
<1> QED BY <1>1, <1>2, <1>3, <1>4, <1>5 DEF Next

\* READ, pause_asr and stop_asr only ever see a live switch_da, for any retry
\* limit and every fault, unless the wait of its destroy() returned without a
\* signal.  Nothing is said of CLOSE between its flag and its signal.
THEOREM SessionSafe == Spec => []SessionSeesLivePvt
<1>1. Init => IInv /\ LifeInv
  BY FunAsrAssumption, IInvInit, LifeInit
<1>2. IInv /\ LifeInv /\ [Next]_vars => (IInv /\ LifeInv)'
  BY FunAsrAssumption, IInvStep, LifeStep
<1>3. LifeInv => SessionSeesLivePvt
  BY DEF LifeInv
<1> QED BY <1>1, <1>2, <1>3, PTL DEF Spec

\* destroy() frees the pool only after the CLOSE callback has set hangup, for
\* any retry limit and every fault, unless its wait returned without a signal.
THEOREM DestroySafe == Spec => []FreedAfterHangup
<1>1. Init => IInv /\ LifeInv
  BY FunAsrAssumption, IInvInit, LifeInit
<1>2. IInv /\ LifeInv /\ [Next]_vars => (IInv /\ LifeInv)'
  BY FunAsrAssumption, IInvStep, LifeStep
<1>3. LifeInv => FreedAfterHangup
  BY DEF LifeInv
<1> QED BY <1>1, <1>2, <1>3, PTL DEF Spec

-----------------------------------------------------------------------------
(* Attempts are made one after the other                                   *)

\* No attempt is made for an object before start_asr, nor one after the attempt
\* that owns the object.
FreshInv ==
    /\ \A t \in Senders : pool[Da(t)] = "none" => pc[t] = "none"
    /\ \A t, u \in Senders :
          pc[t] \in Owning /\ Da(u) = Da(t) /\ u[2] > t[2] => pc[u] = "none"

\* Nothing runs before the first start_asr.
LEMMA FreshInit == Init => FreshInv
<1>1. ASSUME Init PROVE \A t \in Senders : pc[t] = "none"
  BY <1>1 DEF Init
<1> QED BY <1>1 DEF FreshInv

\* A sender that moves without creating another one keeps the order.
LEMMA KeepFresh ==
    ASSUME FunAsrAssumption, IInv, FreshInv, NEW t \in Senders, NEW l, Goto(t, l),
           pc[t] # "none", l \in Owning => pc[t] \in Owning,
           \A p \in Pvts : pool'[p] = "none" => pool[p] = "none"
    PROVE  FreshInv'
<1>1. pc' = [pc EXCEPT ![t] = l] /\ pc \in [Senders -> Labels]
  BY DEF IInv, TypeOK
<1>2. /\ \A u \in Senders : pc[u] = "none" => pc'[u] = "none"
      /\ \A u \in Senders : pc'[u] \in Owning => pc[u] \in Owning
  BY <1>1
<1>3. \A u \in Senders : Da(u) \in Pvts
  BY SenderFacts
<1> QED BY <1>2, <1>3 DEF FreshInv

\* Only start_asr and a reconnection begin an attempt.
LEMMA FreshStep == FunAsrAssumption /\ IInv /\ FreshInv /\ [Next]_vars => FreshInv'
<1> SUFFICES ASSUME FunAsrAssumption, IInv, FreshInv, [Next]_vars PROVE FreshInv'
  OBVIOUS
<1>1. CASE SessionNext
  <2>1. ASSUME NEW p \in Pvts, StartAsr(p) PROVE FreshInv'
    <3> DEFINE s == <<p, 0>>
    <3>1. /\ s \in Senders /\ Da(s) = p /\ s[2] = 0
          /\ \A u \in Senders : Da(u) \in Pvts /\ u[2] \in 0..RetryMax
          /\ \A u \in Senders : Da(u) = p /\ u[2] = 0 => u = s
      BY SenderFacts DEF FunAsrAssumption
    <3>2. /\ pool[p] = "none" /\ pool' = [pool EXCEPT ![p] = "live"]
          /\ pc' = [pc EXCEPT ![s] = "start"] \/ pc' = pc
      BY <2>1 DEF StartAsr
    <3> HIDE DEF s
    <3>3. pool \in [Pvts -> {"none", "live", "freed"}] /\ pc \in [Senders -> Labels]
      BY DEF IInv, TypeOK
    <3>4. /\ \A u \in Senders : Da(u) = p => pc[u] = "none"
          /\ \A u \in Senders : u # s => pc'[u] = pc[u]
          /\ \A u \in Senders : pool'[Da(u)] = "none" => pool[Da(u)] = "none" /\ Da(u) # p
      BY <3>1, <3>2, <3>3 DEF FreshInv
    <3>5. \A u \in Senders : pool'[Da(u)] = "none" => pc'[u] = "none"
      BY <3>1, <3>4 DEF FreshInv
    <3>6. ASSUME NEW t \in Senders, NEW u \in Senders,
                 pc'[t] \in Owning, Da(u) = Da(t), u[2] > t[2]
          PROVE  pc'[u] = "none"
      <4>1. u # s
        BY <3>1, <3>6
      <4>2. CASE Da(t) = p
        BY <3>4, <3>6, <4>1, <4>2
      <4>3. CASE Da(t) # p
        BY <3>1, <3>4, <3>6, <4>1, <4>3 DEF FreshInv
      <4> QED BY <4>2, <4>3
    <3> QED BY <3>5, <3>6 DEF FreshInv
  <2>2. CASE CloseSignal
    <3>1. \A t \in Senders : \/ pc'[t] = pc[t]
                             \/ pc[t] = "cond_wait" /\ pc'[t] = "free"
      BY <2>2 DEF CloseSignal
    <3>2. UNCHANGED pool
      BY <2>2 DEF CloseSignal
    <3>3. /\ \A u \in Senders : pc[u] = "none" => pc'[u] = "none"
          /\ \A u \in Senders : pc'[u] \in Owning => pc[u] \in Owning
      BY <3>1, LabelFacts
    <3> QED BY <3>2, <3>3 DEF FreshInv
  <2>3. CASE UNCHANGED <<pool, pc>>
    BY <2>3 DEF FreshInv
  <2> QED
    BY <1>1, <2>1, <2>2, <2>3
    DEF SessionNext, HangupBug, ReadFrame, PauseAsr, StopAsr, Hangup, CloseFlag
<1>2. ASSUME NEW t \in Senders, SenderStep(t) \/ SpuriousWake(t) PROVE FreshInv'
  <2> DEFINE u == <<Da(t), t[2] + 1>>
  <2>1. CASE Retry(t) /\ pc' = [pc EXCEPT ![t] = "unwind", ![u] = "start"]
    <3>1. /\ pc[t] = "retry_sleep" /\ pool' = pool
          /\ pc \in [Senders -> Labels] /\ Da(t) \in Pvts
      BY <2>1, SenderFacts DEF Retry, IInv, TypeOK
    <3>2. /\ u \in Senders /\ Da(u) = Da(t) /\ u[2] = t[2] + 1 /\ u # t
          /\ t[2] \in Nat
      BY <3>1, SenderFacts DEF FunAsrAssumption, IInv, RetryInv
    <3> HIDE DEF u
    <3>3. /\ pc'[t] = "unwind" /\ pc'[u] = "start"
          /\ \A v \in Senders \ {t, u} : pc'[v] = pc[v]
          /\ pc[t] \in Owning /\ pool[Da(t)] = "live"
      BY <2>1, <3>1, <3>2, LabelFacts DEF IInv, OwnerInv
    <3>4. \A v \in Senders : pool'[Da(v)] = "none" => pc'[v] = "none"
      BY <3>1, <3>2, <3>3 DEF FreshInv
    <3>5. ASSUME NEW v \in Senders, NEW w \in Senders,
                 pc'[v] \in Owning, Da(w) = Da(v), w[2] > v[2]
          PROVE  pc'[w] = "none"
      <4>1. v # t /\ w[2] \in Nat /\ v[2] \in Nat
        BY <3>3, <3>5, LabelFacts, SenderFacts DEF FunAsrAssumption
      <4>2. CASE v = u
        <5>1. w # t /\ w # u /\ w[2] > t[2]
          BY <3>2, <3>5, <4>1, <4>2
        <5>2. pc[w] = "none"
          BY <3>2, <3>3, <3>5, <4>2, <5>1 DEF FreshInv
        <5> QED BY <3>3, <5>1, <5>2
      <4>3. CASE v # u
        <5>1. pc[v] \in Owning
          BY <3>3, <3>5, <4>1, <4>3
        <5>2. Da(v) # Da(t)
          BY <3>3, <4>1, <5>1 DEF IInv, OwnerInv
        <5>3. w # t /\ w # u
          BY <3>2, <3>5, <5>2
        <5> QED BY <3>3, <3>5, <5>1, <5>3 DEF FreshInv
      <4> QED BY <4>2, <4>3
    <3> QED BY <3>4, <3>5 DEF FreshInv
  <2>2. ASSUME ~(Retry(t) /\ pc' = [pc EXCEPT ![t] = "unwind", ![u] = "start"])
        PROVE  /\ pc[t] # "none"
               /\ \E l : Goto(t, l) /\ (l \in Owning => pc[t] \in Owning)
    BY <1>2, <2>2, Zenon
    DEF SenderStep, SpuriousWake, Begin, OpenWs, WaitConnEnds, LoopTest, ReadAndSend,
        SayEnd, CloseWs, WaitCloseEnds, Retry, DestroyTest, EnterWait, FreePool, JoinLoop,
        Owning, Labels
  <2>3. \A p \in Pvts : pool'[p] = "none" => pool[p] = "none"
    <3>1. pool' = pool \/ pool' = [pool EXCEPT ![Da(t)] = "freed"]
      BY <1>2
      DEF SenderStep, SpuriousWake, Begin, OpenWs, WaitConnEnds, LoopTest, ReadAndSend,
          SayEnd, CloseWs, WaitCloseEnds, Retry, DestroyTest, EnterWait, FreePool, JoinLoop
    <3> QED BY <3>1 DEF IInv, TypeOK
  <2> QED BY <2>1, <2>2, <2>3, KeepFresh
<1>3. ASSUME NEW t \in Senders, LoopStep(t) PROVE FreshInv'
  <2>1. UNCHANGED <<pc, pool>>
    BY <1>3 DEF LoopStep, TcpConnected, OnOpenSend, OnOpenFlags, OnMessage, OnClose
  <2> QED BY <2>1 DEF FreshInv
<1>4. CASE UNCHANGED vars
  BY <1>4 DEF vars, FreshInv
<1> QED BY <1>1, <1>2, <1>3, <1>4 DEF Next

-----------------------------------------------------------------------------
(* The loop threads never meet a destroyed switch_da                       *)

\* The connection of attempt t calls back no more.
Quiet(t) == sock[t] \in {"none", "failed", "closed", "joined"} /\ cb[t] = "none"

\* Before the connection is opened, and after the wait for its onclose.
Unopened == {"none", "start", "open"}
Waited == {"retry_sleep", "destroy", "enter_wait", "cond_wait", "free", "unwind", "gone"}

\* A sender opens its connection once and waits for the end of it before it
\* hands its object on or destroys it; an onopen that runs keeps it open.
QuietOf(t) ==
    /\ pc[t] \in Waited => Quiet(t)
    /\ pc[t] \in Unopened => sock[t] = "none" /\ ~closed[t] /\ cb[t] = "none"
    /\ cb[t] = "onopen" => sock[t] = "open"
    /\ closed[t] => sock[t] \in {"closed", "joined"}

QuietInv == (\A t \in Senders : QuietOf(t)) /\ CallbacksSeeLivePvt

\* Nothing runs before the first start_asr.
LEMMA QuietInit == Init => QuietInv
<1> SUFFICES ASSUME Init PROVE QuietInv
  OBVIOUS
<1>1. \A t \in Senders : pc[t] = "none" /\ sock[t] = "none" /\ ~closed[t] /\ cb[t] = "none"
  BY DEF Init
<1>2. ~late
  BY DEF Init
<1> QED BY <1>1, <1>2 DEF QuietInv, QuietOf, Quiet, Waited, Unopened, CallbacksSeeLivePvt

\* A callback runs on an object that is not destroyed.
LEMMA RunsOnLive ==
    ASSUME IInv, QuietInv, NEW t \in Senders, ~Quiet(t)
    PROVE  pc[t] \in Owning /\ ~Freed(Da(t))
<1>1. pc[t] \in Labels /\ QuietOf(t)
  BY DEF IInv, TypeOK, QuietInv
<1>2. pc[t] \in Owning
  BY <1>1 DEF QuietOf, Quiet, Waited, Unopened, Owning, Labels
<1> QED
  BY <1>2 DEF IInv, OwnerInv, Freed

\* What is not the step's attempt stays as it is.
LEMMA OthersQuiet ==
    ASSUME QuietInv, NEW t \in Senders,
           \A u \in Senders \ {t} : /\ pc'[u] = pc[u] /\ sock'[u] = sock[u]
                                    /\ cb'[u] = cb[u] /\ closed'[u] = closed[u],
           QuietOf(t)', CallbacksSeeLivePvt'
    PROVE  QuietInv'
<1>1. ASSUME NEW u \in Senders \ {t} PROVE QuietOf(u)'
  BY DEF QuietInv, QuietOf, Quiet
<1> QED BY <1>1 DEF QuietInv

\* If the sender waits for onclose as long as it takes, its steps keep it.
LEMMA SenderQuiet ==
    ASSUME FunAsrAssumption, Faults \cap {"slow_close", "resampler"} = {},
           IInv, FreshInv, QuietInv,
           NEW t \in Senders, SenderStep(t) \/ SpuriousWake(t)
    PROVE  QuietInv'
<1>1. /\ pc \in [Senders -> Labels] /\ QuietOf(t)
      /\ sock \in [Senders -> {"none", "connecting", "failed", "upgrading", "open",
                               "closed", "joined"}]
      /\ cb \in [Senders -> {"none", "onopen"}]
      /\ closed \in [Senders -> BOOLEAN]
  BY DEF IInv, TypeOK, QuietInv
<1>2. late' = late /\ cb' = cb /\ closed' = closed
  BY <1>1, SenderFacts
  DEF SenderStep, SpuriousWake, Begin, OpenWs, WaitConnEnds, LoopTest, ReadAndSend,
      SayEnd, CloseWs, WaitCloseEnds, Retry, DestroyTest, EnterWait, FreePool, JoinLoop,
      AskClose
<1> DEFINE v == <<Da(t), t[2] + 1>>
<1>3. CASE Retry(t) /\ pc' = [pc EXCEPT ![t] = "unwind", ![v] = "start"]
  <2>1. pc[t] = "retry_sleep" /\ sock' = sock
    BY <1>3 DEF Retry
  <2>2. v \in Senders /\ Da(v) = Da(t) /\ v[2] > t[2] /\ v # t
    BY <2>1, SenderFacts DEF FunAsrAssumption, IInv, RetryInv
  <2> HIDE DEF v
  <2>3. pc[v] = "none"
    BY <2>1, <2>2, LabelFacts DEF FreshInv
  <2>4. /\ pc'[t] = "unwind" /\ pc'[v] = "start"
        /\ \A u \in Senders \ {t, v} : pc'[u] = pc[u]
    BY <1>1, <1>3, <2>2
  <2>5. ASSUME NEW u \in Senders PROVE QuietOf(u)'
    <3>1. QuietOf(u)
      BY DEF QuietInv
    <3> QED
      BY <1>2, <2>1, <2>3, <2>4, <3>1 DEF QuietOf, Quiet, Waited, Unopened
  <2> QED BY <1>2, <2>5 DEF QuietInv, CallbacksSeeLivePvt
<1>4. ASSUME NEW l, Goto(t, l), QuietOf(t)',
             \A u \in Senders \ {t} : sock'[u] = sock[u]
      PROVE  QuietInv'
  <2>1. \A u \in Senders \ {t} : pc'[u] = pc[u]
    BY <1>1, <1>4
  <2> QED BY <1>2, <1>4, <2>1, OthersQuiet DEF QuietInv, CallbacksSeeLivePvt
<1>5. CASE \/ Begin(t) \/ WaitConnEnds(t) \/ LoopTest(t) \/ ReadAndSend(t)
           \/ SayEnd(t) \/ CloseWs(t) \/ WaitCloseEnds(t) \/ DestroyTest(t)
           \/ EnterWait(t) \/ FreePool(t) \/ SpuriousWake(t)
           \/ Retry(t) /\ Goto(t, "destroy")
  <2>1. sock' = sock
    BY <1>5
    DEF Begin, WaitConnEnds, LoopTest, ReadAndSend, SayEnd, CloseWs, WaitCloseEnds,
        Retry, DestroyTest, EnterWait, FreePool, SpuriousWake, AskClose
  <2>2. PICK l : /\ Goto(t, l) /\ l \notin Unopened \ {"open"}
                 /\ l = "open" => pc[t] = "start"
                 /\ l \in Waited => \/ pc[t] \in Waited \cup {"start"}
                                    \/ closed[t] \/ sock[t] = "failed"
    <3>1. CASE WaitConnEnds(t)
      BY <3>1, Zenon DEF WaitConnEnds, Unopened, Waited
    <3>2. CASE WaitCloseEnds(t)
      <4>1. closed[t] \/ sock[t] = "failed"
        BY <3>2 DEF WaitCloseEnds, CloseWaitOver
      <4> QED BY <3>2, <4>1 DEF WaitCloseEnds, Unopened, Waited
    <3>3. CASE Begin(t)
      BY <3>3, Zenon DEF Begin, Unopened, Waited
    <3>4. CASE LoopTest(t) \/ ReadAndSend(t) \/ SayEnd(t) \/ CloseWs(t)
      <4>1. \E l \in {"after_loop", "reading", "loop", "close", "wait_close"} : Goto(t, l)
        BY <3>4, Zenon DEF LoopTest, ReadAndSend, SayEnd, CloseWs
      <4>2. PICK l \in {"after_loop", "reading", "loop", "close", "wait_close"} : Goto(t, l)
        BY <4>1
      <4>3. l \notin Unopened /\ l \notin Waited /\ l # "open"
        BY DEF Unopened, Waited
      <4> QED BY <4>2, <4>3, Zenon
    <3>6. CASE Retry(t) /\ Goto(t, "destroy")
      BY <3>6, Zenon DEF Retry, Unopened, Waited
    <3>7. CASE DestroyTest(t)
      BY <3>7, Zenon DEF DestroyTest, Unopened, Waited
    <3>8. CASE EnterWait(t) \/ FreePool(t) \/ SpuriousWake(t)
      BY <3>8, Zenon DEF EnterWait, FreePool, SpuriousWake, Unopened, Waited
    <3> QED BY <1>5, <3>1, <3>2, <3>3, <3>4, <3>6, <3>7, <3>8, Zenon
  <2>3. pc'[t] = l
    BY <1>1, <2>2
  <2>4. QuietOf(t)'
    BY <1>1, <1>2, <2>1, <2>2, <2>3 DEF QuietOf, Quiet, Waited, Unopened
  <2> QED BY <1>4, <2>1, <2>2, <2>4
<1>6. CASE OpenWs(t)
  <2>1. /\ pc[t] = "open" /\ Goto(t, "wait_conn") /\ pc'[t] = "wait_conn"
        /\ \A u \in Senders \ {t} : sock'[u] = sock[u]
    BY <1>1, <1>6 DEF OpenWs
  <2>2. QuietOf(t)'
    BY <1>1, <1>2, <2>1 DEF QuietOf, Quiet, Waited, Unopened
  <2> QED BY <1>4, <2>1, <2>2
<1>7. CASE JoinLoop(t)
  <2>1. /\ pc'[t] = "gone" /\ Goto(t, "gone") /\ sock'[t] = "joined" /\ cb[t] = "none"
        /\ \A u \in Senders \ {t} : sock'[u] = sock[u]
    BY <1>1, <1>7 DEF JoinLoop
  <2>2. QuietOf(t)'
    BY <1>1, <1>2, <2>1 DEF QuietOf, Quiet, Waited, Unopened
  <2> QED BY <1>4, <2>1, <2>2
<1> QED
  BY <1>3, <1>5, <1>6, <1>7 DEF SenderStep, Retry

\* A callback of attempt t changes nothing of the other attempts.
LEMMA LoopQuiet ==
    ASSUME IInv, QuietInv, NEW t \in Senders, LoopStep(t)
    PROVE  QuietInv'
<1>1. /\ QuietOf(t) /\ pc[t] \in Labels
      /\ sock \in [Senders -> {"none", "connecting", "failed", "upgrading", "open",
                               "closed", "joined"}]
      /\ cb \in [Senders -> {"none", "onopen"}]
      /\ closed \in [Senders -> BOOLEAN]
  BY DEF IInv, TypeOK, QuietInv
<1>2. ~Quiet(t)
  BY <1>1 DEF LoopStep, TcpConnected, OnOpenSend, OnOpenFlags, OnMessage, OnClose, Quiet
<1>3. ~late'
  <2>1. ~late /\ ~Freed(Da(t))
    BY <1>2, RunsOnLive DEF QuietInv, CallbacksSeeLivePvt
  <2> QED
    BY <2>1, Zenon
    DEF LoopStep, TcpConnected, OnOpenSend, OnOpenFlags, OnMessage, OnClose
<1>4. /\ pc' = pc
      /\ \A u \in Senders \ {t} : /\ sock'[u] = sock[u] /\ cb'[u] = cb[u]
                                  /\ closed'[u] = closed[u]
  BY <1>1 DEF LoopStep, TcpConnected, OnOpenSend, OnOpenFlags, OnMessage, OnClose
<1>5. pc[t] \notin Waited \cup Unopened
  BY <1>1, <1>2 DEF QuietOf, Quiet
<1>6. QuietOf(t)'
  <2>1. CASE TcpConnected(t) \/ OnMessage(t)
    BY <1>1, <1>4, <1>5, <2>1 DEF TcpConnected, OnMessage, QuietOf
  <2>2. CASE OnOpenSend(t)
    BY <1>1, <1>4, <1>5, <2>2 DEF OnOpenSend, QuietOf
  <2>3. CASE OnOpenFlags(t)
    BY <1>1, <1>4, <1>5, <2>3 DEF OnOpenFlags, QuietOf
  <2>4. CASE OnClose(t)
    BY <1>1, <1>4, <1>5, <2>4 DEF OnClose, QuietOf
  <2> QED BY <2>1, <2>2, <2>3, <2>4 DEF LoopStep
<1> QED BY <1>3, <1>4, <1>6, OthersQuiet DEF QuietInv, CallbacksSeeLivePvt

LEMMA QuietStep ==
    ASSUME FunAsrAssumption, Faults \cap {"slow_close", "resampler"} = {},
           IInv, FreshInv, QuietInv, [Next]_vars
    PROVE  QuietInv'
<1>1. CASE SessionNext
  <2>1. UNCHANGED <<sock, cb, closed, late>>
    BY <1>1 DEF SessionNext, StartAsr, HangupBug, ReadFrame, PauseAsr, StopAsr,
                Hangup, CloseFlag, CloseSignal
  <2>2. ASSUME NEW t \in Senders
        PROVE  \/ pc'[t] = pc[t]
               \/ pc[t] = "none" /\ pc'[t] = "start"
               \/ pc[t] = "cond_wait" /\ pc'[t] = "free"
    <3>1. ASSUME NEW p \in Pvts, StartAsr(p)
          PROVE  pc'[t] = pc[t] \/ (pc[t] = "none" /\ pc'[t] = "start")
      <4> DEFINE s == <<p, 0>>
      <4>1. /\ s \in Senders /\ Da(s) = p /\ pool[p] = "none"
            /\ pc' = [pc EXCEPT ![s] = "start"] \/ pc' = pc
            /\ pc \in [Senders -> Labels]
        BY <3>1, SenderFacts DEF StartAsr, IInv, TypeOK
      <4> HIDE DEF s
      <4>2. pc[s] = "none"
        BY <4>1 DEF FreshInv
      <4> QED BY <4>1, <4>2
    <3>2. CASE CloseSignal
      BY <3>2 DEF CloseSignal
    <3>3. CASE UNCHANGED pc
      BY <3>3
    <3> QED
      BY <1>1, <3>1, <3>2, <3>3
      DEF SessionNext, HangupBug, ReadFrame, PauseAsr, StopAsr, Hangup, CloseFlag
  <2>3. ASSUME NEW t \in Senders PROVE QuietOf(t)'
    <3>1. QuietOf(t)
      BY DEF QuietInv
    <3> QED BY <2>1, <2>2, <3>1 DEF QuietOf, Quiet, Waited, Unopened
  <2> QED BY <2>1, <2>3 DEF QuietInv, CallbacksSeeLivePvt
<1>2. ASSUME NEW t \in Senders, SenderStep(t) \/ SpuriousWake(t) PROVE QuietInv'
  BY <1>2, SenderQuiet
<1>3. ASSUME NEW t \in Senders, LoopStep(t) PROVE QuietInv'
  BY <1>3, LoopQuiet
<1>4. CASE UNCHANGED vars
  BY <1>4 DEF vars, QuietInv, QuietOf, Quiet, CallbacksSeeLivePvt
<1> QED BY <1>1, <1>2, <1>3, <1>4 DEF Next

\* If every onclose comes within the time the sender waits for it, and the
\* resampler can be made (its failure skips the wait), no callback of any
\* attempt runs on a destroyed switch_da, spurious wake-ups included.
THEOREM CallbacksSafe ==
    Faults \cap {"slow_close", "resampler"} = {} => (Spec => []CallbacksSeeLivePvt)
<1> SUFFICES ASSUME Faults \cap {"slow_close", "resampler"} = {}
             PROVE  Spec => []CallbacksSeeLivePvt
  OBVIOUS
<1>1. Init => IInv /\ FreshInv /\ QuietInv
  BY FunAsrAssumption, IInvInit, FreshInit, QuietInit
<1>2. IInv /\ FreshInv /\ QuietInv /\ [Next]_vars => (IInv /\ FreshInv /\ QuietInv)'
  BY FunAsrAssumption, IInvStep, FreshStep, QuietStep
<1>3. QuietInv => CallbacksSeeLivePvt
  BY DEF QuietInv
<1> QED BY <1>1, <1>2, <1>3, PTL DEF Spec

-----------------------------------------------------------------------------
(* What a connection sends first                                           *)

HasInit(w) == \E j \in 1..Len(w) : w[j] = "init"
InOrder(w) == \A i \in 1..Len(w) : w[i] = "audio" => \E j \in 1..(i - 1) : w[j] = "init"

\* An earlier attempt for the same object has been opened: ws_connected is set,
\* whether or not t's own connection is open.
Earlier(t) == \E u \in Senders : Da(u) = Da(t) /\ u[2] < t[2] /\ connected[u]

\* The flag that lets a sender stream is set by an onopen, which has sent the
\* parameters of its connection; an attempt that was not made has opened nothing,
\* so that the onopen is the sender's own or an earlier one.
OrderInv ==
    /\ \A t \in Senders : pc[t] \in Unopened =>
                             sock[t] = "none" /\ cb[t] = "none" /\ ~connected[t]
    /\ \A t \in Senders : cb[t] = "onopen" \/ connected[t] => HasInit(wire[t])
    /\ \A p \in Pvts : ws_connected[p] => \E u \in Senders : Da(u) = p /\ connected[u]
    /\ \A t \in Senders : pc[t] \in {"loop", "reading"} => connected[t] \/ Earlier(t)
    /\ \A t \in Senders : InOrder(wire[t]) \/ Earlier(t)

\* Sending keeps the order, if audio is sent only after the parameters.
LEMMA SentOrder ==
    ASSUME wire \in [Senders -> Seq(Messages)], NEW t \in Senders, NEW m \in Messages
    PROVE  /\ InOrder(wire[t]) /\ (m = "audio" => HasInit(wire[t])) => InOrder(Sent(t, m))
           /\ HasInit(wire[t]) => HasInit(Sent(t, m))
           /\ m = "init" /\ Writable(t) => HasInit(Sent(t, m))
<1> DEFINE w == wire[t]
           r == Append(w, m)
<1>1. w \in Seq(Messages) /\ Len(w) \in Nat
  BY LenProperties
<1>2. /\ Len(r) = Len(w) + 1
      /\ \A i \in 1..Len(w) : r[i] = w[i]
      /\ r[Len(w) + 1] = m
  BY <1>1, AppendProperties
<1>3. Sent(t, m) = w \/ Sent(t, m) = r
  BY DEF Sent
<1>4. m = "init" /\ Writable(t) => Sent(t, m) = r \/ (Len(w) # 0 /\ w[Len(w)] = "init")
  BY <1>1, EmptySeq DEF Sent
<1> HIDE DEF r, w
<1>5. HasInit(w) => HasInit(r)
  BY <1>1, <1>2 DEF HasInit
<1>6. InOrder(w) /\ (m = "audio" => HasInit(w)) => InOrder(r)
  <2> SUFFICES ASSUME InOrder(w), m = "audio" => HasInit(w),
                      NEW i \in 1..(Len(w) + 1), r[i] = "audio"
               PROVE  \E j \in 1..(i - 1) : r[j] = "init"
    BY <1>2 DEF InOrder
  <2>1. CASE i \in 1..Len(w)
    <3>1. PICK j \in 1..(i - 1) : w[j] = "init"
      BY <1>2, <2>1 DEF InOrder
    <3> QED BY <1>1, <1>2, <2>1, <3>1, SMTT(20)
  <2>2. CASE i = Len(w) + 1
    <3>1. PICK j \in 1..Len(w) : w[j] = "init"
      BY <1>2, <2>2 DEF HasInit
    <3>2. j \in 1..(i - 1) /\ r[j] = "init"
      BY <1>1, <1>2, <2>2, <3>1
    <3> QED BY <3>2
  <2> QED BY <1>1, <2>1, <2>2
<1>7. m = "init" => HasInit(r)
  <2>1. Len(w) + 1 \in 1..Len(r)
    BY <1>1, <1>2
  <2> QED BY <1>2, <2>1 DEF HasInit
<1>8. Len(w) # 0 /\ w[Len(w)] = "init" => HasInit(w)
  BY <1>1 DEF HasInit
<1> QED BY <1>3, <1>4, <1>5, <1>6, <1>7, <1>8 DEF w

\* Nothing was sent before the first start_asr.
LEMMA OrderInit == Init => OrderInv
<1> SUFFICES ASSUME Init PROVE OrderInv
  OBVIOUS
<1>1. \A t \in Senders : /\ wire[t] = <<>> /\ cb[t] = "none" /\ ~connected[t]
                         /\ pc[t] = "none" /\ sock[t] = "none" /\ Da(t) \in Pvts
  BY FunAsrAssumption, SenderFacts DEF Init
<1>2. \A p \in Pvts : ~ws_connected[p]
  BY DEF Init
<1>3. InOrder(<<>>)
  BY DEF InOrder
<1> QED BY <1>1, <1>2, <1>3 DEF OrderInv

\* What a step of the session thread does to a sender.
LEMMA SessionMoves ==
    ASSUME FunAsrAssumption, IInv, SessionNext, NEW t \in Senders
    PROVE  /\ \/ pc'[t] = pc[t]
              \/ pool[Da(t)] = "none" /\ pc'[t] = "start"
              \/ pc'[t] = "free"
           /\ pool[Da(t)] # "none" => pool'[Da(t)] # "none"
<1>1. /\ pc \in [Senders -> Labels] /\ pool \in [Pvts -> {"none", "live", "freed"}]
      /\ \A u \in Senders : Da(u) \in Pvts
  BY SenderFacts DEF IInv, TypeOK
<1>2. ASSUME NEW p \in Pvts, StartAsr(p)
      PROVE  /\ pc'[t] = pc[t] \/ (pool[Da(t)] = "none" /\ pc'[t] = "start")
             /\ pool[Da(t)] # "none" => pool'[Da(t)] # "none"
  <2> DEFINE s == <<p, 0>>
  <2>1. /\ s \in Senders /\ Da(s) = p /\ pool[p] = "none"
        /\ pc' = [pc EXCEPT ![s] = "start"] \/ pc' = pc
        /\ pool' = [pool EXCEPT ![p] = "live"]
    BY <1>2, SenderFacts DEF StartAsr
  <2> HIDE DEF s
  <2> QED BY <1>1, <2>1
<1>3. CASE CloseSignal
  BY <1>1, <1>3 DEF CloseSignal
<1>4. CASE UNCHANGED <<pc, pool>>
  BY <1>4
<1> QED
  BY <1>2, <1>3, <1>4
  DEF SessionNext, HangupBug, ReadFrame, PauseAsr, StopAsr, Hangup, CloseFlag

LEMMA OrderStep ==
    ASSUME FunAsrAssumption, IInv, FreshInv, OrderInv, [Next]_vars
    PROVE  OrderInv'
<1>1. /\ pc \in [Senders -> Labels] /\ wire \in [Senders -> Seq(Messages)]
      /\ cb \in [Senders -> {"none", "onopen"}]
      /\ sock \in [Senders -> {"none", "connecting", "failed", "upgrading", "open",
                               "closed", "joined"}]
      /\ connected \in [Senders -> BOOLEAN]
      /\ ws_connected \in [Pvts -> BOOLEAN]
      /\ \A t \in Senders : Da(t) \in Pvts /\ t[2] \in Nat
  BY SenderFacts DEF IInv, TypeOK, FunAsrAssumption
<1>2. CASE SessionNext
  <2>1. UNCHANGED <<wire, cb, sock, connected, ws_connected>>
    BY <1>2 DEF SessionNext, StartAsr, HangupBug, ReadFrame, PauseAsr, StopAsr,
                Hangup, CloseFlag, CloseSignal
  <2>2. ASSUME NEW t \in Senders
        PROVE  /\ pc'[t] \in {"loop", "reading"} => pc[t] \in {"loop", "reading"}
               /\ pc'[t] \in Unopened => pc[t] \in Unopened
    BY <1>2, SessionMoves DEF FreshInv, Unopened
  <2> QED BY <2>1, <2>2 DEF OrderInv, Earlier
<1>3. ASSUME NEW t \in Senders, SenderStep(t) \/ SpuriousWake(t) PROVE OrderInv'
  <2>1. UNCHANGED <<cb, connected, ws_connected>>
    BY <1>3
    DEF SenderStep, SpuriousWake, Begin, OpenWs, WaitConnEnds, LoopTest, ReadAndSend,
        SayEnd, CloseWs, WaitCloseEnds, Retry, DestroyTest, EnterWait, FreePool, JoinLoop,
        AskClose
  <2>2. ws_connected[Da(t)] /\ pc[t] \in Owning => connected[t] \/ Earlier(t)
    <3> SUFFICES ASSUME ws_connected[Da(t)], pc[t] \in Owning
                 PROVE  connected[t] \/ Earlier(t)
      OBVIOUS
    <3>1. PICK u \in Senders : Da(u) = Da(t) /\ connected[u]
      BY <1>1 DEF OrderInv
    <3>2. ~(u[2] > t[2])
      BY <3>1 DEF FreshInv, OrderInv, Unopened
    <3>3. u[2] = t[2] => u = t
      BY <3>1, SenderFacts
    <3> QED BY <1>1, <3>1, <3>2, <3>3 DEF Earlier
  <2>3. ASSUME NEW u \in Senders
        PROVE  /\ pc'[u] \in {"loop", "reading"} => connected[u] \/ Earlier(u)
               /\ pc'[u] \in Unopened => pc[u] \in Unopened /\ sock'[u] = sock[u]
    <3>1. CASE Retry(t)
      <4> DEFINE v == <<Da(t), t[2] + 1>>
      <4>1. /\ pc[t] = "retry_sleep" /\ sock' = sock
            /\ \/ pc' = [pc EXCEPT ![t] = "unwind", ![v] = "start"]
               \/ pc' = [pc EXCEPT ![t] = "destroy"]
        BY <3>1 DEF Retry
      <4>2. v \in Senders /\ Da(v) = Da(t) /\ v[2] > t[2]
        BY <4>1, SenderFacts DEF IInv, RetryInv, FunAsrAssumption
      <4>3. pc[v] = "none"
        BY <4>1, <4>2, LabelFacts DEF FreshInv
      <4> HIDE DEF v
      <4>4. pc'[u] = pc[u] \/ pc'[u] \in {"unwind", "destroy"} \/ u = v
        BY <1>1, <4>1, <4>2
      <4>5. u = v => pc'[u] \in {"none", "start"}
        BY <1>1, <4>1, <4>2, <4>3
      <4> QED BY <4>1, <4>3, <4>4, <4>5 DEF OrderInv, Unopened
    <3>2. CASE WaitConnEnds(t)
      <4>1. /\ pc[t] = "wait_conn" /\ sock' = sock
            /\ pc' = [pc EXCEPT ![t] = "loop"] => ws_connected[Da(t)]
            /\ \/ pc' = [pc EXCEPT ![t] = "loop"] \/ pc' = [pc EXCEPT ![t] = "destroy"]
               \/ pc' = [pc EXCEPT ![t] = "after_loop"]
        BY <1>1, <3>2 DEF WaitConnEnds, AskClose
      <4>2. "wait_conn" \in Owning
        BY DEF Owning, Labels
      <4> QED BY <1>1, <2>2, <4>1, <4>2 DEF OrderInv, Unopened
    <3>3. CASE ~Retry(t) /\ ~WaitConnEnds(t)
      <4>1. PICK l : /\ pc' = [pc EXCEPT ![t] = l]
                     /\ l \in {"loop", "reading"} => pc[t] \in {"loop", "reading"}
                     /\ l \in Unopened => pc[t] \in Unopened /\ sock' = sock
                     /\ \A x \in Senders \ {t} : sock'[x] = sock[x]
        BY <1>1, <1>3, <3>3
        DEF SenderStep, SpuriousWake, Begin, OpenWs, LoopTest, ReadAndSend, SayEnd,
            CloseWs, WaitCloseEnds, DestroyTest, EnterWait, FreePool, JoinLoop, AskClose,
            Unopened
      <4> QED BY <1>1, <4>1 DEF OrderInv
    <3> QED BY <3>1, <3>2, <3>3
  <2>4. \A u \in Senders : /\ InOrder(wire'[u]) \/ Earlier(u)
                           /\ HasInit(wire[u]) => HasInit(wire'[u])
    <3>1. CASE wire' = wire
      BY <3>1 DEF OrderInv
    <3>2. ASSUME NEW m \in Messages, m = "audio" => HasInit(wire[t]) \/ Earlier(t),
                 wire' = [wire EXCEPT ![t] = Sent(t, m)]
          PROVE  \A u \in Senders : /\ InOrder(wire'[u]) \/ Earlier(u)
                                    /\ HasInit(wire[u]) => HasInit(wire'[u])
      <4>1. /\ InOrder(Sent(t, m)) \/ Earlier(t)
            /\ HasInit(wire[t]) => HasInit(Sent(t, m))
        BY <1>1, <3>2, SentOrder DEF OrderInv
      <4>2. \A u \in Senders : wire'[u] = IF u = t THEN Sent(t, m) ELSE wire[u]
        BY <1>1, <3>2
      <4> QED BY <4>1, <4>2 DEF OrderInv
    <3>3. CASE ReadAndSend(t)
      <4>1. HasInit(wire[t]) \/ Earlier(t)
        BY <3>3 DEF ReadAndSend, OrderInv
      <4> QED BY <3>1, <3>2, <3>3, <4>1 DEF ReadAndSend, Messages
    <3>4. CASE SayEnd(t)
      BY <3>1, <3>2, <3>4 DEF SayEnd, Messages
    <3>5. CASE ~ReadAndSend(t) /\ ~SayEnd(t)
      <4>1. wire' = wire
        BY <1>3, <3>5
        DEF SenderStep, SpuriousWake, Begin, OpenWs, WaitConnEnds, LoopTest, CloseWs,
            WaitCloseEnds, Retry, DestroyTest, EnterWait, FreePool, JoinLoop, AskClose
      <4> QED BY <3>1, <4>1
    <3> QED BY <3>3, <3>4, <3>5
  <2> QED BY <2>1, <2>3, <2>4 DEF OrderInv, Earlier
<1>4. ASSUME NEW t \in Senders, LoopStep(t) PROVE OrderInv'
  <2>1. /\ pc' = pc /\ pc[t] \notin Unopened
        /\ \A u \in Senders \ {t} : sock'[u] = sock[u] /\ cb'[u] = cb[u]
        /\ \A u \in Senders : connected[u] => connected'[u]
        /\ \A u \in Senders \ {t} : connected'[u] = connected[u] /\ wire'[u] = wire[u]
    BY <1>1, <1>4
    DEF LoopStep, TcpConnected, OnOpenSend, OnOpenFlags, OnMessage, OnClose, OrderInv
  <2>2. \A u \in Senders : Earlier(u) => Earlier(u)'
    BY <2>1 DEF Earlier
  <2>3. CASE TcpConnected(t) \/ OnMessage(t) \/ OnClose(t)
    <3>1. UNCHANGED <<wire, cb, connected, ws_connected>>
      BY <2>3 DEF TcpConnected, OnMessage, OnClose
    <3> QED BY <2>1, <2>2, <3>1 DEF OrderInv
  <2>4. CASE OnOpenSend(t)
    <3>1. /\ UNCHANGED <<connected, ws_connected>> /\ Writable(t)
          /\ wire' = [wire EXCEPT ![t] = Sent(t, "init")]
      BY <1>1, <2>4 DEF OnOpenSend, Writable
    <3>2. /\ InOrder(wire[t]) => InOrder(Sent(t, "init"))
          /\ HasInit(Sent(t, "init")) /\ wire'[t] = Sent(t, "init")
      BY <1>1, <3>1, SentOrder DEF Messages
    <3> QED BY <2>1, <2>2, <3>1, <3>2 DEF OrderInv
  <2>5. CASE OnOpenFlags(t)
    <3>1. /\ wire' = wire /\ cb[t] = "onopen" /\ connected'[t]
          /\ \A u \in Senders : cb'[u] = "onopen" => cb[u] = "onopen"
          /\ \A p \in Pvts : ws_connected'[p] => ws_connected[p] \/ p = Da(t)
      BY <1>1, <2>5 DEF OnOpenFlags
    <3> QED BY <1>1, <2>1, <2>2, <3>1 DEF OrderInv
  <2> QED BY <1>4, <2>3, <2>4, <2>5 DEF LoopStep
<1>5. CASE UNCHANGED vars
  BY <1>5 DEF vars, OrderInv, Earlier
<1> QED BY <1>2, <1>3, <1>4, <1>5 DEF Next

\* However often the sender reconnects, no audio goes to the server before the
\* parameters of the connection, whichever of onopen and the sender is faster,
\* unless an earlier attempt was opened and its ws_connected is still set.
THEOREM InitFirst == Spec => []AudioAfterInit
<1>1. Init => IInv /\ FreshInv /\ OrderInv
  BY FunAsrAssumption, IInvInit, FreshInit, OrderInit
<1>2. IInv /\ FreshInv /\ OrderInv /\ [Next]_vars => (IInv /\ FreshInv /\ OrderInv)'
  BY FunAsrAssumption, IInvStep, FreshStep, OrderStep
<1>3. IInv /\ OrderInv => AudioAfterInit
  <2> SUFFICES ASSUME IInv, OrderInv, NEW t \in Senders, NEW i \in DOMAIN wire[t],
                      wire[t][i] = "audio"
               PROVE  \/ \E j \in 1..(i - 1) : wire[t][j] = "init"
                      \/ \E k \in 0..(t[2] - 1) : connected[<<Da(t), k>>]
    BY DEF AudioAfterInit
  <2>1. CASE InOrder(wire[t])
    <3>1. i \in 1..Len(wire[t])
      BY LenProperties DEF IInv, TypeOK
    <3> QED BY <2>1, <3>1 DEF InOrder
  <2>2. CASE Earlier(t)
    <3>1. PICK u \in Senders : Da(u) = Da(t) /\ u[2] < t[2] /\ connected[u]
      BY <2>2 DEF Earlier
    <3>2. u = <<Da(u), u[2]>> /\ u[2] \in 0..RetryMax /\ t[2] \in 0..RetryMax
      BY FunAsrAssumption, SenderFacts
    <3>3. u[2] \in 0..(t[2] - 1) /\ connected[<<Da(t), u[2]>>]
      BY <3>1, <3>2, FunAsrAssumption DEF FunAsrAssumption
    <3> QED BY <3>3
  <2> QED BY <2>1, <2>2 DEF OrderInv
<1> QED BY <1>1, <1>2, <1>3, PTL DEF Spec

-----------------------------------------------------------------------------
(* What a first connection is fed                                          *)

\* The flag that lets a sender stream stays set; the other flag is set by a
\* sender that streams no more.
FedInv ==
    /\ \A t \in Senders : pc[t] \in {"loop", "reading"} => ws_connected[Da(t)]
    /\ \A t \in Senders : ws_closed[Da(t)] =>
                             pool[Da(t)] # "none" /\ pc[t] \notin Uncounted

\* Nothing streams before the first start_asr.
LEMMA FedInit == Init => FedInv
<1> SUFFICES ASSUME Init PROVE FedInv
  OBVIOUS
<1>1. \A t \in Senders : pc[t] = "none" /\ Da(t) \in Pvts
  BY FunAsrAssumption, SenderFacts DEF Init
<1>2. \A p \in Pvts : ~ws_closed[p]
  BY DEF Init
<1> QED BY <1>1, <1>2 DEF FedInv

\* With one attempt per object, a sender is known by its object.
LEMMA OneAttempt ==
    ASSUME FunAsrAssumption, RetryMax = 0, NEW t \in Senders, NEW u \in Senders,
           Da(t) = Da(u)
    PROVE  t = u
<1>1. t[2] = 0 /\ u[2] = 0 /\ t = <<Da(t), t[2]>> /\ u = <<Da(u), u[2]>>
  BY SenderFacts
<1> QED BY <1>1

LEMMA FedStep ==
    ASSUME FunAsrAssumption, RetryMax = 0, IInv, FreshInv, FedInv, [Next]_vars
    PROVE  FedInv'
<1>1. /\ pc \in [Senders -> Labels]
      /\ ws_connected \in [Pvts -> BOOLEAN] /\ ws_closed \in [Pvts -> BOOLEAN]
      /\ pool \in [Pvts -> {"none", "live", "freed"}]
      /\ \A t \in Senders : Da(t) \in Pvts
  BY SenderFacts DEF IInv, TypeOK
<1>2. CASE SessionNext
  <2>1. UNCHANGED <<ws_connected, ws_closed>>
    BY <1>2 DEF SessionNext, StartAsr, HangupBug, ReadFrame, PauseAsr, StopAsr,
                Hangup, CloseFlag, CloseSignal
  <2>2. ASSUME NEW t \in Senders
        PROVE  /\ pool[Da(t)] # "none" => pool'[Da(t)] # "none"
               /\ pc'[t] \in {"loop", "reading"} => pc[t] \in {"loop", "reading"}
               /\ ws_closed[Da(t)] => pc'[t] \notin Uncounted
    BY <1>2, SessionMoves, LabelFacts DEF FedInv
  <2> QED BY <2>1, <2>2 DEF FedInv
<1>3. ASSUME NEW t \in Senders, SenderStep(t) \/ SpuriousWake(t) PROVE FedInv'
  <2>1. /\ ws_connected' = ws_connected
        /\ pool' = pool \/ pool' = [pool EXCEPT ![Da(t)] = "freed"]
    BY <1>3
    DEF SenderStep, SpuriousWake, Begin, OpenWs, WaitConnEnds, LoopTest, ReadAndSend,
        SayEnd, CloseWs, WaitCloseEnds, Retry, DestroyTest, EnterWait, FreePool, JoinLoop,
        AskClose
  <2>2. \A u \in Senders : pool[Da(u)] # "none" => pool'[Da(u)] # "none"
    BY <1>1, <2>1
  <2>3. /\ \E l : Goto(t, l) /\ (l \in {"loop", "reading"} =>
                                    pc[t] \in {"loop", "reading"} \/ ws_connected[Da(t)])
                             /\ (l \in Uncounted => pc[t] \in Uncounted)
    <3>1. ~(pc[t] = "retry_sleep")
      BY SenderFacts DEF IInv, RetryInv, FunAsrAssumption
    <3>2. CASE WaitConnEnds(t)
      BY <3>2, Zenon DEF WaitConnEnds, Uncounted
    <3>3. CASE LoopTest(t) \/ ReadAndSend(t)
      BY <3>3, Zenon DEF LoopTest, ReadAndSend, Uncounted
    <3>4. CASE Begin(t) \/ OpenWs(t) \/ SayEnd(t) \/ CloseWs(t)
      BY <3>4, Zenon DEF Begin, OpenWs, SayEnd, CloseWs, Uncounted
    <3>5. CASE \/ WaitCloseEnds(t) \/ DestroyTest(t) \/ EnterWait(t) \/ FreePool(t)
               \/ JoinLoop(t) \/ SpuriousWake(t)
      <4>1. \E l \in Waited : Goto(t, l)
        BY <3>5, Zenon DEF WaitCloseEnds, DestroyTest, EnterWait, FreePool, JoinLoop,
                           SpuriousWake, Waited
      <4>2. \A l \in Waited : l \notin Uncounted /\ l \notin {"loop", "reading"}
        BY DEF Waited, Uncounted
      <4> QED BY <4>1, <4>2, Zenon
    <3> QED BY <1>3, <3>1, <3>2, <3>3, <3>4, <3>5 DEF SenderStep, Retry
  <2>4. \A u \in Senders : pc'[u] \in {"loop", "reading"} => ws_connected[Da(u)]
    BY <1>1, <2>3 DEF FedInv
  <2>5. \A u \in Senders : ws_closed'[Da(u)] =>
                              pool'[Da(u)] # "none" /\ pc'[u] \notin Uncounted
    <3>1. CASE WaitCloseEnds(t)
      <4>1. /\ pc[t] = "wait_close" /\ pc'[t] \notin Uncounted /\ pool' = pool
            /\ \A u \in Senders \ {t} : pc'[u] = pc[u]
            /\ \A u \in Senders : Da(u) # Da(t) => ws_closed'[Da(u)] = ws_closed[Da(u)]
        BY <1>1, <3>1, LabelFacts DEF WaitCloseEnds
      <4>2. pool[Da(t)] = "live"
        BY <4>1, LabelFacts DEF IInv, OwnerInv
      <4>3. \A u \in Senders : Da(u) = Da(t) => u = t
        BY OneAttempt
      <4> QED BY <4>1, <4>2, <4>3 DEF FedInv
    <3>2. CASE ~WaitCloseEnds(t)
      <4>1. ws_closed' = ws_closed
        BY <1>3, <3>2
        DEF SenderStep, SpuriousWake, Begin, OpenWs, WaitConnEnds, LoopTest, ReadAndSend,
            SayEnd, CloseWs, Retry, DestroyTest, EnterWait, FreePool, JoinLoop
      <4>2. \A u \in Senders : pc'[u] \in Uncounted => pc[u] \in Uncounted
        BY <1>1, <2>3
      <4> QED BY <2>2, <4>1, <4>2 DEF FedInv
    <3> QED BY <3>1, <3>2
  <2> QED BY <2>1, <2>4, <2>5 DEF FedInv
<1>4. ASSUME NEW t \in Senders, LoopStep(t) PROVE FedInv'
  <2>1. /\ UNCHANGED <<pc, pool, ws_closed>>
        /\ \A u \in Senders : ws_connected[Da(u)] => ws_connected'[Da(u)]
    BY <1>1, <1>4
    DEF LoopStep, TcpConnected, OnOpenSend, OnOpenFlags, OnMessage, OnClose
  <2> QED BY <2>1 DEF FedInv
<1>5. CASE UNCHANGED vars
  BY <1>5 DEF vars, FedInv
<1> QED BY <1>2, <1>3, <1>4, <1>5 DEF Next

\* Without reconnections a sender that streams on an open connection is fed by
\* the media bug, and its results are not dropped.
THEOREM StreamFed == RetryMax = 0 => (Spec => []StreamingIsFed)
<1> SUFFICES ASSUME RetryMax = 0 PROVE Spec => []StreamingIsFed
  OBVIOUS
<1>1. Init => IInv /\ FreshInv /\ FedInv
  BY FunAsrAssumption, IInvInit, FreshInit, FedInit
<1>2. IInv /\ FreshInv /\ FedInv /\ [Next]_vars => (IInv /\ FreshInv /\ FedInv)'
  BY FunAsrAssumption, IInvStep, FreshStep, FedStep
<1>3. IInv /\ FedInv => StreamingIsFed
  <2> SUFFICES ASSUME IInv, FedInv, NEW t \in Senders,
                      pc[t] \in {"loop", "reading"}, ~hangup[Da(t)]
               PROVE  Gate(Da(t)) /\ FiresEvent(Da(t))
    BY DEF StreamingIsFed
  <2>1. pc[t] \in Uncounted /\ pc[t] \in Owning
    BY DEF Uncounted, Owning, Labels
  <2>2. ws_connected[Da(t)] /\ ~ws_closed[Da(t)] /\ ~Freed(Da(t))
    BY <2>1 DEF FedInv, IInv, OwnerInv, Freed
  <2> QED BY <2>2 DEF Gate, FiresEvent
<1> QED BY <1>1, <1>2, <1>3, PTL DEF Spec
=============================================================================
