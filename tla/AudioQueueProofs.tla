-------------------------- MODULE AudioQueueProofs --------------------------
(***************************************************************************)
(* Theorems about AudioQueue, for every capacity, frame size, set of       *)
(* writers and set of clearers.                                            *)
(***************************************************************************)
EXTENDS AudioQueue, TLAPS

USE DEF Threads, Labels, Statuses, Holding, counters

-----------------------------------------------------------------------------
(* Type correctness                                                        *)

\* Every step of the queue's functions keeps the types: in particular the
\* buffer stays within its capacity.
LEMMA TypeStep == QueueAssumption /\ TypeOK /\ [Next]_vars => TypeOK'
<1> SUFFICES ASSUME QueueAssumption, TypeOK, [Next]_vars PROVE TypeOK'
  OBVIOUS
<1> USE DEF QueueAssumption, TypeOK
<1>0. Reader \in Threads
  OBVIOUS
<1>1. CASE \E w \in Writers : WriterNext(w)
  <2> PICK w \in Writers : WriterNext(w)
    BY <1>1
  <2>1. w \in Threads
    OBVIOUS
  <2>2. ASSUME NEW n \in WriteSizes, WriteBegin(w, n) PROVE TypeOK'
    BY <2>1, <2>2 DEF Moved, WriteBegin, BufferTakes
  <2>3. ASSUME NEW n \in WriteSizes, WriteFull(w, n) PROVE TypeOK'
    BY <2>1, <2>3 DEF Moved, WriteFull
  <2>4. CASE WriteCount(w)
    <3>1. WakesReader \in BOOLEAN
      BY DEF WakesReader
    <3> QED BY <2>1, <2>4, <3>1 DEF Moved, WriteCount
  <2>5. CASE Signal(w)
    BY <2>1, <2>5 DEF Moved, Signal
  <2> QED BY <2>2, <2>3, <2>4, <2>5 DEF WriterNext
<1>2. CASE ReaderNext
  <2>1. CASE ReadInitial
    BY <1>0, <2>1 DEF Moved, ReadInitial, ReturnEmpty
  <2>2. ASSUME NEW block \in BOOLEAN, ReadNoWait(block) PROVE TypeOK'
    BY <1>0, <2>2 DEF Moved, ReadNoWait, TakeBytes, ReturnEmpty
  <2>3. CASE ReadBlock
    BY <1>0, <2>3 DEF Moved, ReadBlock, Block
  <2>4. CASE WaitSpurious
    BY <1>0, <2>4 DEF Moved, WaitSpurious
  <2>5. CASE WaitTimeout
    BY <1>0, <2>5 DEF Moved, WaitTimeout
  <2>6. CASE ReadRecheck
    BY <1>0, <2>6 DEF Moved, ReadRecheck, Block, TakeBytes, ReturnEmpty
  <2>7. CASE ReadTimedOut
    BY <1>0, <2>7 DEF Moved, ReadTimedOut, TakeBytes, ReturnEmpty
  <2>8. CASE ReadCount
    BY <1>0, <2>8 DEF Moved, ReadCount
  <2> QED
    BY <1>2, <2>1, <2>2, <2>3, <2>4, <2>5, <2>6, <2>7, <2>8
    DEF ReaderNext, ReaderResumes
<1>3. CASE \E c \in Clearers : ClearerNext(c)
  <2> PICK c \in Clearers : ClearerNext(c)
    BY <1>3
  <2>1. c \in Threads
    OBVIOUS
  <2>2. CASE ClearBuffer(c)
    BY <2>1, <2>2 DEF Moved, ClearBuffer
  <2>3. CASE ClearRead(c)
    BY <2>1, <2>3 DEF Moved, ClearRead
  <2>4. CASE ClearWrite(c)
    BY <2>1, <2>4 DEF Moved, ClearWrite
  <2>5. CASE ClearWaiting(c)
    BY <2>1, <2>5 DEF Moved, ClearWaiting
  <2> QED BY <2>2, <2>3, <2>4, <2>5 DEF ClearerNext
<1>4. CASE UNCHANGED vars
  BY <1>4 DEF vars
<1> QED BY <1>1, <1>2, <1>3, <1>4 DEF Next

\* The queue audio_queue_create returns is well formed.
LEMMA TypeInit == QueueAssumption /\ Init => TypeOK
<1> SUFFICES ASSUME QueueAssumption, Init PROVE TypeOK
  OBVIOUS
<1>1. /\ inuse \in 0..Capacity /\ waiting \in {0, Frame}
      /\ write_bytes \in Nat /\ read_bytes \in Nat
      /\ reg \in [Threads -> Nat] /\ len \in [Threads -> Nat]
  BY DEF Init, QueueAssumption
<1>2. /\ mutex \in Threads \cup {Nobody} /\ cleared \in BOOLEAN
      /\ pc \in [Threads -> Labels] /\ status \in [Threads -> Statuses]
      /\ how \in {"block", "nonblock", "timeout"}
  BY DEF Init
<1> QED BY <1>1, <1>2 DEF TypeOK

\* The buffer never overflows, "waiting" is 0 or the requested size, and every
\* variable keeps its type, whatever the threads do.
THEOREM TypeCorrect == Spec => []TypeOK
<1>1. Init => TypeOK
  BY QueueAssumption, TypeInit
<1>2. TypeOK /\ [Next]_vars => TypeOK'
  BY QueueAssumption, TypeStep
<1> QED BY <1>1, <1>2, PTL DEF Spec

-----------------------------------------------------------------------------
(* The reader never sleeps over a complete frame                           *)

\* A thread is between the two halves of a counter update exactly when it
\* owns the mutex; only writers and the reader get there.
MutexInv ==
    /\ \A t \in Threads : pc[t] \in Holding <=> mutex = t
    /\ \A t \in Threads : pc[t] = "write_count" => t \in Writers
    /\ \A t \in Threads : pc[t] = "read_count" => t = Reader

WakeInv == TypeOK /\ MutexInv /\ NoLostWakeup

\* Mutual exclusion and the wake-up guarantee are preserved by every step.
LEMMA WakeStep == QueueAssumption /\ WakeInv /\ [Next]_vars => WakeInv'
<1> SUFFICES ASSUME QueueAssumption, WakeInv, [Next]_vars
             PROVE  MutexInv' /\ NoLostWakeup'
  BY TypeStep DEF WakeInv
<1> USE DEF QueueAssumption, WakeInv, TypeOK, MutexInv, NoLostWakeup,
            WakesReader, Moved
<1>1. CASE \E w \in Writers : WriterNext(w)
  <2> PICK w \in Writers : WriterNext(w)
    BY <1>1
  <2>1. ASSUME NEW n \in WriteSizes, WriteBegin(w, n)
        PROVE  MutexInv' /\ NoLostWakeup'
    BY <2>1 DEF WriteBegin
  <2>2. ASSUME NEW n \in WriteSizes, WriteFull(w, n)
        PROVE  MutexInv' /\ NoLostWakeup'
    BY <2>2 DEF WriteFull
  <2>3. CASE WriteCount(w)
    BY <2>3 DEF WriteCount
  <2>4. CASE Signal(w)
    BY <2>4 DEF Signal
  <2> QED BY <2>1, <2>2, <2>3, <2>4 DEF WriterNext
<1>2. CASE ReaderNext
  <2>1. CASE ReadInitial
    BY <2>1 DEF ReadInitial, ReturnEmpty
  <2>2. ASSUME NEW block \in BOOLEAN, ReadNoWait(block)
        PROVE  MutexInv' /\ NoLostWakeup'
    BY <2>2 DEF ReadNoWait, TakeBytes, ReturnEmpty
  <2>3. CASE ReadBlock
    BY <2>3 DEF ReadBlock, Block
  <2>4. CASE WaitSpurious
    BY <2>4 DEF WaitSpurious
  <2>5. CASE WaitTimeout
    BY <2>5 DEF WaitTimeout
  <2>6. CASE ReadRecheck
    BY <2>6 DEF ReadRecheck, Block, TakeBytes, ReturnEmpty
  <2>7. CASE ReadTimedOut
    BY <2>7 DEF ReadTimedOut, TakeBytes, ReturnEmpty
  <2>8. CASE ReadCount
    BY <2>8 DEF ReadCount
  <2> QED
    BY <1>2, <2>1, <2>2, <2>3, <2>4, <2>5, <2>6, <2>7, <2>8
    DEF ReaderNext, ReaderResumes
<1>3. CASE \E c \in Clearers : ClearerNext(c)
  <2> PICK c \in Clearers : ClearerNext(c)
    BY <1>3
  <2>1. CASE ClearBuffer(c)
    BY <2>1 DEF ClearBuffer
  <2>2. CASE ClearRead(c)
    BY <2>2 DEF ClearRead
  <2>3. CASE ClearWrite(c)
    BY <2>3 DEF ClearWrite
  <2>4. CASE ClearWaiting(c)
    BY <2>4 DEF ClearWaiting
  <2> QED BY <2>1, <2>2, <2>3, <2>4 DEF ClearerNext
<1>4. CASE UNCHANGED vars
  BY <1>4 DEF vars
<1> QED BY <1>1, <1>2, <1>3, <1>4 DEF Next

\* Initially nobody owns the mutex and nobody is blocked.
LEMMA WakeInit == QueueAssumption /\ Init => WakeInv
BY TypeInit DEF Init, WakeInv, MutexInv, NoLostWakeup, QueueAssumption

\* A reader blocked in audio_queue_read while its frame is already buffered is
\* about to be signalled by the writer that completed the frame, for any
\* number of writers and any concurrent audio_queue_clear.
THEOREM WakeupCorrect == Spec => []NoLostWakeup
<1>1. Init => WakeInv
  BY QueueAssumption, WakeInit
<1>2. WakeInv /\ [Next]_vars => WakeInv'
  BY QueueAssumption, WakeStep
<1>3. WakeInv => NoLostWakeup
  BY DEF WakeInv
<1> QED BY <1>1, <1>2, <1>3, PTL DEF Spec

-----------------------------------------------------------------------------
(* Until the first clear the counters are exact                                  *)

\* What a thread inside its critical section is about to add to its counter
\* is missing from that counter, and nothing else is: the buffer holds what
\* was written less what was read.  The loaded value is still current,
\* because only audio_queue_clear stores to another thread's counter.
Accounts ==
    /\ mutex = Nobody => write_bytes = read_bytes + inuse
    /\ \A t \in Threads : mutex = t /\ pc[t] = "write_count" =>
          /\ reg[t] = write_bytes
          /\ write_bytes + len[t] = read_bytes + inuse
    /\ \A t \in Threads : mutex = t /\ pc[t] = "read_count" =>
          /\ reg[t] = read_bytes
          /\ write_bytes = read_bytes + len[t] + inuse

CountInv ==
    /\ \A t \in Threads :
          pc[t] \in {"clear_read", "clear_write", "clear_waiting"} => cleared
    /\ ~cleared => Accounts

TotalInv == WakeInv /\ CountInv

\* Every step keeps the accounts as long as nobody has cleared the queue.
LEMMA CountStep == QueueAssumption /\ TotalInv /\ [Next]_vars => CountInv'
<1> SUFFICES ASSUME QueueAssumption, TotalInv, [Next]_vars PROVE CountInv'
  OBVIOUS
<1> USE DEF QueueAssumption, TotalInv, WakeInv, TypeOK, MutexInv, CountInv,
            Accounts, Moved
<1>1. CASE \E w \in Writers : WriterNext(w)
  <2> PICK w \in Writers : WriterNext(w)
    BY <1>1
  <2>1. ASSUME NEW n \in WriteSizes, WriteBegin(w, n) PROVE CountInv'
    BY <2>1 DEF WriteBegin
  <2>2. ASSUME NEW n \in WriteSizes, WriteFull(w, n) PROVE CountInv'
    BY <2>2 DEF WriteFull
  <2>3. CASE WriteCount(w)
    BY <2>3 DEF WriteCount
  <2>4. CASE Signal(w)
    BY <2>4 DEF Signal
  <2> QED BY <2>1, <2>2, <2>3, <2>4 DEF WriterNext
<1>2. CASE ReaderNext
  <2>1. CASE ReadInitial
    BY <2>1 DEF ReadInitial, ReturnEmpty
  <2>2. ASSUME NEW block \in BOOLEAN, ReadNoWait(block) PROVE CountInv'
    BY <2>2 DEF ReadNoWait, TakeBytes, ReturnEmpty
  <2>3. CASE ReadBlock
    BY <2>3 DEF ReadBlock, Block
  <2>4. CASE WaitSpurious
    BY <2>4 DEF WaitSpurious
  <2>5. CASE WaitTimeout
    BY <2>5 DEF WaitTimeout
  <2>6. CASE ReadRecheck
    BY <2>6 DEF ReadRecheck, Block, TakeBytes, ReturnEmpty
  <2>7. CASE ReadTimedOut
    BY <2>7 DEF ReadTimedOut, TakeBytes, ReturnEmpty
  <2>8. CASE ReadCount
    BY <2>8 DEF ReadCount
  <2> QED
    BY <1>2, <2>1, <2>2, <2>3, <2>4, <2>5, <2>6, <2>7, <2>8
    DEF ReaderNext, ReaderResumes
<1>3. CASE \E c \in Clearers : ClearerNext(c)
  <2> PICK c \in Clearers : ClearerNext(c)
    BY <1>3
  <2>1. CASE ClearBuffer(c)
    BY <2>1 DEF ClearBuffer
  <2>2. CASE ClearRead(c)
    BY <2>2 DEF ClearRead
  <2>3. CASE ClearWrite(c)
    BY <2>3 DEF ClearWrite
  <2>4. CASE ClearWaiting(c)
    BY <2>4 DEF ClearWaiting
  <2> QED BY <2>1, <2>2, <2>3, <2>4 DEF ClearerNext
<1>4. CASE UNCHANGED vars
  BY <1>4 DEF vars
<1> QED BY <1>1, <1>2, <1>3, <1>4 DEF Next

\* Until the first audio_queue_clear, write_bytes and read_bytes are the
\* totals their comments promise, for any number of writers.
THEOREM TotalsCorrect == Spec => []TotalsMatch
<1>1. Init => TotalInv
  <2>1. Init => CountInv
    BY QueueAssumption DEF Init, CountInv, Accounts, QueueAssumption
  <2> QED BY <2>1, QueueAssumption, WakeInit DEF TotalInv
<1>2. TotalInv /\ [Next]_vars => TotalInv'
  BY QueueAssumption, WakeStep, CountStep DEF TotalInv
<1>3. TotalInv => TotalsMatch
  BY DEF TotalInv, CountInv, Accounts, TotalsMatch, Quiescent
<1> QED BY <1>1, <1>2, <1>3, PTL DEF Spec

-----------------------------------------------------------------------------
(* The queue implements a pipe of bytes                                    *)

\* Every step of the queue is a step of the pipe or leaves the pipe alone: the
\* step that moves bytes in the buffer is the pipe's, the updates of the
\* counters, the signals and the stores of audio_queue_clear are invisible.
LEMMA PipeStep ==
    QueueAssumption /\ WakeInv /\ [Next]_vars => [Pipe!Next]_(Pipe!pipe)
<1> SUFFICES ASSUME QueueAssumption, WakeInv, [Next]_vars
             PROVE  [Pipe!Next]_(Pipe!pipe)
  OBVIOUS
<1> USE DEF QueueAssumption, WakeInv, TypeOK, MutexInv, Moved, Pipe!pipe
<1>0. Reader \in Threads
  OBVIOUS
<1>1. CASE \E w \in Writers : WriterNext(w)
  <2> PICK w \in Writers : WriterNext(w)
    BY <1>1
  <2>0. w \in Threads /\ w # Reader
    OBVIOUS
  <2>1. ASSUME NEW n \in WriteSizes, WriteBegin(w, n) PROVE Pipe!Put(n)
    BY <1>0, <2>0, <2>1 DEF WriteBegin, BufferTakes, Pipe!Put
  <2>2. ASSUME NEW n \in WriteSizes, WriteFull(w, n)
        PROVE  UNCHANGED (Pipe!pipe)
    BY <1>0, <2>0, <2>2 DEF WriteFull
  <2>3. CASE WriteCount(w)
    BY <1>0, <2>0, <2>3 DEF WriteCount, WakesReader
  <2>4. CASE Signal(w)
    BY <1>0, <2>0, <2>4 DEF Signal
  <2> QED BY <2>1, <2>2, <2>3, <2>4 DEF WriterNext, Pipe!Next
<1>2. CASE ReaderNext
  <2>1. CASE ReadInitial
    BY <1>0, <2>1
    DEF ReadInitial, InitialFrameMissing, ReturnEmpty, Pipe!Next, Pipe!Nothing,
        Pipe!Give
  <2>2. ASSUME NEW block \in BOOLEAN, ReadNoWait(block) PROVE Pipe!Next
    <3>1. CASE inuse >= Frame
      BY <1>0, <2>2, <3>1
      DEF ReadNoWait, TakeBytes, Pipe!Next, Pipe!Deliver, Pipe!Give
    <3>2. CASE ~(inuse >= Frame)
      BY <1>0, <2>2, <3>2
      DEF ReadNoWait, TakeBytes, ReturnEmpty, Pipe!Next, Pipe!Poll, Pipe!Give,
          Pipe!Available
    <3> QED BY <3>1, <3>2
  <2>3. CASE ReadBlock
    BY <1>0, <2>3 DEF ReadBlock, Block, Pipe!Next, Pipe!Ask
  <2>4. CASE WaitSpurious
    BY <1>0, <2>4 DEF WaitSpurious
  <2>5. CASE WaitTimeout
    BY <1>0, <2>5 DEF WaitTimeout, Pipe!Next, Pipe!Expire
  <2>6. CASE ReadRecheck
    <3>1. CASE inuse < Frame
      BY <1>0, <2>6, <3>1 DEF ReadRecheck, Block
    <3>2. CASE inuse >= Frame
      BY <1>0, <2>6, <3>2
      DEF ReadRecheck, TakeBytes, Pipe!Next, Pipe!Deliver, Pipe!Give
    <3> QED BY <3>1, <3>2
  <2>7. CASE ReadTimedOut
    BY <1>0, <2>7
    DEF ReadTimedOut, TakeBytes, ReturnEmpty, Pipe!Next, Pipe!Poll, Pipe!Give,
        Pipe!Available
  <2>8. CASE ReadCount
    BY <1>0, <2>8 DEF ReadCount
  <2> QED
    BY <1>2, <2>1, <2>2, <2>3, <2>4, <2>5, <2>6, <2>7, <2>8
    DEF ReaderNext, ReaderResumes
<1>3. CASE \E c \in Clearers : ClearerNext(c)
  <2> PICK c \in Clearers : ClearerNext(c)
    BY <1>3
  <2>0. c \in Threads
    OBVIOUS
  <2>1. CASE ClearBuffer(c)
    BY <1>0, <2>0, <2>1 DEF ClearBuffer, Pipe!Next, Pipe!Clear
  <2>2. CASE ClearRead(c)
    BY <1>0, <2>0, <2>2 DEF ClearRead
  <2>3. CASE ClearWrite(c)
    BY <1>0, <2>0, <2>3 DEF ClearWrite
  <2>4. CASE ClearWaiting(c)
    BY <1>0, <2>0, <2>4 DEF ClearWaiting
  <2> QED BY <2>1, <2>2, <2>3, <2>4 DEF ClearerNext
<1>4. CASE UNCHANGED vars
  BY <1>4 DEF vars
<1> QED BY <1>1, <1>2, <1>3, <1>4 DEF Next

\* audio_queue.h, with its mutex, condition variable, counters and unlocked
\* clear, implements the pipe of AudioPipe for every capacity, frame size and
\* set of threads: no byte is lost or invented, and only an expired or a
\* non-blocking read gets less than a frame.
THEOREM QueueImplementsPipe == Spec => ImplementsPipe
<1>1. Init => WakeInv /\ Pipe!Init
  <2>1. Init => Pipe!Init
    BY QueueAssumption DEF Init, Pipe!Init, QueueAssumption
  <2> QED BY <2>1, QueueAssumption, WakeInit
<1>2. WakeInv /\ [Next]_vars => WakeInv'
  BY QueueAssumption, WakeStep
<1>3. WakeInv /\ [Next]_vars => [Pipe!Next]_(Pipe!pipe)
  BY QueueAssumption, PipeStep
<1> QED BY <1>1, <1>2, <1>3, PTL DEF Spec, ImplementsPipe, Pipe!Spec
=============================================================================
