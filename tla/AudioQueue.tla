----------------------------- MODULE AudioQueue -----------------------------
(***************************************************************************)
(* The byte queue of src/include/audio_queue.h: a bounded buffer, a mutex, *)
(* a condition variable and three counters.  One thread reads, any number  *)
(* of threads write, and the threads in Clearers may empty the queue.      *)
(*                                                                         *)
(* Every function runs under the mutex except the tail of                  *)
(* audio_queue_clear, whose three stores follow the unlock.  Those stores  *)
(* can fall between the load and the store of "write_bytes + *data_len",   *)
(* so that addition, and the one on read_bytes, are two steps here.  All   *)
(* the rest of a critical section commutes with the stores and is one step.*)
(***************************************************************************)
EXTENDS Integers

CONSTANTS
    Writers,      \* threads that call audio_queue_write (media bug callback)
    Reader,       \* the one thread that calls audio_queue_read
    Clearers,     \* threads that call audio_queue_clear
    Nobody,       \* owner of a free mutex
    Capacity,     \* AUDIO_QUEUE_SIZE
    Frame,        \* bytes every read requests
    WriteSizes,   \* the sizes written (frame.datalen of a media bug frame)
    MaxBytes,     \* bound: no write is started that would bring a counter past it
    Spurious      \* may the condition variable wake without a signal?

Threads == Writers \cup Clearers \cup {Reader}

ASSUME QueueAssumption ==
    /\ Capacity \in Nat \ {0}
    /\ Frame \in 1..Capacity
    /\ WriteSizes \subseteq Nat \ {0}
    /\ MaxBytes \in Nat
    /\ Reader \notin Writers
    /\ Nobody \notin Threads
    /\ Spurious \in BOOLEAN

VARIABLES
    inuse,        \* switch_buffer_inuse(queue->buffer)
    write_bytes,  \* queue->write_bytes
    read_bytes,   \* queue->read_bytes
    waiting,      \* queue->waiting
    mutex,        \* the thread inside a critical section that has two steps
    pc,           \* where each thread is
    reg,          \* the counter value a thread loaded before adding to it
    len,          \* *data_len of each thread's current or last call
    status,       \* status each thread's last call returned
    how,          \* the reader's current or last call: "block", "nonblock",
                  \* or "timeout" once a blocking call's wait has expired
    cleared       \* history: has audio_queue_clear been called?

vars == <<inuse, write_bytes, read_bytes, waiting, mutex, pc, reg, len,
          status, how, cleared>>
counters == <<write_bytes, read_bytes>>

Labels == {"idle", "write_count", "signal", "blocked", "woken", "timed_out",
           "read_count", "clear_read", "clear_write", "clear_waiting"}
Statuses == {"SUCCESS", "FALSE"}

\* A thread holds the mutex across steps exactly at these labels.
Holding == {"write_count", "read_count"}

Init ==
    /\ inuse = 0
    /\ write_bytes = 0
    /\ read_bytes = 0
    /\ waiting = 0
    /\ mutex = Nobody
    /\ pc = [t \in Threads |-> "idle"]
    /\ reg = [t \in Threads |-> 0]
    /\ len = [t \in Threads |-> 0]
    /\ status = [t \in Threads |-> "SUCCESS"]
    /\ how = "block"
    /\ cleared = FALSE

-----------------------------------------------------------------------------
(* The condition variable: only the reader ever waits on it.               *)

\* pc after thread t moves to label l and, if sig, signals the condition.
Moved(t, l, sig) ==
    [u \in Threads |->
        IF u = t THEN l
        ELSE IF sig /\ u = Reader /\ pc[u] = "blocked" THEN "woken" ELSE pc[u]]

\* Mutant: a chunk is taken whenever there is any room.
BufferNotFull(n) == inuse < Capacity

\* switch_buffer_write takes the whole chunk or nothing.
BufferTakes(n) == inuse + n <= Capacity

\* Mutant: off by one, a buffer that holds exactly the request is not enough.
WakesReaderLate == waiting < inuse

\* The test under which audio_queue_write signals the reader.
WakesReader == waiting <= inuse

-----------------------------------------------------------------------------
(* audio_queue_write: lock, put the chunk in the buffer, load write_bytes; *)
(* then store the sum, signal if the reader's wish is met, unlock.         *)

WriteBegin(w, n) ==
    /\ pc[w] = "idle" /\ mutex = Nobody
    /\ write_bytes + n <= MaxBytes /\ read_bytes + inuse + n <= MaxBytes
    /\ BufferTakes(n)
    /\ inuse' = inuse + n
    /\ reg' = [reg EXCEPT ![w] = write_bytes]
    /\ len' = [len EXCEPT ![w] = n]
    /\ mutex' = w
    /\ pc' = Moved(w, "write_count", FALSE)
    /\ UNCHANGED <<counters, waiting, status, how, cleared>>

\* Mutant: the bytes are counted before the buffer has refused them.
WriteFullCounted(w, n) ==
    /\ pc[w] = "idle" /\ mutex = Nobody
    /\ ~BufferTakes(n)
    /\ write_bytes' = write_bytes + n
    /\ len' = [len EXCEPT ![w] = 0]
    /\ status' = [status EXCEPT ![w] = "FALSE"]
    /\ pc' = Moved(w, "signal", FALSE)
    /\ UNCHANGED <<inuse, read_bytes, waiting, mutex, reg, how, cleared>>

WriteFull(w, n) ==
    /\ pc[w] = "idle" /\ mutex = Nobody
    /\ ~BufferTakes(n)
    /\ len' = [len EXCEPT ![w] = 0]
    /\ status' = [status EXCEPT ![w] = "FALSE"]
    /\ pc' = Moved(w, "signal", FALSE)
    /\ UNCHANGED <<inuse, counters, waiting, mutex, reg, how, cleared>>

WriteCount(w) ==
    /\ pc[w] = "write_count"
    /\ write_bytes' = reg[w] + len[w]
    /\ status' = [status EXCEPT ![w] = "SUCCESS"]
    /\ mutex' = Nobody
    /\ pc' = Moved(w, "signal", WakesReader)
    /\ UNCHANGED <<inuse, read_bytes, waiting, reg, len, how, cleared>>

\* The media bug callback follows every write with audio_queue_signal.
Signal(w) ==
    /\ pc[w] = "signal" /\ mutex = Nobody
    /\ pc' = Moved(w, "idle", TRUE)
    /\ UNCHANGED <<inuse, counters, waiting, mutex, reg, len, status, how, cleared>>

-----------------------------------------------------------------------------
(* audio_queue_read                                                        *)

\* Nothing to take: unlock and return with *data_len = 0.
ReturnEmpty(s) ==
    /\ len' = [len EXCEPT ![Reader] = 0]
    /\ status' = [status EXCEPT ![Reader] = s]
    /\ pc' = Moved(Reader, "idle", FALSE)
    /\ UNCHANGED <<inuse, counters, mutex, reg, cleared>>

\* Take min(inuse, requested) bytes and load read_bytes.
TakeBytes ==
    LET n == IF inuse < Frame THEN inuse ELSE Frame IN
    IF n = 0
    THEN ReturnEmpty("FALSE")
    ELSE /\ inuse' = inuse - n
         /\ len' = [len EXCEPT ![Reader] = n]
         /\ reg' = [reg EXCEPT ![Reader] = read_bytes]
         /\ mutex' = Reader
         /\ pc' = Moved(Reader, "read_count", FALSE)
         /\ UNCHANGED <<counters, status, cleared>>

\* Release the mutex inside switch_thread_cond_timedwait.
Block ==
    /\ waiting' = Frame
    /\ pc' = Moved(Reader, "blocked", FALSE)
    /\ UNCHANGED <<inuse, counters, mutex, reg, len, status, cleared>>

\* "allow the initial frame to buffer"
InitialFrameMissing == read_bytes = 0 /\ inuse < Frame

ReadInitial ==
    /\ pc[Reader] = "idle" /\ mutex = Nobody
    /\ InitialFrameMissing
    /\ how' = "block"
    /\ ReturnEmpty("SUCCESS")
    /\ UNCHANGED waiting

ReadNoWait(block) ==
    /\ pc[Reader] = "idle" /\ mutex = Nobody
    /\ ~InitialFrameMissing
    /\ ~block \/ inuse >= Frame
    /\ waiting' = IF block THEN 0 ELSE waiting
    /\ how' = IF block THEN "block" ELSE "nonblock"
    /\ TakeBytes

ReadBlock ==
    /\ pc[Reader] = "idle" /\ mutex = Nobody
    /\ ~InitialFrameMissing
    /\ inuse < Frame
    /\ how' = "block"
    /\ Block

\* The wait ends without a signal: its time is up, or spuriously.
WaitTimeout ==
    /\ pc[Reader] = "blocked"
    /\ how' = "timeout"
    /\ pc' = Moved(Reader, "timed_out", FALSE)
    /\ UNCHANGED <<inuse, counters, waiting, mutex, reg, len, status, cleared>>

WaitSpurious ==
    /\ Spurious
    /\ pc[Reader] = "blocked"
    /\ pc' = Moved(Reader, "woken", FALSE)
    /\ UNCHANGED <<inuse, counters, waiting, mutex, reg, len, status, how, cleared>>

\* Mutant: "if" instead of "while", a woken reader takes what there is.
ReadNoRecheck ==
    /\ pc[Reader] = "woken" /\ mutex = Nobody
    /\ waiting' = 0
    /\ TakeBytes
    /\ UNCHANGED how

\* Back with the mutex after a wake-up: the loop tests the buffer again.
ReadRecheck ==
    /\ pc[Reader] = "woken" /\ mutex = Nobody
    /\ UNCHANGED how
    /\ \/ inuse < Frame /\ Block
       \/ inuse >= Frame /\ waiting' = 0 /\ TakeBytes

\* Mutant: the loop forgets to break on a timeout.
ReadWaitsAgain ==
    /\ pc[Reader] = "timed_out" /\ mutex = Nobody
    /\ \/ inuse < Frame /\ Block
       \/ inuse >= Frame /\ waiting' = 0 /\ TakeBytes
    /\ UNCHANGED how

\* Back with the mutex after a timeout: break, whatever the buffer holds.
ReadTimedOut ==
    /\ pc[Reader] = "timed_out" /\ mutex = Nobody
    /\ waiting' = 0
    /\ TakeBytes
    /\ UNCHANGED how

ReadCount ==
    /\ pc[Reader] = "read_count"
    /\ read_bytes' = reg[Reader] + len[Reader]
    /\ status' = [status EXCEPT ![Reader] = "SUCCESS"]
    /\ mutex' = Nobody
    /\ pc' = Moved(Reader, "idle", FALSE)
    /\ UNCHANGED <<inuse, write_bytes, waiting, reg, len, how, cleared>>

-----------------------------------------------------------------------------
(* audio_queue_clear: zero and signal under the mutex, then three stores   *)
(* outside it.                                                             *)

ClearBuffer(c) ==
    /\ pc[c] = "idle" /\ mutex = Nobody
    /\ inuse' = 0
    /\ cleared' = TRUE
    /\ pc' = Moved(c, "clear_read", TRUE)
    /\ UNCHANGED <<counters, waiting, mutex, reg, len, status, how>>

ClearRead(c) ==
    /\ pc[c] = "clear_read"
    /\ read_bytes' = 0
    /\ pc' = Moved(c, "clear_write", FALSE)
    /\ UNCHANGED <<inuse, write_bytes, waiting, mutex, reg, len, status, how, cleared>>

ClearWrite(c) ==
    /\ pc[c] = "clear_write"
    /\ write_bytes' = 0
    /\ pc' = Moved(c, "clear_waiting", FALSE)
    /\ UNCHANGED <<inuse, read_bytes, waiting, mutex, reg, len, status, how, cleared>>

ClearWaiting(c) ==
    /\ pc[c] = "clear_waiting"
    /\ waiting' = 0
    /\ status' = [status EXCEPT ![c] = "SUCCESS"]
    /\ pc' = Moved(c, "idle", FALSE)
    /\ UNCHANGED <<inuse, counters, mutex, reg, len, how, cleared>>

-----------------------------------------------------------------------------
WriterNext(w) == \/ \E n \in WriteSizes : WriteBegin(w, n) \/ WriteFull(w, n)
                 \/ WriteCount(w)
                 \/ Signal(w)

\* The reader's steps inside a call once its wait is over.
ReaderResumes == ReadRecheck \/ ReadTimedOut \/ ReadCount

ReaderNext == \/ ReadInitial
              \/ \E block \in BOOLEAN : ReadNoWait(block)
              \/ ReadBlock
              \/ WaitTimeout
              \/ WaitSpurious
              \/ ReaderResumes

ClearerNext(c) == \/ ClearBuffer(c)
                  \/ ClearRead(c)
                  \/ ClearWrite(c)
                  \/ ClearWaiting(c)

Next == \/ \E w \in Writers : WriterNext(w)
        \/ ReaderNext
        \/ \E c \in Clearers : ClearerNext(c)

Spec == Init /\ [][Next]_vars

\* Threads inside a call keep running.  A timed wait does end, and spurious
\* wake-ups do not for ever keep it from ending.  Nobody is obliged to start a
\* call.
Fairness == /\ WF_vars(ReaderResumes)
            /\ SF_vars(WaitTimeout)
            /\ \A w \in Writers : WF_vars(WriteCount(w) \/ Signal(w))
            /\ \A c \in Clearers :
                  WF_vars(ClearRead(c) \/ ClearWrite(c) \/ ClearWaiting(c))

FairSpec == Spec /\ Fairness

-----------------------------------------------------------------------------
(* Properties                                                              *)

\* Types; the buffer never holds more than AUDIO_QUEUE_SIZE bytes
\* (audio_queue_write drops a chunk that does not fit) and "waiting" is only
\* ever 0 or the size of the pending request.
TypeOK ==
    /\ inuse \in 0..Capacity
    /\ write_bytes \in Nat
    /\ read_bytes \in Nat
    /\ waiting \in {0, Frame}
    /\ mutex \in Threads \cup {Nobody}
    /\ pc \in [Threads -> Labels]
    /\ reg \in [Threads -> Nat]
    /\ len \in [Threads -> Nat]
    /\ status \in [Threads -> Statuses]
    /\ how \in {"block", "nonblock", "timeout"}
    /\ cleared \in BOOLEAN

\* audio_queue_read never sleeps over a frame that is there: when it is
\* blocked while the buffer already holds what it asked for, a writer is still
\* inside audio_queue_write and its test waiting <= inuse will signal.  Not
\* even audio_queue_clear's unlocked store to "waiting" breaks this.
NoLostWakeup ==
    pc[Reader] = "blocked" /\ inuse >= Frame =>
        \E w \in Writers : /\ mutex = w
                           /\ pc[w] = "write_count"
                           /\ WakesReader

\* No thread is inside a function of the queue that changes the counters.
Quiescent ==
    /\ mutex = Nobody
    /\ \A c \in Clearers : pc[c] \notin {"clear_read", "clear_write", "clear_waiting"}

\* The counters are "total bytes written" and "total bytes read": until the
\* first audio_queue_clear, their difference is what the buffer holds, however
\* many chunks were dropped or read in part.
TotalsMatch ==
    Quiescent /\ ~cleared => write_bytes = read_bytes + inuse

\* audio_queue.h implements a pipe of bytes: whatever the interleaving of the
\* writers, the reader and a clear with its unlocked stores, bytes are neither
\* lost nor made up, and a blocking audio_queue_read hands out a piece of a
\* frame only after its wait timed out; signals, clears and spurious wake-ups
\* make it test the buffer again.  The sender thread relies on that: it throws
\* away every chunk that is not a whole frame.
Pipe == INSTANCE AudioPipe WITH
    Sizes <- WriteSizes,
    held <- inuse,
    reader <- CASE pc[Reader] \in {"blocked", "woken"} -> "waiting"
                [] pc[Reader] = "timed_out" -> "expired"
                [] OTHER -> "idle",
    got <- len[Reader]
ImplementsPipe == Pipe!Spec

\* audio_queue_read, once blocked, comes back (data or timeout).
ReadReturns == pc[Reader] = "blocked" ~> pc[Reader] = "idle"
=============================================================================
