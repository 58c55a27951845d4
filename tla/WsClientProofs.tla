--------------------------- MODULE WsClientProofs ---------------------------
(***************************************************************************)
(* Theorems about a WebSocketClient and its event loop, for every          *)
(* max_write_bufsize that holds a frame, any number of messages and any    *)
(* ping limit, while hio_close takes the hio down step by step and a       *)
(* send() may write between any two of them: the queue is watched as long  *)
(* as it is not empty and frames stay whole (QueueInv, first part); the    *)
(* loop's events are accounted for, the socket is closed when the loop has *)
(* ended, and the callbacks come as WsSession promises (ClientInv).        *)
(***************************************************************************)
EXTENDS WsClient, SequenceTheorems, FiniteSetTheorems, TLAPS

Halves == {"first", "rest", "req"}
Hio == [phase : {"idle", "refused", "connecting", "up", "shut"},
        reading : BOOLEAN, watch : BOOLEAN, timer : BOOLEAN, error : BOOLEAN,
        close : BOOLEAN, closed : BOOLEAN, ready : BOOLEAN, own : BOOLEAN]

\* The frames a client writes: a message or the upgrade request.
Written == {Frame, <<"first", "req">>}

\* What hio_close has still to do: up to the queue, up to the callback, at all.
Freeing == {"hio_done", "hio_del", "free_queue"}
Telling == Freeing \cup {"close_cb"}
Chain == Telling \cup {"close_fd"}

\* What the first theorems look at.
socket == <<io, wq, torn, task>>

-----------------------------------------------------------------------------
(* The inductive invariant of the socket                                   *)

SocketTypes == io \in Hio /\ wq \in Seq(Halves) /\ torn \in BOOLEAN

\* A closed hio is not ready, but for the moment between the two stores.
ReadyInv ==
    /\ io.closed <=> task = "hio_done" \/ ~io.ready
    /\ task = "hio_done" => io.ready

\* The hio that the loop thread is closing is closed, or a write in the middle of
\* that has made it ready again.
ChainInv == task \in Chain => io.closed \/ ~io.own

\* The queue of an open hio ends with the end of a frame.
EndsWhole == io.own /\ ~io.closed /\ wq # <<>> => wq[Len(wq)] # "first"

QueueInv ==
    /\ SocketTypes /\ ReadyInv /\ ChainInv
    /\ QueueIsWatched /\ FramesWhole /\ EndsWhole

LEMMA InitQueue == Init => QueueInv
<1> SUFFICES ASSUME Init PROVE QueueInv
  OBVIOUS
<1>1. wq = <<>> /\ wq \in Seq(Halves) /\ Len(wq) = 0 /\ task = "none"
  BY EmptySeq DEF Init, LoopInit
<1>2. torn \in BOOLEAN /\ ~torn
  BY Zenon DEF Init
<1>3. io \in Hio /\ ~io.closed /\ io.ready
  BY DEF Init, Hio
<1> QED
  BY <1>1, <1>2, <1>3 DEF QueueInv, SocketTypes, ReadyInv, ChainInv, QueueIsWatched,
                          FramesWhole, EndsWhole, Chain, Telling, Freeing

LEMMA SameSocket == QueueInv /\ UNCHANGED socket => QueueInv'
  BY DEF socket, QueueInv, SocketTypes, ReadyInv, ChainInv, QueueIsWatched, FramesWhole, EndsWhole

\* Another callback is entered, or one is left: not one of hio_close's.
LEMMA SameQueue ==
    ASSUME QueueInv, UNCHANGED <<io, wq, torn>>, task \notin Chain, task' \notin Chain
    PROVE  QueueInv'
  BY DEF QueueInv, SocketTypes, ReadyInv, ChainInv, QueueIsWatched, FramesWhole, EndsWhole, Freeing, Telling, Chain

-----------------------------------------------------------------------------
(* hio_close and hio_write                                                 *)

LEMMA CloseKeeps ==
    ASSUME QueueInv, NEW h \in Hio, NEW err \in BOOLEAN, NEW st, HioClose(h, err, st),
           UNCHANGED torn, task \notin Chain,
           h.closed = io.closed, h.ready = io.ready, h.own = io.own, h.watch = io.watch
    PROVE  QueueInv'
<1>0. UNCHANGED wq
  BY DEF HioClose
<1>1. CASE h.closed \/ MustDrain(h, err)
  <2>1. /\ io' = [h EXCEPT !.close = @ \/ ~h.closed, !.timer = @ \/ ~h.closed]
        /\ task' = "none"
    BY <1>1 DEF HioClose
  <2>2. /\ io' \in Hio /\ io'.watch = io.watch /\ io'.closed = io.closed
        /\ io'.ready = io.ready /\ io'.own = io.own
    BY <2>1 DEF Hio
  <2> QED
    BY <1>0, <2>1, <2>2 DEF QueueInv, SocketTypes, ReadyInv, ChainInv, QueueIsWatched, FramesWhole,
                            EndsWhole, Freeing, Telling, Chain
<1>2. CASE ~(h.closed \/ MustDrain(h, err))
  <2>1. /\ io' = [h EXCEPT !.error = @ \/ err, !.closed = TRUE]
        /\ task' = "hio_done"
    BY <1>2 DEF HioClose
  <2>2. io' \in Hio /\ io'.closed = TRUE /\ io'.ready = io.ready /\ ~io.closed
    BY <1>2, <2>1 DEF Hio
  <2> QED
    BY <1>0, <2>1, <2>2 DEF QueueInv, SocketTypes, ReadyInv, ChainInv, QueueIsWatched, FramesWhole,
                            EndsWhole, Freeing, Telling, Chain
<1> QED
  BY <1>1, <1>2

\* FramesWhole of a queue q behind a wire whose last half is a "first" iff t.
Whole(q, t) ==
    \A i \in 1..Len(q) :
        (q[i] = "first") <=> IF i = 1 THEN ~t ELSE q[i - 1] # "first"

LEMMA WrittenFrame ==
    ASSUME NEW f \in Written
    PROVE  /\ f \in Seq(Halves) /\ Len(f) = 2
           /\ f[1] = "first" /\ f[2] # "first"
<1>1. CASE f = <<"first", "rest">>
  BY <1>1 DEF Halves
<1>2. CASE f = <<"first", "req">>
  BY <1>2 DEF Halves
<1> QED
  BY <1>1, <1>2 DEF Written, Frame

\* What is left of q after n halves.
LEMMA Rest ==
    ASSUME NEW q \in Seq(Halves), NEW n \in 0..Len(q)
    PROVE  /\ SubSeq(q, n + 1, Len(q)) \in Seq(Halves)
           /\ Len(SubSeq(q, n + 1, Len(q))) = Len(q) - n
           /\ \A i \in 1..(Len(q) - n) : SubSeq(q, n + 1, Len(q))[i] = q[n + i]
<1>1. Len(q) \in Nat /\ \A i \in 1..Len(q) : q[i] \in Halves
  BY LenProperties
<1> DEFINE l == Len(q)
<1> HIDE DEF l
<1>2. l \in Nat /\ n \in 0..l /\ n + 1 \in Int /\ l \in Int
  BY <1>1 DEF l
<1>3. \A i \in (n + 1)..l : q[i] \in Halves
  BY <1>1, <1>2 DEF l
<1> DEFINE r == SubSeq(q, n + 1, l)
<1>4. /\ r \in Seq(Halves)
      /\ Len(r) = IF n + 1 <= l THEN l - (n + 1) + 1 ELSE 0
      /\ \A i \in 1..(l - (n + 1) + 1) : r[i] = q[n + 1 + i - 1]
  BY <1>2, <1>3, SubSeqProperties
<1> HIDE DEF r
<1>5. r \in Seq(Halves) /\ Len(r) = l - n
  BY <1>2, <1>4
<1>6. ASSUME NEW i \in 1..(l - n) PROVE r[i] = q[n + i]
  <2>1. i \in 1..(l - (n + 1) + 1) /\ n + 1 + i - 1 = n + i
    BY <1>2
  <2> QED
    BY <1>4, <2>1
<1> QED
  BY <1>5, <1>6 DEF r, l

\* The last half on the wire after n halves of q, when t told of it before.
LEMMA LastHalf ==
    ASSUME NEW q \in Seq(Halves), NEW n \in 0..Len(q)
    PROVE  /\ SubSeq(q, 1, n) = <<>> <=> n = 0
           /\ n # 0 => SubSeq(q, 1, n)[Len(SubSeq(q, 1, n))] = q[n]
<1>1. Len(q) \in Nat /\ \A i \in 1..Len(q) : q[i] \in Halves
  BY LenProperties
<1> DEFINE s == SubSeq(q, 1, n)
<1>2. /\ Len(s) = n /\ s \in Seq(Halves)
      /\ \A i \in 1..n : s[i] = q[i]
  BY <1>1, SubSeqProperties
<1> HIDE DEF s
<1>3. s = <<>> <=> n = 0
  BY <1>2, EmptySeq
<1>4. n # 0 => s[Len(s)] = q[n]
  BY <1>1, <1>2
<1> QED
  BY <1>3, <1>4 DEF s

\* send() takes n halves of q and leaves r; u tells of the last half written.
Takes(q, t, n, u, r) ==
    /\ q \in Seq(Halves) /\ t \in BOOLEAN /\ n \in 0..Len(q)
    /\ Whole(q, t) /\ (q # <<>> => q[Len(q)] # "first")
    /\ u \in BOOLEAN /\ (n = 0 => u = t) /\ (n # 0 => (u <=> q[n] = "first"))
    /\ r \in Seq(Halves) /\ Len(r) = Len(q) - n
    /\ \A i \in 1..(Len(q) - n) : r[i] = q[n + i]

\* What is left continues what is on the wire.
LEMMA TakeHalves ==
    ASSUME NEW q, NEW t, NEW n, NEW u, NEW r, Takes(q, t, n, u, r)
    PROVE  /\ Whole(r, u)
           /\ r # <<>> => r[Len(r)] # "first"
           /\ n = Len(q) /\ q # <<>> => ~u
<1> SUFFICES ASSUME q \in Seq(Halves), t \in BOOLEAN, n \in 0..Len(q),
                    Whole(q, t), q # <<>> => q[Len(q)] # "first",
                    u \in BOOLEAN, n = 0 => u = t, n # 0 => (u <=> q[n] = "first"),
                    r \in Seq(Halves), Len(r) = Len(q) - n,
                    \A i \in 1..(Len(q) - n) : r[i] = q[n + i]
             PROVE  /\ Whole(r, u)
                    /\ r # <<>> => r[Len(r)] # "first"
                    /\ n = Len(q) /\ q # <<>> => ~u
  BY DEF Takes
<1>1. Len(q) \in Nat
  BY LenProperties
<1>6. Whole(r, u)
  <2> SUFFICES ASSUME NEW i \in 1..Len(r)
               PROVE  (r[i] = "first") <=> IF i = 1 THEN ~u ELSE r[i - 1] # "first"
    BY DEF Whole
  <2>1. r[i] = q[n + i] /\ n + i \in 1..Len(q)
    BY <1>1
  <2>2. (q[n + i] = "first") <=> IF n + i = 1 THEN ~t ELSE q[n + i - 1] # "first"
    BY <2>1 DEF Whole
  <2>3. CASE i = 1
    <3>1. CASE n = 0
      BY <2>1, <2>2, <2>3, <3>1
    <3>2. CASE n # 0
      <4>1. n + i # 1 /\ n + i - 1 = n
        BY <1>1, <2>3, <3>2
      <4> QED
        BY <2>1, <2>2, <2>3, <3>2, <4>1
    <3> QED
      BY <3>1, <3>2
  <2>4. CASE i # 1
    <3>1. r[i - 1] = q[n + i - 1]
      BY <1>1, <2>4
    <3> QED
      BY <1>1, <2>1, <2>2, <2>4, <3>1
  <2> QED
    BY <2>3, <2>4
<1>7. r # <<>> => r[Len(r)] # "first"
  <2> SUFFICES ASSUME r # <<>> PROVE r[Len(r)] # "first"
    OBVIOUS
  <2>1. Len(r) \in Nat \ {0}
    BY EmptySeq
  <2>2. Len(r) \in 1..(Len(q) - n) /\ n + Len(r) = Len(q) /\ Len(q) # 0
    BY <1>1, <2>1
  <2>3. q # <<>>
    BY <2>2, EmptySeq
  <2>4. r[Len(r)] = q[n + Len(r)]
    BY <2>2
  <2> QED
    BY <2>2, <2>3, <2>4
<1>8. n = Len(q) /\ q # <<>> => ~u
  BY <1>1, EmptySeq
<1> QED
  BY <1>6, <1>7, <1>8

\* A frame goes behind whole frames.
LEMMA AppendFrame ==
    ASSUME NEW q \in Seq(Halves), NEW f \in Written, NEW t \in BOOLEAN,
           q # <<>>, Whole(q, t), q[Len(q)] # "first",
           NEW r, r = q \o f
    PROVE  r \in Seq(Halves) /\ r # <<>> /\ Whole(r, t) /\ r[Len(r)] # "first"
<1>1. f \in Seq(Halves) /\ Len(f) = 2 /\ f[1] = "first" /\ f[2] # "first"
  BY WrittenFrame
<1>2. Len(q) \in Nat \ {0}
  BY EmptySeq
<1>3. /\ r \in Seq(Halves) /\ Len(r) = Len(q) + 2
      /\ \A i \in 1..(Len(q) + 2) :
             r[i] = IF i <= Len(q) THEN q[i] ELSE f[i - Len(q)]
  <2>1. /\ q \o f \in Seq(Halves)
        /\ Len(q \o f) = Len(q) + Len(f)
        /\ \A i \in 1..(Len(q) + Len(f)) :
               (q \o f)[i] = IF i <= Len(q) THEN q[i] ELSE f[i - Len(q)]
    BY <1>1, ConcatProperties
  <2> QED
    BY <1>1, <2>1
<1>4. /\ \A i \in 1..Len(q) : r[i] = q[i]
      /\ r[Len(q) + 1] = "first" /\ r[Len(q) + 2] # "first"
  <2>1. Len(q) + 1 - Len(q) = 1 /\ Len(q) + 2 - Len(q) = 2
    BY <1>2
  <2> QED
    BY <1>1, <1>2, <1>3, <2>1
<1>5. Whole(r, t)
  <2> SUFFICES ASSUME NEW i \in 1..(Len(q) + 2)
               PROVE  (r[i] = "first") <=> IF i = 1 THEN ~t ELSE r[i - 1] # "first"
    BY <1>3 DEF Whole
  <2>1. CASE i \in 1..Len(q)
    <3>1. (q[i] = "first") <=> IF i = 1 THEN ~t ELSE q[i - 1] # "first"
      BY <2>1 DEF Whole
    <3>2. r[i] = q[i] /\ (i # 1 => r[i - 1] = q[i - 1])
      BY <1>2, <1>4, <2>1
    <3> QED
      BY <3>1, <3>2
  <2>2. CASE i = Len(q) + 1
    <3>1. i - 1 = Len(q) /\ i # 1 /\ Len(q) \in 1..Len(q)
      BY <1>2, <2>2
    <3> QED
      BY <1>4, <2>2, <3>1
  <2>3. CASE i = Len(q) + 2
    <3>1. i - 1 = Len(q) + 1 /\ i # 1
      BY <1>2, <2>3
    <3> QED
      BY <1>4, <2>3, <3>1
  <2>4. i \in 1..Len(q) \/ i = Len(q) + 1 \/ i = Len(q) + 2
    BY <1>2
  <2> QED
    BY <2>1, <2>2, <2>3, <2>4
<1> QED
  BY <1>2, <1>3, <1>4, <1>5, EmptySeq

\* What the hio is made of for a write: itself, or itself made ready again.
LEMMA AddEffect ==
    ASSUME NEW h \in Hio, h.closed \/ h.ready
    PROVE  /\ HioAdd(h) \in Hio /\ HioAdd(h).watch /\ HioAdd(h).ready
           /\ HioAdd(h).phase = h.phase /\ HioAdd(h).timer = h.timer
           /\ h.ready => /\ HioAdd(h).own = h.own /\ HioAdd(h).closed = h.closed
                         /\ HioAdd(h).close = h.close /\ HioAdd(h).reading = h.reading
           /\ ~h.ready => ~HioAdd(h).own /\ ~HioAdd(h).closed /\ ~HioAdd(h).reading
<1>1. CASE h.ready
  <2>1. HioAdd(h) = [h EXCEPT !.watch = TRUE]
    BY <1>1 DEF HioAdd
  <2> QED
    BY <1>1, <2>1 DEF Hio
<1>2. CASE ~h.ready
  <2>1. HioAdd(h) =
          [h EXCEPT !.ready = TRUE, !.own = FALSE, !.closed = FALSE, !.close = FALSE,
                    !.error = FALSE, !.reading = FALSE, !.watch = TRUE]
    BY <1>2 DEF HioAdd
  <2>2. HioAdd(h) \in Hio
    BY <2>1, ZenonT(40) DEF Hio
  <2> QED
    BY <1>2, <2>1, <2>2, ZenonT(40) DEF Hio
<1> QED
  BY <1>1, <1>2

\* hio_write on the hio h that the caller makes of io; a hio that is not ready
\* belongs to a close that goes on.
LEMMA WriteKeeps ==
    ASSUME QueueInv, NEW h \in Hio, NEW f \in Written, HioWrite(h, f),
           h.closed = io.closed, h.ready = io.ready, h.own = io.own,
           wq # <<>> => h.watch = io.watch,
           task' = task \/ (task \notin Chain /\ task' \notin Chain)
    PROVE  QueueInv'
<1>t. /\ task' \in Freeing <=> task \in Freeing
      /\ task' \in Chain <=> task \in Chain
      /\ task' = "hio_done" <=> task = "hio_done"
  BY DEF Freeing, Telling, Chain
<1>f. /\ f \in Seq(Halves) /\ Len(f) = 2 /\ f # <<>>
      /\ f[1] = "first" /\ f[2] # "first"
  BY WrittenFrame, EmptySeq
<1>r. h.closed \/ h.ready
  BY DEF QueueInv, ReadyInv, SocketTypes, Hio
<1>w. wq \in Seq(Halves) /\ torn \in BOOLEAN /\ io \in Hio
  BY DEF QueueInv, SocketTypes
<1>1. CASE /\ wq # <<>>
           /\ Enqueue(h, f)
           /\ UNCHANGED <<torn, srv>>
  <2> DEFINE fits == f = <<>> \/ Len(wq) + Len(f) <= MaxQueue
  <2>1. /\ wq' = IF fits THEN wq \o f ELSE wq
        /\ io' = [h EXCEPT !.error = @ \/ ~fits]
    BY <1>1 DEF Enqueue
  <2>2. /\ io' \in Hio /\ io'.watch = io.watch /\ io'.closed = io.closed
        /\ io'.ready = io.ready /\ io'.own = io.own
    <3> HIDE DEF fits
    <3> QED
      BY <1>1, <2>1 DEF Hio
  <2>3. SocketTypes' /\ ReadyInv' /\ ChainInv' /\ QueueIsWatched'
    <3>1. wq' \in Seq(Halves)
      BY <1>f, <1>w, <2>1, ConcatProperties
    <3>2. torn' \in BOOLEAN
      BY <1>1, <1>w
    <3> QED
      BY <1>1, <1>t, <2>2, <3>1, <3>2
      DEF QueueInv, SocketTypes, ReadyInv, ChainInv, QueueIsWatched, Freeing
  <2>4. CASE ~(io.own /\ ~io.closed)
    BY <2>2, <2>3, <2>4 DEF QueueInv, FramesWhole, EndsWhole
  <2>5. CASE io.own /\ ~io.closed /\ ~fits
    <3>1. wq' = wq /\ torn' = torn
      BY <1>1, <2>1, <2>5
    <3> QED
      BY <2>2, <2>3, <2>5, <3>1 DEF QueueInv, FramesWhole, EndsWhole
  <2>6. CASE io.own /\ ~io.closed /\ fits
    <3>1. wq' = wq \o f /\ torn' = torn
      BY <1>1, <2>1, <2>6
    <3>2. Whole(wq, torn) /\ wq[Len(wq)] # "first"
      BY <1>1, <2>6, Zenon DEF Whole, QueueInv, FramesWhole, EndsWhole
    <3>3. wq' # <<>> /\ Whole(wq', torn) /\ wq'[Len(wq')] # "first"
      BY <1>1, <1>w, <3>1, <3>2, AppendFrame, Zenon
    <3> QED
      BY <2>3, <3>1, <3>3 DEF QueueInv, FramesWhole, EndsWhole, Whole
  <2> QED
    BY <2>4, <2>5, <2>6
<1>2. CASE wq = <<>> /\ TryWrite(h, f)
  <2>1. PICK n \in 0..Len(f) :
           /\ Accepts(h, f, n)
           /\ Wire(SubSeq(f, 1, n))
           /\ Enqueue(IF n < Len(f) THEN HioAdd(h) ELSE h, SubSeq(f, n + 1, Len(f)))
    BY <1>2 DEF TryWrite
  <2> DEFINE rest == SubSeq(f, n + 1, Len(f))
             fits == rest = <<>> \/ Len(wq) + Len(rest) <= MaxQueue
             g == IF n < Len(f) THEN HioAdd(h) ELSE h
  <2>2. /\ wq' = IF fits THEN wq \o rest ELSE wq
        /\ io' = [g EXCEPT !.error = @ \/ ~fits]
    BY <2>1 DEF Enqueue
  <2>3. /\ rest \in Seq(Halves) /\ Len(rest) = Len(f) - n
        /\ \A i \in 1..(Len(f) - n) : rest[i] = f[n + i]
    BY <1>f, Rest
  <2>4. torn' = IF SubSeq(f, 1, n) = <<>> THEN torn
                ELSE SubSeq(f, 1, n)[Len(SubSeq(f, 1, n))] = "first"
    BY <2>1 DEF Wire
  <2>5. torn' \in BOOLEAN
    BY <1>w, <2>4
  <2>6. /\ (n = 0 => torn' = torn) /\ (n # 0 => (torn' <=> f[n] = "first"))
    BY <1>f, <2>4, LastHalf
  <2> HIDE DEF rest
  \* A frame fits into an empty queue.
  <2>7. fits /\ wq' = rest
    <3>1. Len(wq) = 0 /\ Len(rest) <= 2 /\ MaxQueue \in Nat /\ MaxQueue >= 2
      BY <1>2, <1>f, <2>3, EmptySeq, WsConstants
    <3>2. fits
      BY <2>3, <3>1
    <3> QED
      BY <1>2, <2>2, <2>3, <3>2, ConcatEmptySeq
  <2>8. io' = g
    <3>1. g \in Hio
      BY <1>r, AddEffect
    <3> HIDE DEF g, fits
    <3>2. io' = [g EXCEPT !.error = g.error]
      BY <2>2, <2>7, <3>1 DEF Hio
    <3> QED
      BY <3>1, <3>2 DEF Hio
  <2>9. wq' # <<>> => n < Len(f)
    BY <1>f, <2>3, <2>7, EmptySeq
  <2>10. CASE ~h.ready /\ n < Len(f)
    <3>1. io' \in Hio /\ ~io'.own /\ ~io'.closed /\ io'.ready
      BY <1>r, <2>8, <2>10, AddEffect
    <3>2. task' # "hio_done"
      BY <1>t, <2>10 DEF QueueInv, ReadyInv
    <3> QED
      BY <2>3, <2>5, <2>7, <3>1, <3>2
      DEF QueueInv, SocketTypes, ReadyInv, ChainInv, QueueIsWatched, FramesWhole, EndsWhole
  <2>11. CASE h.ready \/ ~(n < Len(f))
    <3>1. /\ io' \in Hio /\ io'.own = io.own /\ io'.closed = io.closed
          /\ io'.ready = io.ready /\ (n < Len(f) => io'.watch)
      BY <1>r, <2>8, <2>11, AddEffect
    <3>2. SocketTypes' /\ ReadyInv' /\ ChainInv' /\ QueueIsWatched'
      <4>1. SocketTypes'
        BY <2>3, <2>5, <2>7, <3>1 DEF SocketTypes
      <4>2. ReadyInv'
        BY <1>t, <3>1 DEF QueueInv, ReadyInv
      <4>3. wq' # <<>> => io'.watch /\ (io'.closed => task' = "hio_done")
        BY <1>t, <2>9, <2>11, <3>1 DEF QueueInv, ReadyInv
      <4>4. ChainInv'
        BY <1>t, <3>1 DEF QueueInv, ChainInv
      <4> QED
        BY <4>1, <4>2, <4>3, <4>4 DEF QueueIsWatched
    <3>3. CASE ~(io.own /\ ~io.closed)
      BY <3>1, <3>2, <3>3 DEF QueueInv, FramesWhole, EndsWhole
    <3>4. CASE io.own /\ ~io.closed
      <4>1. torn = FALSE
        BY <1>2, <1>w, <3>4, Zenon DEF QueueInv, FramesWhole
      <4>2. Whole(f, torn) /\ f[Len(f)] # "first"
        BY <1>f, <4>1 DEF Whole
      <4>3. Takes(f, torn, n, torn', rest)
        BY <1>f, <1>w, <2>3, <2>5, <2>6, <4>2, Zenon DEF Takes
      <4>4. /\ Whole(rest, torn') /\ (rest # <<>> => rest[Len(rest)] # "first")
            /\ (n = Len(f) /\ f # <<>> => ~torn')
        BY <4>3, TakeHalves, Zenon
      <4>5. torn' => wq' # <<>>
        BY <1>f, <2>3, <2>7, <4>4, EmptySeq
      <4> QED
        BY <2>7, <3>2, <4>4, <4>5 DEF QueueInv, FramesWhole, EndsWhole, Whole
    <3> QED
      BY <3>3, <3>4
  <2> QED
    BY <2>10, <2>11
<1>3. CASE wq = <<>> /\ WriteFails(h)
  <2>1. io' = [h EXCEPT !.error = TRUE] /\ UNCHANGED <<wq, torn>>
    BY <1>3 DEF WriteFails
  <2>2. /\ io' \in Hio /\ io'.closed = io.closed /\ io'.ready = io.ready
        /\ io'.own = io.own
    BY <2>1 DEF Hio
  <2> QED
    BY <1>3, <1>t, <2>1, <2>2
    DEF QueueInv, SocketTypes, ReadyInv, ChainInv, QueueIsWatched, FramesWhole, EndsWhole
<1> QED
  BY <1>1, <1>2, <1>3 DEF HioWrite

LEMMA FrameWritten == Frame \in Written /\ <<"first", "req">> \in Written
  BY DEF Written

LEMMA ChannelKeeps ==
    ASSUME QueueInv, task = "none",
           \/ ChannelWrite(Frame) /\ task' \in {"none", "close"}
           \/ ChannelClose /\ UNCHANGED torn
    PROVE  QueueInv'
<1>0. io \in Hio /\ task \notin Chain /\ {"none", "close"} \cap Chain = {}
  BY DEF QueueInv, SocketTypes, Freeing, Telling, Chain
<1>1. CASE ChannelWrite(Frame) /\ task' \in {"none", "close"}
  <2>1. CASE IsOpened
    <3>1. HioWrite(io, Frame) /\ task' \notin Chain
      BY <1>0, <1>1, <2>1 DEF ChannelWrite
    <3> QED
      BY <1>0, <3>1, FrameWritten, WriteKeeps
  <2>2. CASE ~IsOpened
    <3>1. UNCHANGED <<io, wq, torn>> /\ task' \notin Chain
      BY <1>0, <1>1, <2>2 DEF ChannelWrite
    <3> QED
      BY <1>0, <3>1, SameQueue
  <2> QED
    BY <2>1, <2>2
<1>2. CASE ChannelClose /\ UNCHANGED torn
  <2>1. CASE IsOpened
    BY <1>0, <1>2, <2>1, CloseKeeps DEF ChannelClose
  <2>2. CASE ~IsOpened
    <3>1. UNCHANGED <<io, wq, torn>> /\ task' \notin Chain
      BY <1>0, <1>2, <2>2 DEF ChannelClose
    <3> QED
      BY <1>0, <3>1, SameQueue
  <2> QED
    BY <2>1, <2>2
<1> QED
  BY <1>1, <1>2

LEMMA ConnectKeeps ==
    ASSUME QueueInv, NEW w \in BOOLEAN, wq # <<>> => w = io.watch,
           OnConnect([io EXCEPT !.watch = w]), task \notin Chain, task' \notin Chain
    PROVE  QueueInv'
<1> DEFINE g == [io EXCEPT !.watch = w]
           h == [g EXCEPT !.phase = "up", !.reading = TRUE, !.timer = g.close]
<1>1. HioWrite(h, <<"first", "req">>)
  BY DEF OnConnect
<1>2. /\ h \in Hio /\ h.closed = io.closed /\ h.watch = w
      /\ h.ready = io.ready /\ h.own = io.own
  BY DEF QueueInv, SocketTypes, Hio
<1> HIDE DEF h
<1> QED
  BY <1>1, <1>2, FrameWritten, WriteKeeps

-----------------------------------------------------------------------------
(* The steps                                                               *)

LEMMA StartKeeps == QueueInv /\ StartConnect => QueueInv'
<1> SUFFICES ASSUME QueueInv, StartConnect PROVE QueueInv'
  OBVIOUS
<1>1. /\ io' \in Hio /\ (io.watch => io'.watch) /\ io'.closed = io.closed
      /\ io'.ready = io.ready /\ io'.own = io.own
      /\ UNCHANGED <<wq, torn>> /\ task = "connect" /\ task' = "none"
  BY DEF StartConnect, QueueInv, SocketTypes, Hio
<1> QED
  BY <1>1 DEF QueueInv, SocketTypes, ReadyInv, ChainInv, QueueIsWatched, FramesWhole,
              EndsWhole, Chain, Telling, Freeing

LEMMA WritableKeeps == QueueInv /\ Writable => QueueInv'
<1> SUFFICES ASSUME QueueInv, Writable PROVE QueueInv'
  OBVIOUS
<1>1. PICK n \in 0..Len(wq) :
          /\ Wire(SubSeq(wq, 1, n))
          /\ wq' = SubSeq(wq, n + 1, Len(wq))
  BY DEF Writable
<1>2. /\ ~io.closed /\ io' = [io EXCEPT !.watch = (wq # <<>>)]
      /\ task = "none" /\ task' \in {"none", "drained"}
  BY DEF Writable, Handle, Idle
<1>3. /\ torn' = IF SubSeq(wq, 1, n) = <<>> THEN torn
                 ELSE SubSeq(wq, 1, n)[Len(SubSeq(wq, 1, n))] = "first"
      /\ torn' \in BOOLEAN
  BY <1>1 DEF Wire, QueueInv, SocketTypes
<1>4. /\ io' \in Hio /\ ~io'.closed /\ (wq # <<>> => io'.watch)
      /\ io'.ready = io.ready /\ io'.own = io.own
  BY <1>2 DEF QueueInv, SocketTypes, Hio
<1>5. wq \in Seq(Halves) /\ torn \in BOOLEAN
  BY DEF QueueInv, SocketTypes
<1>6. /\ wq' \in Seq(Halves) /\ Len(wq') = Len(wq) - n
      /\ \A i \in 1..(Len(wq) - n) : wq'[i] = wq[n + i]
  BY <1>1, <1>5, Rest
<1>7. /\ Len(wq) \in Nat /\ (wq = <<>> <=> Len(wq) = 0)
      /\ (wq' = <<>> <=> Len(wq') = 0)
  BY <1>5, <1>6, EmptySeq, LenProperties
<1>8. (wq = <<>> => wq' = <<>> /\ n = 0) /\ (wq' = <<>> => n = Len(wq))
  BY <1>6, <1>7
<1>9. SocketTypes' /\ ReadyInv' /\ ChainInv' /\ QueueIsWatched'
  BY <1>2, <1>3, <1>4, <1>6, <1>8
  DEF QueueInv, SocketTypes, ReadyInv, ChainInv, QueueIsWatched, Chain, Telling, Freeing
<1>10. CASE ~io.own
  BY <1>4, <1>9, <1>10 DEF QueueInv, FramesWhole, EndsWhole
<1>11. CASE io.own
  <2>1. Whole(wq, torn) /\ (wq # <<>> => wq[Len(wq)] # "first") /\ (torn => wq # <<>>)
    BY <1>2, <1>11 DEF QueueInv, FramesWhole, EndsWhole, Whole
  <2>2. (n = 0 => torn' = torn) /\ (n # 0 => (torn' <=> wq[n] = "first"))
    BY <1>3, <1>5, LastHalf
  <2>3. Takes(wq, torn, n, torn', wq')
    BY <1>3, <1>5, <1>6, <2>1, <2>2, Zenon DEF Takes
  <2>4. /\ Whole(wq', torn') /\ (wq' # <<>> => wq'[Len(wq')] # "first")
        /\ (n = Len(wq) /\ wq # <<>> => ~torn')
    BY <2>3, TakeHalves, Zenon
  <2>5. torn' => wq' # <<>>
    <3> SUFFICES ASSUME torn', wq' = <<>> PROVE FALSE
      OBVIOUS
    <3>1. wq = <<>> /\ n = 0
      BY <1>8, <2>4
    <3> QED
      BY <2>1, <2>2, <3>1
  <2> QED
    BY <1>9, <2>4, <2>5 DEF QueueInv, FramesWhole, EndsWhole, Whole
<1> QED
  BY <1>10, <1>11

\* hio_close after the lock.
LEMMA ChainKeeps ==
    ASSUME QueueInv, HioDone \/ HioDel \/ FreeQueue \/ CloseCb \/ CloseFd
    PROVE  QueueInv'
<1> USE DEF QueueInv, SocketTypes, ReadyInv, ChainInv, QueueIsWatched, FramesWhole, EndsWhole,
            Chain, Telling, Freeing
<1>0. UNCHANGED torn
  BY DEF HioDone, HioDel, FreeQueue, CloseCb, CloseFd, Closing
<1>1. CASE HioDone
  <2>1. /\ task = "hio_done" /\ task' = "hio_del" /\ UNCHANGED wq
        /\ io' = [io EXCEPT !.ready = FALSE]
    BY <1>1 DEF HioDone
  <2>2. io' \in Hio /\ io'.closed /\ ~io'.ready
    BY <2>1 DEF Hio
  <2> QED
    BY <1>0, <2>1, <2>2
<1>2. CASE HioDel
  <2>1. /\ task = "hio_del" /\ task' = "free_queue" /\ UNCHANGED wq
        /\ io' = [io EXCEPT !.watch = FALSE, !.reading = FALSE]
    BY <1>2 DEF HioDel
  <2>2. io' \in Hio /\ io'.closed = io.closed /\ io'.ready = io.ready /\ io'.own = io.own
    BY <2>1 DEF Hio
  <2> QED
    BY <1>0, <2>1, <2>2
<1>3. CASE FreeQueue
  <2>1. /\ task = "free_queue" /\ task' = "close_cb" /\ wq' = <<>> /\ io' = io
    BY <1>3 DEF FreeQueue
  <2>2. io.own /\ ~io.closed => ~torn
    \* A hio of the channel is closed here.
    BY <2>1
  <2> QED
    BY <1>0, <2>1, <2>2, EmptySeq
<1>4. CASE CloseCb
  <2>1. /\ task = "close_cb" /\ task' = "close_fd" /\ UNCHANGED wq
        /\ io' = io \/ \E t \in {FALSE, io.timer} : io' = [io EXCEPT !.timer = t]
    BY <1>4 DEF CloseCb
  <2>2. /\ io' \in Hio /\ io'.closed = io.closed /\ io'.ready = io.ready
        /\ io'.own = io.own /\ io'.watch = io.watch
    BY <2>1 DEF Hio
  <2> QED
    BY <1>0, <2>1, <2>2
<1>5. CASE CloseFd
  <2>1. /\ task = "close_fd" /\ task' = "none" /\ UNCHANGED wq
        /\ io' = [io EXCEPT !.phase = "shut"]
    BY <1>5 DEF CloseFd
  <2>2. /\ io' \in Hio /\ io'.closed = io.closed /\ io'.ready = io.ready
        /\ io'.own = io.own /\ io'.watch = io.watch
    BY <2>1 DEF Hio
  <2> QED
    BY <1>0, <2>1, <2>2
<1> QED
  BY <1>1, <1>2, <1>3, <1>4, <1>5

LEMMA UserKeeps == QueueInv /\ User => QueueInv'
<1> SUFFICES ASSUME QueueInv, User PROVE QueueInv'
  OBVIOUS
<1>1. CASE SendWrite
  <2>1. HioWrite(io, Frame) /\ task' = task
    BY <1>1 DEF SendWrite
  <2>2. io \in Hio
    BY DEF QueueInv, SocketTypes
  <2> QED
    BY <2>1, <2>2, FrameWritten, WriteKeeps
<1>2. CASE \/ OpenFails \/ Open \/ OpenReturns \/ Send \/ Close \/ PostClose
           \/ CloseState \/ Stop \/ StopThread \/ Join
  <2>1. UNCHANGED socket
    BY <1>2 DEF OpenFails, Open, OpenReturns, Send, Close, PostClose, CloseState,
                Stop, StopThread, Join, socket, loopVars, CreateThread, Closesocket,
                PushFunctor, PostFunctor, StopLoop
  <2> QED
    BY <2>1, SameSocket
<1> QED
  BY <1>1, <1>2 DEF User

LEMMA LoopKeeps == QueueInv /\ Loop /\ ~Events => QueueInv'
<1> SUFFICES ASSUME QueueInv, Loop, ~Events PROVE QueueInv'
  OBVIOUS
<1>i. io \in Hio
  BY DEF QueueInv, SocketTypes
<1>f. {"none", "connect", "nio_connect", "close", "hio_close", "drained"} \cap Chain = {}
  BY DEF Freeing, Telling, Chain
<1>1. CASE End \/ Read \/ Feed \/ Text \/ Pong
  <2>1. UNCHANGED socket
    BY <1>1 DEF End, EndLoop, wsVars, Read, Feed, Text, Pong, socket
  <2> QED
    BY <2>1, SameSocket
<1>2. CASE StartConnect
  BY <1>2, StartKeeps
<1>3. CASE NioConnect
  <2>0. task \notin Chain /\ task' \notin Chain
    BY <1>3, <1>f DEF NioConnect
  <2>1. CASE io.closed \/ ~io.own
    BY <1>3, <2>0, <2>1, SameQueue DEF NioConnect
  <2>2. CASE ~(io.closed \/ ~io.own)
    <3>1. OnConnect(io)
      BY <1>3, <2>2 DEF NioConnect
    <3>2. io = [io EXCEPT !.watch = io.watch] /\ io.watch \in BOOLEAN
      BY <1>i DEF Hio
    <3>3. OnConnect([io EXCEPT !.watch = io.watch])
      BY <3>1, <3>2
    <3> QED
      BY <2>0, <3>2, <3>3, ConnectKeeps
  <2> QED
    BY <2>1, <2>2
<1>4. CASE CloseTask
  <2>1. UNCHANGED torn /\ task \notin Chain
    BY <1>4, <1>f DEF CloseTask
  <2>2. CASE ChannelClose
    <3>1. CASE IsOpened
      BY <1>i, <2>1, <2>2, <3>1, CloseKeeps DEF ChannelClose
    <3>2. CASE ~IsOpened
      <4>1. UNCHANGED <<io, wq, torn>> /\ task' \notin Chain
        BY <1>f, <2>1, <2>2, <3>2 DEF ChannelClose
      <4> QED
        BY <2>1, <4>1, SameQueue
    <3> QED
      BY <3>1, <3>2
  <2>3. CASE HioClose(io, FALSE, status)
    BY <1>i, <2>1, <2>3, CloseKeeps
  <2>4. CASE task' = "none" /\ UNCHANGED <<io, wq>>
    <3>1. UNCHANGED <<io, wq, torn>> /\ task' \notin Chain
      BY <1>f, <2>1, <2>4
    <3> QED
      BY <2>1, <3>1, SameQueue
  <2> QED
    BY <1>4, <2>2, <2>3, <2>4 DEF CloseTask
<1>5. CASE ConnectReady
  <2>0. task \notin Chain /\ io.watch
    BY <1>5, <1>f DEF ConnectReady, Handle, Idle
  <2>1. CASE OnConnect([io EXCEPT !.watch = (wq # <<>>)]) /\ UNCHANGED task
    <3>1. (wq # <<>>) \in BOOLEAN /\ (wq # <<>> => (wq # <<>>) = io.watch)
      BY <1>i, <2>0 DEF Hio
    <3> QED
      BY <2>0, <2>1, <3>1, ConnectKeeps
  <2>2. CASE HioClose(io, TRUE, status) /\ UNCHANGED torn
    BY <1>i, <2>0, <2>2, CloseKeeps
  <2> QED
    BY <1>5, <2>1, <2>2 DEF ConnectReady
<1>6. CASE Writable
  BY <1>6, WritableKeeps
<1>7. CASE Broken \/ Timeout \/ ReadEof \/ Leave
  <2>1. /\ UNCHANGED torn /\ (HioClose(io, TRUE, status) \/ HioClose(io, FALSE, status))
        /\ task \notin Chain
    BY <1>7, <1>f DEF Broken, Timeout, ReadEof, Leave, LeaveLoop, Handle, Idle
  <2> QED
    BY <1>i, <2>1, CloseKeeps
<1>8. CASE Upgraded \/ Ping \/ CloseFrame \/ ParseError \/ Heartbeat
  <2>1. /\ task = "none"
        /\ \/ ChannelWrite(Frame) /\ task' \in {"none", "close"}
           \/ ChannelClose /\ UNCHANGED torn
    BY <1>8 DEF Upgraded, Ping, CloseFrame, ParseError, Heartbeat, Parsing, Handle, Idle
  <2> QED
    BY <2>1, ChannelKeeps
<1>9. CASE HioDone \/ HioDel \/ FreeQueue \/ CloseCb \/ CloseFd
  BY <1>9, ChainKeeps
<1>10. CASE Drained
  <2>1. /\ HioClose([io EXCEPT !.close = FALSE], FALSE, status)
        /\ UNCHANGED torn /\ task \notin Chain
    BY <1>10, <1>f DEF Drained, Closing
  <2>2. ASSUME NEW h, h = [io EXCEPT !.close = FALSE]
        PROVE  /\ h \in Hio /\ h.closed = io.closed /\ h.ready = io.ready
               /\ h.own = io.own /\ h.watch = io.watch
    BY <1>i, <2>2 DEF Hio
  <2> QED
    BY <2>1, <2>2, CloseKeeps
<1> QED
  BY <1>1, <1>2, <1>3, <1>4, <1>5, <1>6, <1>7, <1>8, <1>9, <1>10 DEF Loop, Closes

-----------------------------------------------------------------------------
(* The two queues of the loop                                              *)

EventKinds == {"functor", "wakeup", "hio_close", "nio_connect"}
FunctorKinds == {"connect", "close"}

LEMMA CountFinite ==
    ASSUME NEW q \in Seq(EventKinds)
    PROVE  IsFiniteSet(Functors(q)) /\ Cardinality(Functors(q)) \in Nat
<1>1. DOMAIN q = 1..Len(q) /\ Len(q) \in Nat
  BY LenProperties
<1>2. IsFiniteSet(1..Len(q))
  BY <1>1, FS_Interval
<1>3. Functors(q) \in SUBSET (1..Len(q))
  BY <1>1 DEF Functors
<1>4. IsFiniteSet(Functors(q))
  BY <1>2, <1>3, FS_Subset
<1> QED
  BY <1>4, FS_CardinalityType

LEMMA CountAppend ==
    ASSUME NEW q \in Seq(EventKinds), NEW e \in EventKinds
    PROVE  Cardinality(Functors(Append(q, e))) =
               Cardinality(Functors(q)) + IF e = "functor" THEN 1 ELSE 0
<1> DEFINE r == Append(q, e)
           n == Len(q) + 1
<1>1. /\ r \in Seq(EventKinds) /\ Len(r) = n
      /\ r[n] = e /\ \A i \in 1..Len(q) : r[i] = q[i]
  BY AppendProperties
<1>2. DOMAIN r = 1..n /\ DOMAIN q = 1..Len(q) /\ Len(q) \in Nat
  BY <1>1, LenProperties
<1> HIDE DEF r
<1>3. IsFiniteSet(Functors(q)) /\ Cardinality(Functors(q)) \in Nat
  BY CountFinite
<1>4. n \notin Functors(q)
  BY <1>2 DEF Functors
<1>5. CASE e = "functor"
  <2>1. Functors(r) = Functors(q) \cup {n}
    BY <1>1, <1>2, <1>5 DEF Functors
  <2>2. Cardinality(Functors(q) \cup {n}) = Cardinality(Functors(q)) + 1
    BY <1>3, <1>4, FS_AddElement
  <2> QED
    BY <1>5, <2>1, <2>2 DEF r
<1>6. CASE e # "functor"
  <2>1. Functors(r) = Functors(q)
    BY <1>1, <1>2, <1>6 DEF Functors
  <2> QED
    BY <1>3, <1>6, <2>1 DEF r
<1> QED
  BY <1>5, <1>6

LEMMA CountTail ==
    ASSUME NEW q \in Seq(EventKinds), q # <<>>
    PROVE  Cardinality(Functors(q)) =
               Cardinality(Functors(Tail(q))) + IF Head(q) = "functor" THEN 1 ELSE 0
<1> DEFINE r == Tail(q)
<1>1. /\ r \in Seq(EventKinds) /\ Len(r) = Len(q) - 1
      /\ \A i \in 1..Len(r) : r[i] = q[i + 1]
  BY HeadTailProperties
<1>2. /\ DOMAIN r = 1..(Len(q) - 1) /\ DOMAIN q = 1..Len(q)
      /\ Len(q) \in Nat \ {0} /\ Head(q) = q[1]
  BY <1>1, LenProperties, EmptySeq
<1> HIDE DEF r
<1> DEFINE F == Functors(q) \ {1}
           f == [i \in Functors(r) |-> i + 1]
<1>3. /\ IsFiniteSet(Functors(r)) /\ Cardinality(Functors(r)) \in Nat
      /\ IsFiniteSet(Functors(q)) /\ Cardinality(Functors(q)) \in Nat
  BY <1>1, CountFinite
<1>4. \A i \in Functors(r) : i \in Nat /\ i + 1 \in F
  BY <1>1, <1>2 DEF Functors
<1>5. \A j \in F : j - 1 \in Functors(r) /\ (j - 1) + 1 = j
  BY <1>1, <1>2 DEF Functors
<1>6. f \in Bijection(Functors(r), F)
  <2> HIDE DEF F
  <2>1. f \in [Functors(r) -> F] /\ \A i \in Functors(r) : f[i] = i + 1
    BY <1>4
  <2>2. \A i, j \in Functors(r) : f[i] = f[j] => i = j
    BY <1>4, <2>1
  <2>3. \A j \in F : \E i \in Functors(r) : f[i] = j
    BY <1>5, <2>1
  <2> HIDE DEF f
  <2> QED
    BY <2>1, <2>2, <2>3 DEF Bijection, Injection, Surjection, IsInjective
<1>7. Cardinality(F) = Cardinality(Functors(r))
  <2> HIDE DEF f, F
  <2> QED
    BY <1>3, <1>6, FS_Bijection DEF ExistsBijection
<1>8. Cardinality(F) = IF 1 \in Functors(q) THEN Cardinality(Functors(q)) - 1
                       ELSE Cardinality(Functors(q))
  BY <1>3, FS_RemoveElement
<1>9. 1 \in Functors(q) <=> Head(q) = "functor"
  BY <1>2 DEF Functors
<1> QED
  BY <1>3, <1>7, <1>8, <1>9 DEF r

-----------------------------------------------------------------------------
(* What a queue holds                                                      *)

Queued(q, e) == \E i \in DOMAIN q : q[i] = e

\* e is queued once at most; e is queued at the head only.
Single(q, e) == \A i, j \in DOMAIN q : q[i] = e /\ q[j] = e => i = j
AtHead(q, e) == \A i \in DOMAIN q : q[i] = e => i = 1

LEMMA QueuedNone ==
    \A e : ~Queued(<<>>, e) /\ Single(<<>>, e) /\ AtHead(<<>>, e)
  BY DEF Queued, Single, AtHead

LEMMA QueuedAppend ==
    ASSUME NEW S, NEW q \in Seq(S), NEW e \in S
    PROVE  /\ Append(q, e) # <<>>
           /\ Head(Append(q, e)) = IF q = <<>> THEN e ELSE Head(q)
           /\ \A x : Queued(Append(q, e), x) <=> Queued(q, x) \/ x = e
           /\ \A x : Single(q, x) /\ (x = e => ~Queued(q, x)) => Single(Append(q, e), x)
           /\ \A x : AtHead(q, x) /\ (x = e => q = <<>>) => AtHead(Append(q, e), x)
<1> DEFINE r == Append(q, e)
<1>1. /\ r \in Seq(S) /\ Len(r) = Len(q) + 1
      /\ r[Len(q) + 1] = e /\ \A i \in 1..Len(q) : r[i] = q[i]
  BY AppendProperties
<1>2. DOMAIN r = 1..(Len(q) + 1) /\ DOMAIN q = 1..Len(q) /\ Len(q) \in Nat
  BY <1>1, LenProperties
<1> HIDE DEF r
<1>3. r # <<>> /\ (q # <<>> => Len(q) > 0)
  BY <1>1, <1>2, EmptySeq
<1>4. Head(r) = IF q = <<>> THEN e ELSE Head(q)
  <2>1. CASE q = <<>>
    <3>1. Head(r) = r[1] /\ Len(q) = 0
      BY <1>1, <2>1, EmptySeq
    <3> QED
      BY <1>1, <2>1, <3>1
  <2>2. CASE q # <<>>
    <3>1. Head(r) = r[1] /\ Head(q) = q[1] /\ 1 \in 1..Len(q)
      BY <1>1, <1>2, <1>3, <2>2
    <3> QED
      BY <1>1, <2>2, <3>1
  <2> QED
    BY <2>1, <2>2
<1>5. \A x : Queued(r, x) <=> Queued(q, x) \/ x = e
  BY <1>1, <1>2 DEF Queued
<1>6. \A x : Single(q, x) /\ (x = e => ~Queued(q, x)) => Single(r, x)
  BY <1>1, <1>2 DEF Queued, Single
<1>7. \A x : AtHead(q, x) /\ (x = e => q = <<>>) => AtHead(r, x)
  <2>1. q = <<>> => Len(q) = 0
    BY EmptySeq
  <2> QED
    BY <1>1, <1>2, <2>1 DEF AtHead
<1> QED
  BY <1>3, <1>4, <1>5, <1>6, <1>7 DEF r

LEMMA QueuedTail ==
    ASSUME NEW S, NEW q \in Seq(S), q # <<>>
    PROVE  /\ Head(q) \in S
           /\ \A x : Queued(q, x) <=> Queued(Tail(q), x) \/ x = Head(q)
           /\ \A x : Single(q, x) =>
                  Single(Tail(q), x) /\ (x = Head(q) => ~Queued(Tail(q), x))
           /\ \A x : AtHead(q, x) => ~Queued(Tail(q), x) /\ AtHead(Tail(q), x)
<1> DEFINE r == Tail(q)
<1>1. /\ r \in Seq(S) /\ Head(q) \in S /\ Len(r) = Len(q) - 1
      /\ \A i \in 1..Len(r) : r[i] = q[i + 1]
  BY HeadTailProperties
<1>2. /\ DOMAIN r = 1..(Len(q) - 1) /\ DOMAIN q = 1..Len(q)
      /\ Len(q) \in Nat \ {0} /\ Head(q) = q[1]
  BY <1>1, LenProperties, EmptySeq
<1> HIDE DEF r
<1>3. /\ \A i \in DOMAIN r : i + 1 \in DOMAIN q /\ r[i] = q[i + 1] /\ i + 1 # 1
      /\ \A i, j \in DOMAIN r : i + 1 = j + 1 => i = j
  BY <1>1, <1>2
<1>4. \A i \in DOMAIN q : i = 1 \/ (i - 1 \in DOMAIN r /\ r[i - 1] = q[i])
  <2> SUFFICES ASSUME NEW i \in DOMAIN q, i # 1
               PROVE  i - 1 \in DOMAIN r /\ r[i - 1] = q[i]
    OBVIOUS
  <2>1. i - 1 \in 1..Len(r) /\ (i - 1) + 1 = i
    BY <1>1, <1>2
  <2> QED
    BY <1>1, <1>2, <2>1
<1>5. 1 \in DOMAIN q
  BY <1>2
<1>6. \A x : Queued(q, x) <=> Queued(r, x) \/ x = Head(q)
  <2> SUFFICES ASSUME NEW x
               PROVE  Queued(q, x) <=> Queued(r, x) \/ x = Head(q)
    OBVIOUS
  <2>1. ASSUME Queued(q, x) PROVE Queued(r, x) \/ x = q[1]
    <3>1. PICK i \in DOMAIN q : q[i] = x
      BY <2>1 DEF Queued
    <3>2. i = 1 \/ (i - 1 \in DOMAIN r /\ r[i - 1] = x)
      BY <1>4, <3>1
    <3> QED
      BY <3>1, <3>2 DEF Queued
  <2>2. ASSUME Queued(r, x) PROVE Queued(q, x)
    BY <1>3, <2>2 DEF Queued
  <2>3. Queued(q, q[1])
    BY <1>5 DEF Queued
  <2> QED
    BY <1>2, <2>1, <2>2, <2>3
<1>7. \A x : Single(q, x) => Single(r, x) /\ (x = Head(q) => ~Queued(r, x))
  BY <1>2, <1>3, <1>5 DEF Queued, Single
<1>8. \A x : AtHead(q, x) => ~Queued(r, x) /\ AtHead(r, x)
  BY <1>3 DEF Queued, AtHead
<1> QED
  BY <1>1, <1>6, <1>7, <1>8 DEF r

LEMMA QueuedConcat ==
    ASSUME NEW S, NEW q \in Seq(S), NEW r \in Seq(S), NEW x, Queued(q \o r, x)
    PROVE  Queued(q, x) \/ Queued(r, x)
<1>1. /\ q \o r \in Seq(S) /\ Len(q \o r) = Len(q) + Len(r)
      /\ \A i \in 1..(Len(q) + Len(r)) :
             (q \o r)[i] = IF i <= Len(q) THEN q[i] ELSE r[i - Len(q)]
  BY ConcatProperties
<1>2. /\ DOMAIN (q \o r) = 1..(Len(q) + Len(r))
      /\ DOMAIN q = 1..Len(q) /\ DOMAIN r = 1..Len(r)
      /\ Len(q) \in Nat /\ Len(r) \in Nat
  BY <1>1, LenProperties
<1>3. PICK i \in 1..(Len(q) + Len(r)) : (q \o r)[i] = x
  BY <1>2 DEF Queued
<1>4. CASE i <= Len(q)
  BY <1>1, <1>2, <1>3, <1>4 DEF Queued
<1>5. CASE ~(i <= Len(q))
  <2>1. i - Len(q) \in DOMAIN r
    BY <1>2, <1>5
  <2> QED
    BY <1>1, <1>3, <1>5, <2>1 DEF Queued
<1> QED
  BY <1>4, <1>5

\* Neither what is written of q nor what is left of it has anything new.
LEMMA QueuedPart ==
    ASSUME NEW q \in Seq(Halves), NEW n \in 0..Len(q), NEW x
    PROVE  /\ Queued(SubSeq(q, n + 1, Len(q)), x) => Queued(q, x)
           /\ (\E i \in 1..Len(SubSeq(q, 1, n)) : SubSeq(q, 1, n)[i] = x) => Queued(q, x)
<1>1. DOMAIN q = 1..Len(q) /\ Len(q) \in Nat /\ \A i \in 1..Len(q) : q[i] \in Halves
  BY LenProperties
<1>2. Queued(SubSeq(q, n + 1, Len(q)), x) => Queued(q, x)
  <2> DEFINE r == SubSeq(q, n + 1, Len(q))
  <2>1. /\ r \in Seq(Halves) /\ Len(r) = Len(q) - n
        /\ \A i \in 1..(Len(q) - n) : r[i] = q[n + i]
    BY Rest
  <2> HIDE DEF r
  <2>2. DOMAIN r = 1..(Len(q) - n)
    BY <2>1, LenProperties
  <2>3. \A i \in DOMAIN r : n + i \in DOMAIN q /\ r[i] = q[n + i]
    BY <1>1, <2>1, <2>2
  <2>4. Queued(r, x) => Queued(q, x)
    BY <2>3 DEF Queued
  <2> QED
    BY <2>4 DEF r
<1>3. (\E i \in 1..Len(SubSeq(q, 1, n)) : SubSeq(q, 1, n)[i] = x) => Queued(q, x)
  <2> DEFINE s == SubSeq(q, 1, n)
  <2>1. Len(s) = n /\ \A i \in 1..n : s[i] = q[i]
    BY <1>1, SubSeqProperties
  <2> HIDE DEF s
  <2>2. \A i \in 1..Len(s) : i \in DOMAIN q /\ s[i] = q[i]
    BY <1>1, <2>1
  <2>3. (\E i \in 1..Len(s) : s[i] = x) => Queued(q, x)
    BY <2>2 DEF Queued
  <2> QED
    BY <2>3 DEF s
<1> QED
  BY <1>2, <1>3

-----------------------------------------------------------------------------
(* What hio_write and hio_close do to the rest of the client               *)

MayPost == NoPost \/ PostEvent("hio_close")

\* The hio is h but for its watch and its error.
SameHio(h) ==
    /\ io' \in Hio /\ io'.phase = h.phase /\ io'.reading = h.reading
    /\ io'.close = h.close /\ io'.closed = h.closed /\ io'.timer = h.timer
    /\ io'.own = h.own /\ io'.ready = h.ready

\* A write in the middle of a close has made the hio ready again.
Revived(h) ==
    /\ ~h.ready /\ h.phase \in {"connecting", "up"}
    /\ io' \in Hio /\ io'.phase = h.phase /\ ~io'.own /\ ~io'.closed /\ ~io'.reading

\* hio_write: before the connection nothing is queued or sent; the request for
\* the upgrade is sent when it is queued, and with it the server is asked.
Wrote(h, f) ==
    /\ SameHio(h) \/ Revived(h)
    /\ MayPost /\ Len(wq') <= MaxQueue
    /\ wq = <<>> /\ h.phase = "idle" => wq' = <<>> /\ srv' = srv
    /\ srv' = srv \/ (srv = "none" /\ srv' = "asked")
    /\ f = Frame => srv' = srv /\ (Queued(wq', "req") => Queued(wq, "req"))

LEMMA FrameHasNoRequest == ~Queued(Frame, "req") /\ Frame \in Seq(Halves)
<1>1. Frame \in Seq(Halves) /\ Len(Frame) = 2 /\ Frame[1] = "first" /\ Frame[2] = "rest"
  BY DEF Frame, Halves
<1>2. DOMAIN Frame = 1..2
  BY <1>1, LenProperties
<1> QED
  BY <1>1, <1>2 DEF Queued

LEMMA WriteEffect ==
    ASSUME SocketTypes, Len(wq) <= MaxQueue, NEW h \in Hio, h.closed \/ h.ready,
           NEW f \in Written, HioWrite(h, f)
    PROVE  Wrote(h, f)
<1>f. f \in Seq(Halves) /\ Len(f) = 2 /\ f # <<>>
  BY WrittenFrame, EmptySeq
<1>w. wq \in Seq(Halves) /\ Len(wq) \in Nat /\ MaxQueue \in Nat
  BY LenProperties, WsConstants DEF SocketTypes
\* What Enqueue does with a part of the frame.
<1>q. ASSUME NEW g \in Hio, NEW rest \in Seq(Halves), Enqueue(g, rest),
             Queued(rest, "req") => Queued(f, "req")
      PROVE  /\ SameHio(g) /\ MayPost /\ Len(wq') <= MaxQueue
             /\ f = Frame /\ Queued(wq', "req") => Queued(wq, "req")
  <2> DEFINE fits == rest = <<>> \/ Len(wq) + Len(rest) <= MaxQueue
  <2>1. /\ wq' = IF fits THEN wq \o rest ELSE wq
        /\ io' = [g EXCEPT !.error = g.error \/ ~fits]
        /\ IF fits THEN NoPost ELSE PostEvent("hio_close")
    BY <1>q DEF Enqueue
  <2>4. Len(wq') <= MaxQueue
    <3>1. CASE rest = <<>>
      BY <1>w, <2>1, <3>1, ConcatEmptySeq
    <3>2. CASE rest # <<>>
      BY <1>q, <1>w, <2>1, <3>2, ConcatProperties
    <3> QED
      BY <3>1, <3>2
  <2>5. f = Frame /\ Queued(wq', "req") => Queued(wq, "req")
    BY <1>q, <1>w, <2>1, QueuedConcat, FrameHasNoRequest
  <2> HIDE DEF fits
  <2>3. SameHio(g)
    BY <2>1 DEF SameHio, Hio
  <2> QED
    BY <2>1, <2>3, <2>4, <2>5 DEF MayPost
<1>1. CASE /\ wq # <<>>
           /\ Enqueue(h, f)
           /\ UNCHANGED <<torn, srv>>
  BY <1>1, <1>f, <1>q DEF Wrote
<1>2. CASE wq = <<>> /\ TryWrite(h, f)
  <2>1. PICK n \in 0..Len(f) :
           /\ Accepts(h, f, n)
           /\ Wire(SubSeq(f, 1, n))
           /\ Enqueue(IF n < Len(f) THEN HioAdd(h) ELSE h, SubSeq(f, n + 1, Len(f)))
    BY <1>2 DEF TryWrite
  <2> DEFINE g == IF n < Len(f) THEN HioAdd(h) ELSE h
             rest == SubSeq(f, n + 1, Len(f))
  <2>2. /\ g \in Hio /\ g.phase = h.phase
        /\ \/ /\ g.reading = h.reading /\ g.close = h.close /\ g.closed = h.closed
              /\ g.timer = h.timer /\ g.own = h.own /\ g.ready = h.ready
           \/ ~h.ready /\ ~g.own /\ ~g.closed /\ ~g.reading
    BY AddEffect
  <2>3. rest \in Seq(Halves) /\ (Queued(rest, "req") => Queued(f, "req"))
    BY <1>f, Rest, QueuedPart
  <2>4. Enqueue(g, rest)
    BY <2>1
  <2> HIDE DEF g, rest
  <2>5. /\ SameHio(g) /\ MayPost /\ Len(wq') <= MaxQueue
        /\ f = Frame /\ Queued(wq', "req") => Queued(wq, "req")
    BY <1>q, <2>2, <2>3, <2>4
  <2>6. h.phase \in {"connecting", "up"}
    BY <2>1 DEF Accepts
  <2>7. SameHio(h) \/ Revived(h)
    BY <2>2, <2>5, <2>6 DEF SameHio, Revived
  <2>8. /\ srv' = srv \/ (srv = "none" /\ srv' = "asked")
        /\ srv' = srv \/ \E i \in 1..Len(SubSeq(f, 1, n)) : SubSeq(f, 1, n)[i] = "req"
    BY <2>1 DEF Wire
  <2>9. f = Frame => srv' = srv
    BY <1>f, <2>8, QueuedPart, FrameHasNoRequest
  <2> QED
    BY <2>5, <2>6, <2>7, <2>8, <2>9 DEF Wrote
<1>3. CASE wq = <<>> /\ WriteFails(h)
  <2>1. io' = [h EXCEPT !.error = TRUE] /\ PostEvent("hio_close") /\ UNCHANGED <<wq, srv>>
    BY <1>3 DEF WriteFails
  <2>2. SameHio(h)
    BY <2>1 DEF SameHio, Hio
  <2> QED
    BY <2>1, <2>2 DEF Wrote, MayPost
<1> QED
  BY <1>1, <1>2, <1>3 DEF HioWrite

\* hio_close: the close waits, with something queued, or there is nothing to
\* close; or the hio is closed and the loop thread goes on with it.
ClosesTo(h, st) ==
    /\ io' \in Hio /\ io'.phase = h.phase /\ io'.reading = h.reading /\ io'.own = h.own
    /\ \/ /\ io'.closed = h.closed /\ task' = "none"
          /\ io'.close \/ io'.closed
          /\ h.close => h.closed
       \/ ~h.closed /\ io'.closed /\ task' = "hio_done"
    /\ status' = st /\ UNCHANGED <<wq, hb, state, told>>

LEMMA CloseEffect ==
    ASSUME NEW h \in Hio, NEW err \in BOOLEAN, NEW st, HioClose(h, err, st)
    PROVE  ClosesTo(h, st)
<1>0. status' = st /\ UNCHANGED <<wq, hb, state, told>>
  BY DEF HioClose
<1>1. CASE h.closed \/ MustDrain(h, err)
  <2>1. /\ io' = [h EXCEPT !.close = h.close \/ ~h.closed, !.timer = h.timer \/ ~h.closed]
        /\ task' = "none"
    BY <1>1 DEF HioClose
  <2>2. /\ io' \in Hio /\ io'.phase = h.phase /\ io'.reading = h.reading
        /\ io'.closed = h.closed /\ io'.close = (h.close \/ ~h.closed)
        /\ io'.own = h.own
    BY <2>1 DEF Hio
  <2>3. h.close => h.closed
    BY <1>1 DEF MustDrain
  <2> QED
    BY <1>0, <2>1, <2>2, <2>3 DEF ClosesTo
<1>2. CASE ~(h.closed \/ MustDrain(h, err))
  <2>1. /\ io' = [h EXCEPT !.error = h.error \/ err, !.closed = TRUE]
        /\ task' = "hio_done"
    BY <1>2 DEF HioClose
  <2>2. /\ io' \in Hio /\ io'.phase = h.phase /\ io'.reading = h.reading
        /\ io'.closed /\ ~h.closed /\ io'.own = h.own
    BY <1>2, <2>1 DEF Hio
  <2> QED
    BY <1>0, <2>1, <2>2 DEF ClosesTo
<1> QED
  BY <1>1, <1>2

-----------------------------------------------------------------------------
(* Where the two threads are                                               *)

\* The user thread is between its push and its post.
Posting == {"close_post", "stop_post"}

PlaceInv ==
    /\ pushed <=> upc \in Posting
    /\ upc = "new" => lpc = "none" /\ status = "none"
    /\ upc \notin {"new", "gone"} => lpc # "none" /\ status # "none"
    /\ lpc = "start" => upc = "opening"
    /\ lpc = "leaving" => upc = "join"
    /\ lpc = "ended" => upc \in {"join", "gone"}
    /\ lpc = "run" /\ hl = "stop" => upc = "join"
    /\ lpc = "run" => upc # "gone"
    /\ task # "none" => lpc = "run" \/ (lpc = "leaving" /\ task \in Chain)

-----------------------------------------------------------------------------
(* startConnect comes first, and the connection is made once               *)

\* startConnect has not run yet.
Fresh == lpc \in {"none", "start"} \/ Queued(customEvents, "connect") \/ task = "connect"

\* Its functor and its event are the first of their queues.
FirstInv ==
    /\ lpc \in {"none", "start"} => customEvents = <<>> /\ custom_events = <<>>
    /\ AtHead(customEvents, "connect")
    /\ task = "connect" => ~Queued(customEvents, "connect")
    /\ Queued(customEvents, "connect") /\ lpc = "run" =>
           task = "none" /\ custom_events # <<>> /\ Head(custom_events) = "functor"

\* hloop_run has not returned.
Looping == lpc \notin {"leaving", "ended"}

FreshInv ==
    /\ Fresh /\ Looping =>
           /\ wq = <<>> /\ hb = FALSE /\ told = "none" /\ status \in {"none", "OPENED"}
           /\ io.phase = "idle" /\ ~io.close /\ ~io.closed /\ io.own /\ ~io.timer
    /\ ~Fresh => status \notin {"none", "OPENED"} /\ io.phase # "idle"

\* hio_connect's event is on its way.
NioPending == task = "nio_connect" \/ Queued(custom_events, "nio_connect")

ConnectInv ==
    /\ Single(custom_events, "nio_connect")
    /\ task = "nio_connect" => ~Queued(custom_events, "nio_connect")
    /\ NioPending => io.phase \in {"up", "shut"}
    /\ NioPending \/ io.phase \notin {"up", "shut"} =>
           srv = "none" /\ ~Queued(wq, "req") /\ ~io.reading
    /\ srv \in {"asked", "open"} \/ Queued(wq, "req") => state # "CONNECTING"

-----------------------------------------------------------------------------
(* The hio while it is closed                                              *)

\* Once it is closed, or made ready again by a write in the middle of that, the
\* loop thread carries the close out; that write was the user's last, and nothing
\* more is read.
ShutInv ==
    /\ (io.closed \/ ~io.own) /\ task \notin Chain => io.phase = "shut"
    /\ ~io.own => upc # "sending" /\ ~io.reading

\* onclose comes with the close, and once.
ToldInv ==
    /\ told = "close" /\ io.own => io.closed /\ task \notin Telling
    /\ io.closed /\ io.own /\ task \notin Telling /\ ~Fresh => told = "close"

-----------------------------------------------------------------------------
(* What was read and what the user was told                                *)

Chunks ==
    {<<>>, <<"101">>}
    \cup {<<f>> : f \in Frames} \cup {<<"feed", f>> : f \in Frames}
    \cup {<<"101", "feed", f>> : f \in Frames}
    \cup {<<f, g>> : f \in Frames \ {"close", "bad"}, g \in Frames}

TellInv ==
    /\ chunk \in Chunks
    /\ chunk # <<>> => ~io.closed /\ io.own /\ task = "none" /\ lpc = "run"
    /\ srv \in {"none", "asked"} => told \in {"none", "close"} /\ chunk = <<>>
    /\ chunk # <<>> /\ Head(chunk) = "101" => told = "none"
    /\ chunk # <<>> /\ Head(chunk) \notin {"101", "bad"} => told \in {"open", "message"}
    /\ srv = "open" /\ told = "none" =>
           state = "CLOSED" \/ (chunk # <<>> /\ Head(chunk) = "101")

-----------------------------------------------------------------------------
(* A close that was asked for                                              *)

\* The hio is closed, will be, or is no longer the channel's.
GivenUp == io.close \/ io.closed \/ ~io.own

CloseAsked == GivenUp \/ Queued(customEvents, "close") \/ task = "close"

EndInv ==
    /\ status = "CLOSED" => GivenUp
    /\ upc \in {"stop_post", "stop_loop", "join"} => CloseAsked
    /\ ~Looping => io.closed \/ ~io.own \/ customEvents # <<>>

-----------------------------------------------------------------------------
(* The loop's accounts                                                     *)

\* What EventsAccounted counts: sums of natural numbers.
Counts ==
    /\ customEvents \in Seq({"connect", "close"}) /\ custom_events \in Seq(EventKinds)
    /\ eventfd \in Nat /\ batch \in Nat /\ pushed \in BOOLEAN
    /\ EventsAccounted

LEMMA PostCounts ==
    ASSUME Counts, NEW e \in EventKinds \ {"functor"}, NoPost \/ PostEvent(e),
           UNCHANGED <<customEvents, batch, pushed, lpc>>
    PROVE  Counts'
<1>1. CASE NoPost
  BY <1>1 DEF NoPost, Counts, EventsAccounted
<1>2. CASE PostEvent(e)
  <2>1. /\ custom_events' \in Seq(EventKinds)
        /\ Len(custom_events') = Len(custom_events) + 1
        /\ Cardinality(Functors(custom_events')) = Cardinality(Functors(custom_events))
    BY <1>2, AppendProperties, CountAppend, CountFinite DEF PostEvent, Counts
  <2>2. Len(custom_events) \in Nat
    BY LenProperties DEF Counts
  <2> QED
    BY <1>2, <2>1, <2>2 DEF PostEvent, Counts, EventsAccounted
<1> QED
  BY <1>1, <1>2

\* A functor is pushed, and its event posted.
LEMMA FunctorCounts ==
    ASSUME Counts, NEW f \in {"connect", "close"},
           \/ /\ customEvents' = Append(customEvents, f)
              /\ ~pushed /\ pushed' = TRUE /\ UNCHANGED <<custom_events, eventfd>>
           \/ /\ customEvents' = customEvents
              /\ pushed /\ pushed' = FALSE /\ PostEvent("functor")
           \/ /\ customEvents' = Append(customEvents, f)
              /\ UNCHANGED pushed /\ PostEvent("functor"),
           UNCHANGED batch, Looping' => Looping
    PROVE  Counts'
<1>1. /\ Append(customEvents, f) \in Seq({"connect", "close"})
      /\ Len(Append(customEvents, f)) = Len(customEvents) + 1
      /\ Len(customEvents) \in Nat /\ Len(custom_events) \in Nat
  BY AppendProperties, LenProperties DEF Counts
<1>2. /\ Append(custom_events, "functor") \in Seq(EventKinds)
      /\ Len(Append(custom_events, "functor")) = Len(custom_events) + 1
  BY AppendProperties DEF Counts, EventKinds
<1>3. /\ Cardinality(Functors(custom_events)) \in Nat
      /\ Cardinality(Functors(Append(custom_events, "functor"))) =
             Cardinality(Functors(custom_events)) + 1
  BY CountAppend, CountFinite DEF Counts, EventKinds
<1>4. pushed' \in BOOLEAN
  BY Zenon DEF Counts
<1> DEFINE owed == IF pushed THEN 1 ELSE 0
<1>5. /\ customEvents \in Seq({"connect", "close"}) /\ custom_events \in Seq(EventKinds)
      /\ eventfd \in Nat /\ batch' \in Nat
      /\ Looping' => /\ Len(custom_events) = eventfd + batch'
                          /\ Len(customEvents) =
                                 Cardinality(Functors(custom_events)) + owed
  BY DEF Counts, EventsAccounted, Looping
<1>6. CASE /\ customEvents' = Append(customEvents, f)
           /\ ~pushed /\ pushed' = TRUE /\ UNCHANGED <<custom_events, eventfd>>
  <2>1. owed = 0 /\ owed' = 1
    BY <1>6
  <2> HIDE DEF owed
  <2>2. Looping' => /\ Len(custom_events') = eventfd' + batch'
                         /\ Len(customEvents') =
                                Cardinality(Functors(custom_events')) + owed'
    BY <1>1, <1>3, <1>5, <1>6, <2>1
  <2> QED
    BY <1>1, <1>4, <1>5, <1>6, <2>2 DEF Counts, EventsAccounted, Looping, owed
<1>7. CASE /\ customEvents' = customEvents
           /\ pushed /\ pushed' = FALSE /\ PostEvent("functor")
  <2>1. owed = 1 /\ owed' = 0
    BY <1>7
  <2> HIDE DEF owed
  <2>2. Looping' => /\ Len(custom_events') = eventfd' + batch'
                         /\ Len(customEvents') =
                                Cardinality(Functors(custom_events')) + owed'
    <3>1. /\ Len(custom_events') = Len(custom_events) + 1 /\ eventfd' = eventfd + 1
          /\ Len(customEvents') = Len(customEvents)
          /\ Cardinality(Functors(custom_events')) =
                 Cardinality(Functors(custom_events)) + 1
      BY <1>2, <1>3, <1>7 DEF PostEvent
    <3> QED
      BY <1>1, <1>3, <1>5, <2>1, <3>1
  <2>3. /\ customEvents' \in Seq({"connect", "close"}) /\ custom_events' \in Seq(EventKinds)
        /\ eventfd' \in Nat /\ batch' \in Nat
    BY <1>2, <1>5, <1>7 DEF PostEvent
  <2>4. EventsAccounted'
    BY <2>2 DEF EventsAccounted, Looping, owed
  <2> QED
    BY <1>4, <2>3, <2>4 DEF Counts
<1>8. CASE /\ customEvents' = Append(customEvents, f)
           /\ UNCHANGED pushed /\ PostEvent("functor")
  <2>1. owed' = owed /\ owed \in Nat
    BY <1>8
  <2> HIDE DEF owed
  <2>2. Looping' => /\ Len(custom_events') = eventfd' + batch'
                         /\ Len(customEvents') =
                                Cardinality(Functors(custom_events')) + owed'
    <3>1. /\ Len(customEvents') = Len(customEvents) + 1
          /\ Len(custom_events') = Len(custom_events) + 1 /\ eventfd' = eventfd + 1
          /\ Cardinality(Functors(custom_events')) =
                 Cardinality(Functors(custom_events)) + 1
      BY <1>1, <1>2, <1>3, <1>8 DEF PostEvent
    <3> QED
      BY ONLY <1>1, <1>3, <1>5, <2>1, <3>1 DEF Looping
  <2> QED
    BY <1>1, <1>2, <1>4, <1>5, <1>8, <2>2 DEF Counts, EventsAccounted, Looping, owed, PostEvent
<1> QED
  BY <1>6, <1>7, <1>8

LEMMA PollCounts == Counts /\ Poll => Counts'
<1> SUFFICES ASSUME Counts, Poll PROVE Counts'
  OBVIOUS
<1> QED
  BY DEF Counts, EventsAccounted, Poll

\* Every functor's event finds its functor.
LEMMA TakeCounts ==
    ASSUME Counts, TakeEvent
    PROVE  /\ Counts'
           /\ batch' \in Nat
           /\ custom_events # <<>>
           /\ custom_events' = Tail(custom_events)
           /\ Head(custom_events) = "functor" =>
                  /\ customEvents # <<>>
                  /\ task' = Head(customEvents) /\ customEvents' = Tail(customEvents)
           /\ Head(custom_events) = "wakeup" => UNCHANGED <<task, customEvents>>
           /\ Head(custom_events) \notin {"functor", "wakeup"} =>
                  task' = Head(custom_events) /\ UNCHANGED customEvents
<1>1. /\ Len(custom_events) = eventfd + batch /\ batch \in Nat /\ batch > 0
      /\ eventfd \in Nat /\ lpc = "run" /\ UNCHANGED <<eventfd, pushed, lpc>>
      /\ Len(customEvents) =
             Cardinality(Functors(custom_events)) + (IF pushed THEN 1 ELSE 0)
  BY DEF Counts, EventsAccounted, TakeEvent, Idle
<1>2. custom_events # <<>>
  BY <1>1, EmptySeq
<1>3. batch' = batch - 1 /\ custom_events' = Tail(custom_events)
  BY <1>2 DEF TakeEvent
<1>4. /\ custom_events' \in Seq(EventKinds) /\ Len(custom_events') = Len(custom_events) - 1
      /\ Cardinality(Functors(custom_events')) \in Nat
      /\ Cardinality(Functors(custom_events)) =
             Cardinality(Functors(custom_events'))
             + IF Head(custom_events) = "functor" THEN 1 ELSE 0
  BY <1>2, <1>3, HeadTailProperties, CountTail, CountFinite DEF Counts
<1>5. CASE Head(custom_events) = "functor"
  <2>1. Len(customEvents) >= 1
    BY <1>1, <1>4, <1>5
  <2>2. customEvents # <<>>
    BY <2>1, EmptySeq
  <2>3. task' = Head(customEvents) /\ customEvents' = Tail(customEvents)
    BY <1>2, <1>5 DEF TakeEvent
  <2>4. /\ customEvents' \in Seq({"connect", "close"})
        /\ Len(customEvents') = Len(customEvents) - 1
    BY <2>2, <2>3, HeadTailProperties DEF Counts
  <2>5. Counts'
    BY <1>1, <1>3, <1>4, <1>5, <2>1, <2>4 DEF Counts, EventsAccounted
  <2> QED
    BY <1>1, <1>2, <1>3, <1>5, <2>2, <2>3, <2>5
<1>6. CASE Head(custom_events) # "functor"
  <2>1. /\ UNCHANGED customEvents
        /\ task' = IF Head(custom_events) = "wakeup" THEN task ELSE Head(custom_events)
    BY <1>2, <1>6 DEF TakeEvent
  <2>2. Counts'
    BY <1>1, <1>3, <1>4, <1>6, <2>1 DEF Counts, EventsAccounted
  <2> QED
    BY <1>1, <1>2, <1>3, <1>6, <2>1, <2>2
<1> QED
  BY <1>5, <1>6

-----------------------------------------------------------------------------
(* The inductive invariant of the client                                   *)

LoopInv == LoopTypeOK /\ EventsAccounted /\ PlaceInv

DataTypes ==
    /\ upc \in {"new", "opening", "using", "sending", "close_post", "close_state",
                "closed", "stop_post", "stop_loop", "join", "gone"}
    /\ sends \in 0..MaxSend
    /\ state \in {"CLOSED", "CONNECTING", "UPGRADING", "OPENED"}
    /\ status \in {"none", "OPENED", "CONNECTING", "CONNECTED", "CLOSED"}
    /\ Len(wq) <= MaxQueue
    /\ hb \in BOOLEAN
    /\ ping_cnt \in 0..(PingLimit + 1)
    /\ srv \in {"none", "asked", "open", "done"}
    /\ told \in {"none", "open", "message", "close"}

ClientInv ==
    /\ QueueInv /\ LoopInv /\ DataTypes /\ FirstInv /\ FreshInv
    /\ ConnectInv /\ ShutInv /\ ToldInv /\ TellInv /\ EndInv

LEMMA LoopCounts == LoopInv => Counts
  BY DEF LoopInv, LoopTypeOK, Counts, EventKinds

LEMMA QueueTypes ==
    ASSUME ClientInv
    PROVE  customEvents \in Seq(FunctorKinds) /\ custom_events \in Seq(EventKinds)
  BY DEF ClientInv, LoopInv, LoopTypeOK, EventKinds, FunctorKinds

\* A write of the user thread, of a channel and of on_connect, and a channel's
\* close, in those terms.
LEMMA SendEffect ==
    ASSUME QueueInv, DataTypes, SendWrite
    PROVE  Wrote(io, Frame)
<1>1. SocketTypes /\ io \in Hio /\ Len(wq) <= MaxQueue /\ (io.closed \/ io.ready)
  BY DEF QueueInv, SocketTypes, DataTypes, ReadyInv
<1> QED
  BY <1>1, FrameWritten, WriteEffect DEF SendWrite

ChannelWrote ==
    /\ SameHio(io) /\ MayPost /\ Len(wq') <= MaxQueue
    /\ srv' = srv /\ (Queued(wq', "req") => Queued(wq, "req"))

LEMMA FrameEffect ==
    ASSUME QueueInv, DataTypes, ChannelWrite(Frame)
    PROVE  ChannelWrote
<1>1. SocketTypes /\ io \in Hio /\ Len(wq) <= MaxQueue
  BY DEF QueueInv, SocketTypes, DataTypes
<1>2. CASE IsOpened
  <2>1. Wrote(io, Frame) /\ io.ready
    BY <1>1, <1>2, FrameWritten, WriteEffect DEF ChannelWrite, IsOpened
  <2> QED
    BY <2>1 DEF Wrote, Revived, ChannelWrote
<1>3. CASE ~IsOpened
  BY <1>1, <1>3 DEF ChannelWrite, ChannelWrote, SameHio, MayPost
<1> QED
  BY <1>2, <1>3

LEMMA ConnectEffect ==
    ASSUME QueueInv, DataTypes, NEW w \in BOOLEAN, OnConnect([io EXCEPT !.watch = w]),
           ~io.closed
    PROVE  /\ io' \in Hio /\ io'.phase = "up" /\ io'.reading = TRUE
           /\ io'.close = io.close /\ io'.closed = io.closed /\ io'.own = io.own
           /\ MayPost /\ Len(wq') <= MaxQueue
           /\ srv' = srv \/ (srv = "none" /\ srv' = "asked")
           /\ status' = "CONNECTED" /\ state' = "UPGRADING" /\ UNCHANGED <<hb, told>>
<1> DEFINE g == [io EXCEPT !.watch = w]
           h == [g EXCEPT !.phase = "up", !.reading = TRUE, !.timer = g.close]
<1>1. HioWrite(h, <<"first", "req">>)
  BY DEF OnConnect
<1>2. /\ h \in Hio /\ h.phase = "up" /\ h.reading = TRUE
      /\ h.close = io.close /\ h.closed = io.closed /\ h.own = io.own
      /\ h.ready = io.ready
  BY DEF QueueInv, SocketTypes, Hio
<1>3. h.ready
  BY <1>2 DEF QueueInv, ReadyInv
<1> HIDE DEF h
<1>4. Wrote(h, <<"first", "req">>)
  BY <1>1, <1>2, <1>3, FrameWritten, WriteEffect DEF QueueInv, DataTypes
<1> QED
  BY <1>2, <1>3, <1>4 DEF Wrote, SameHio, Revived, OnConnect

\* A channel that is not open has a closed hio, or none.
NothingToClose ==
    /\ task' = "none" /\ UNCHANGED <<io, wq, hb, status, state, told>>
    /\ status = "CLOSED" \/ io.closed \/ ~io.own

LEMMA ChannelCloseEffect ==
    ASSUME QueueInv, ChannelClose, status # "none", DataTypes
    PROVE  ClosesTo(io, "CLOSED") \/ NothingToClose
<1>0. io \in Hio /\ (io.closed \/ io.ready)
  BY DEF QueueInv, SocketTypes, ReadyInv
<1>1. CASE IsOpened
  BY <1>0, <1>1, CloseEffect DEF ChannelClose
<1>2. CASE ~IsOpened
  BY <1>0, <1>2 DEF ChannelClose, IsOpened, DataTypes, NothingToClose
<1> QED
  BY <1>1, <1>2

-----------------------------------------------------------------------------
(* What the steps of the loop thread have in common                        *)

\* The thread goes on, and the user thread does not move.
Runs == lpc = "run" /\ Quiet /\ UNCHANGED <<upc, sends>> /\ turn' \subseteq turn

\* Nothing is left to parse, and nothing is told.
Parsed ==
    /\ chunk' = <<>> /\ (chunk = <<>> \/ Head(chunk) = "bad")
    /\ ping_cnt' \in 0..(PingLimit + 1)

\* hio_close, from whatever asks for it.
Shuts ==
    /\ io' \in Hio /\ io'.phase = io.phase /\ io'.reading = io.reading /\ io'.own = io.own
    /\ \/ io'.closed = io.closed /\ task' = "none"
       \/ ~io.closed /\ io'.closed /\ task' = "hio_done"
    /\ io'.close \/ io'.closed
    /\ io.close /\ task = "none" => io'.closed
    /\ task \notin Chain \cup {"connect"} /\ Parsed
    /\ status' \in {status, "CLOSED"} /\ UNCHANGED <<wq, hb, state, told>>
    /\ srv' = srv \/ (io.reading /\ srv' = "done")

\* A callback that finds nothing to do.
Idles ==
    /\ task \notin Chain \cup {"connect"} /\ task' = "none" /\ Parsed
    /\ UNCHANGED <<io, wq, hb, state, status, told, srv>>
    /\ task = "close" => status = "CLOSED" \/ io.closed \/ ~io.own

\* on_connect.
Connects ==
    /\ ~io.closed /\ io.own /\ task' = "none" /\ chunk = <<>>
    /\ task = "nio_connect" \/ (task = "none" /\ io.phase = "connecting")
    /\ io' \in Hio /\ io'.phase = "up" /\ io'.close = io.close
    /\ io'.closed = io.closed /\ io'.own = io.own
    /\ Len(wq') <= MaxQueue
    /\ srv' = srv \/ (srv = "none" /\ srv' = "asked")
    /\ status' = "CONNECTED" /\ state' = "UPGRADING"
    /\ UNCHANGED <<hb, told, ping_cnt, chunk>>

\* A message is parsed, or a ping is sent.
Parses ==
    /\ ChannelWrote /\ UNCHANGED status
    /\ hb' \in BOOLEAN /\ ping_cnt' \in 0..(PingLimit + 1)
    /\ task = "none"
    /\ \/ chunk = <<>> /\ hb /\ UNCHANGED <<task, chunk, told, state>>
       \/ /\ chunk # <<>> /\ chunk' \in {Tail(chunk), <<>>} /\ Head(chunk) # "bad"
          /\ task' = task \/ (task' = "close" /\ Head(chunk) = "close")
          /\ \/ Head(chunk) = "101" /\ told' = "open" /\ state' = "OPENED"
             \/ Head(chunk) # "101" /\ told' \in {told, "message"} /\ UNCHANGED state

ChainStep == HioDone \/ HioDel \/ FreeQueue \/ CloseCb \/ CloseFd

\* The last message of a read is the one that closes.
LEMMA ChunkShape ==
    ASSUME NEW c \in Chunks, c # <<>>
    PROVE  /\ Tail(c) \in Chunks
           /\ Head(c) \in {"close", "bad"} => Tail(c) = <<>>
           /\ Tail(c) # <<>> => Head(Tail(c)) # "101"
<1>1. CASE c = <<"101">>
  BY <1>1 DEF Chunks
<1>2. ASSUME NEW f \in Frames, c = <<f>>
      PROVE  Tail(c) = <<>>
  BY <1>2
<1>3. ASSUME NEW f \in Frames, c = <<"feed", f>>
      PROVE  Head(c) = "feed" /\ Tail(c) = <<f>> /\ Head(<<f>>) = f
  BY <1>3
<1>4. ASSUME NEW f \in Frames, c = <<"101", "feed", f>>
      PROVE  Head(c) = "101" /\ Tail(c) = <<"feed", f>> /\ Head(<<"feed", f>>) = "feed"
  BY <1>4
<1>5. ASSUME NEW f \in Frames \ {"close", "bad"}, NEW g \in Frames, c = <<f, g>>
      PROVE  Head(c) = f /\ Tail(c) = <<g>> /\ Head(<<g>>) = g
  BY <1>5
<1>6. \A f \in Frames : <<f>> \in Chunks /\ <<"feed", f>> \in Chunks /\ f # "101"
  BY DEF Chunks, Frames
<1>7. <<>> \in Chunks
  BY DEF Chunks
<1> QED
  BY <1>1, <1>2, <1>3, <1>4, <1>5, <1>6, <1>7 DEF Chunks

\* In a step of the loop thread the loop runs, or is being left, and there is a
\* channel.
LEMMA LoopRuns ==
    ASSUME ClientInv, Loop, ~Events
    PROVE  /\ status # "none" /\ upc \notin {"new", "gone"}
           /\ ChainStep => lpc \in {"run", "leaving"} /\ Quiet /\ UNCHANGED <<upc, sends>>
           /\ ~ChainStep /\ ~End => lpc = "run"
           /\ End => lpc = "leaving" /\ task = "none"
<1> USE DEF ClientInv, LoopInv, PlaceInv
<1>1. CASE StartConnect \/ NioConnect \/ CloseTask \/ Drained
  <2>1. lpc = "run"
    BY <1>1 DEF StartConnect, NioConnect, CloseTask, Drained, Chain, Telling, Freeing
  <2> QED
    BY <1>1, <2>1 DEF StartConnect, NioConnect, CloseTask, Drained, ChainStep, End, EndLoop,
                HioDone, HioDel, FreeQueue, CloseCb, CloseFd
<1>2. CASE ConnectReady \/ Writable \/ Broken \/ Timeout \/ ReadEof \/ Read \/ Heartbeat
  <2>1. lpc = "run" /\ task = "none"
    BY <1>2 DEF ConnectReady, Writable, Broken, Timeout, ReadEof, Read, Heartbeat,
                Handle, Idle
  <2> QED
    BY <2>1 DEF ChainStep, End, EndLoop, HioDone, HioDel, FreeQueue, CloseCb, CloseFd
<1>3. CASE Upgraded \/ Feed \/ Text \/ Ping \/ Pong \/ CloseFrame \/ ParseError \/ Leave
  <2>1. lpc = "run" /\ task = "none"
    BY <1>3 DEF Upgraded, Feed, Text, Ping, Pong, CloseFrame, ParseError, Parsing, Idle,
                Leave, LeaveLoop
  <2> QED
    BY <2>1 DEF ChainStep, End, EndLoop, HioDone, HioDel, FreeQueue, CloseCb, CloseFd
<1>4. CASE ChainStep
  <2>1. task # "none" /\ Quiet /\ UNCHANGED <<upc, sends>>
    BY <1>4 DEF ChainStep, HioDone, HioDel, FreeQueue, CloseCb, CloseFd, Closing
  <2> QED
    BY <1>4, <2>1 DEF End, EndLoop
<1>5. CASE End
  <2>1. lpc = "leaving" /\ task = "none"
    BY <1>5 DEF End, EndLoop
  <2> QED
    BY <1>5, <2>1 DEF ChainStep, HioDone, HioDel, FreeQueue, CloseCb, CloseFd
<1> QED
  BY <1>1, <1>2, <1>3, <1>4, <1>5 DEF Loop, Closes, ChainStep

LEMMA HioCloseShuts ==
    ASSUME ClientInv, NEW h \in Hio, NEW err \in BOOLEAN, HioClose(h, err, status),
           h = io \/ (h = [io EXCEPT !.close = FALSE] /\ task = "drained"),
           task \in {"none", "close", "hio_close", "drained"}, Parsed,
           srv' = srv \/ (io.reading /\ srv' = "done")
    PROVE  Shuts
<1>1. ClosesTo(h, status)
  BY CloseEffect
<1>2. /\ h.phase = io.phase /\ h.reading = io.reading /\ h.own = io.own
      /\ h.closed = io.closed /\ (task = "none" => h.close = io.close)
  BY DEF ClientInv, QueueInv, SocketTypes, Hio
<1>3. task \notin Chain \cup {"connect"}
  BY DEF Chain, Telling, Freeing
<1> QED
  BY <1>1, <1>2, <1>3 DEF ClosesTo, Shuts

LEMMA ChannelCloseShuts ==
    ASSUME ClientInv, status # "none", ChannelClose, task \in {"none", "close"}, Parsed,
           UNCHANGED srv
    PROVE  Shuts \/ Idles
<1>0. QueueInv /\ DataTypes
  BY DEF ClientInv
<1>3. task \notin Chain \cup {"connect"}
  BY DEF Chain, Telling, Freeing
<1>1. CASE ClosesTo(io, "CLOSED")
  BY <1>1, <1>3 DEF ClosesTo, Shuts
<1>2. CASE NothingToClose
  BY <1>2, <1>3 DEF NothingToClose, Idles
<1> QED
  BY <1>0, <1>1, <1>2, ChannelCloseEffect

\* Every step of the loop thread that is not an event of the loop.
LEMMA LoopCases ==
    ASSUME ClientInv, Loop, ~Events
    PROVE  \/ Runs /\ NoPost /\ (Shuts \/ Idles)
           \/ Leave /\ Shuts
           \/ Runs /\ MayPost /\ (Connects \/ Parses)
           \/ StartConnect \/ Writable \/ Read \/ ChainStep \/ End
<1>0. /\ QueueInv /\ DataTypes /\ TellInv /\ ShutInv /\ io \in Hio /\ status # "none"
      /\ PingLimit \in Nat
  BY LoopRuns, WsConstants DEF ClientInv, QueueInv, SocketTypes
<1>r. ~ChainStep /\ ~End => lpc = "run"
  BY LoopRuns
<1>p. ASSUME chunk = <<>>, UNCHANGED <<chunk, ping_cnt>> PROVE Parsed
  BY <1>0, <1>p DEF Parsed, DataTypes
<1>c. ASSUME NEW w \in BOOLEAN, OnConnect([io EXCEPT !.watch = w]), ~io.closed, io.own,
             task' = "none", UNCHANGED <<chunk, ping_cnt>>, chunk = <<>>,
             task = "nio_connect" \/ (task = "none" /\ io.phase = "connecting")
      PROVE  MayPost /\ Connects
  BY <1>0, <1>c, ConnectEffect DEF Connects
<1>1. CASE StartConnect \/ Writable \/ Read \/ ChainStep \/ End
  BY <1>1
<1>2. CASE NioConnect /\ ~ChainStep /\ ~End
  <2>1. /\ Runs /\ task = "nio_connect" /\ task' = "none" /\ chunk = <<>>
        /\ UNCHANGED <<chunk, ping_cnt>>
    BY <1>0, <1>2, <1>r DEF NioConnect, Runs, TellInv
  <2>2. CASE io.closed \/ ~io.own
    <3>1. NoPost /\ UNCHANGED <<io, wq, hb, state, status, told, srv>>
      BY <1>2, <2>2 DEF NioConnect
    <3>2. Idles
      BY <1>p, <2>1, <3>1 DEF Idles, Chain, Telling, Freeing
    <3> QED
      BY <2>1, <3>1, <3>2
  <2>3. CASE ~(io.closed \/ ~io.own)
    <3>1. [io EXCEPT !.watch = io.watch] = io /\ io.watch \in BOOLEAN
      BY <1>0 DEF Hio
    <3>2. OnConnect([io EXCEPT !.watch = io.watch])
      BY <1>2, <2>3, <3>1 DEF NioConnect
    <3> QED
      BY <1>c, <2>1, <2>3, <3>1, <3>2
  <2> QED
    BY <2>2, <2>3
<1>3. CASE CloseTask /\ ~ChainStep /\ ~End
  <2>1. /\ Runs /\ NoPost /\ task \in {"close", "hio_close"} /\ chunk = <<>>
        /\ UNCHANGED <<chunk, ping_cnt, srv>>
    BY <1>0, <1>3, <1>r DEF CloseTask, Runs, TellInv
  <2>2. Parsed
    BY <1>p, <2>1
  <2>3. CASE task = "close" /\ ChannelClose
    BY <1>0, <2>1, <2>2, <2>3, ChannelCloseShuts
  <2>4. CASE HioClose(io, FALSE, status)
    BY <1>0, <2>1, <2>2, <2>4, HioCloseShuts
  <2>5. CASE /\ task = "hio_close" /\ task' = "none"
             /\ UNCHANGED <<io, wq, hb, status, state, told>>
    BY <2>1, <2>2, <2>5 DEF Idles, Chain, Telling, Freeing
  <2> QED
    BY <1>3, <2>1, <2>3, <2>4, <2>5 DEF CloseTask
<1>4. CASE ConnectReady /\ ~ChainStep /\ ~End
  <2>1. /\ Runs /\ task = "none" /\ chunk = <<>> /\ ~io.closed /\ io.phase = "connecting"
        /\ UNCHANGED <<chunk, ping_cnt>>
    BY <1>4, <1>r DEF ConnectReady, Handle, Idle, Runs
  <2>2. io.own
    BY <1>0, <2>1 DEF ShutInv, Chain, Telling, Freeing
  <2>3. CASE OnConnect([io EXCEPT !.watch = (wq # <<>>)]) /\ UNCHANGED task
    BY <1>c, <2>1, <2>2, <2>3
  <2>4. CASE HioClose(io, TRUE, status) /\ NoPost /\ UNCHANGED srv
    BY <1>0, <1>p, <2>1, <2>4, HioCloseShuts
  <2> QED
    BY <1>4, <2>3, <2>4 DEF ConnectReady
<1>5. CASE (Broken \/ Timeout \/ ReadEof) /\ ~ChainStep /\ ~End
  <2>1. /\ Runs /\ NoPost /\ task = "none" /\ chunk = <<>>
        /\ UNCHANGED <<chunk, ping_cnt>>
        /\ HioClose(io, TRUE, status) \/ HioClose(io, FALSE, status)
        /\ srv' = srv \/ (io.reading /\ srv' = "done")
    BY <1>5, <1>r DEF Broken, Timeout, ReadEof, Handle, Idle, Runs
  <2> QED
    BY <1>0, <1>p, <2>1, HioCloseShuts
<1>6. CASE Leave
  <2>1. /\ task = "none" /\ chunk = <<>> /\ UNCHANGED <<chunk, ping_cnt, srv>>
        /\ HioClose(io, FALSE, status)
    BY <1>6 DEF Leave, LeaveLoop, Idle
  <2> QED
    BY <1>0, <1>6, <1>p, <2>1, HioCloseShuts
<1>7. CASE Drained /\ ~ChainStep /\ ~End
  <2>1. /\ Runs /\ NoPost /\ task = "drained" /\ chunk = <<>>
        /\ UNCHANGED <<chunk, ping_cnt, srv>>
        /\ HioClose([io EXCEPT !.close = FALSE], FALSE, status)
    BY <1>0, <1>7, <1>r DEF Drained, Closing, Runs, TellInv
  <2>2. [io EXCEPT !.close = FALSE] \in Hio
    BY <1>0 DEF Hio
  <2>3. Parsed
    BY <1>p, <2>1
  <2> QED
    BY <2>1, <2>2, <2>3, HioCloseShuts
<1>8. CASE ParseError /\ ~ChainStep /\ ~End
  <2>1. /\ Runs /\ NoPost /\ task = "none" /\ chunk # <<>> /\ Head(chunk) = "bad"
        /\ chunk' = Tail(chunk) /\ ChannelClose /\ UNCHANGED <<ping_cnt, srv>>
    BY <1>8, <1>r DEF ParseError, Parsing, Idle, Runs
  <2>2. chunk' = <<>>
    BY <1>0, <2>1, ChunkShape DEF TellInv
  <2>3. Parsed
    BY <1>0, <2>1, <2>2 DEF Parsed, DataTypes
  <2> QED
    BY <1>0, <2>1, <2>3, ChannelCloseShuts
<1>9. CASE Heartbeat /\ ~ChainStep /\ ~End
  <2>1. /\ Runs /\ task = "none" /\ chunk = <<>> /\ UNCHANGED chunk /\ hb
        /\ ping_cnt' \in 0..(PingLimit + 1)
    BY <1>0, <1>9, <1>r DEF Heartbeat, Handle, Idle, Runs, DataTypes
  <2>2. CASE ChannelClose /\ NoPost /\ UNCHANGED srv
    <3>1. Parsed
      BY <2>1 DEF Parsed
    <3> QED
      BY <1>0, <2>1, <2>2, <3>1, ChannelCloseShuts
  <2>3. CASE ChannelWrite(Frame) /\ UNCHANGED <<task, hb, status, state, told>>
    <3>1. ChannelWrote /\ MayPost
      BY <1>0, <2>3, FrameEffect DEF ChannelWrote
    <3>2. hb' \in BOOLEAN
      BY <1>0, <2>3, Zenon DEF DataTypes
    <3> QED
      BY <2>1, <2>3, <3>1, <3>2 DEF Parses
  <2> QED
    BY <1>9, <2>2, <2>3 DEF Heartbeat
<1>10. CASE (Upgraded \/ Ping \/ CloseFrame) /\ ~ChainStep /\ ~End
  <2>1. /\ Runs /\ task = "none" /\ chunk # <<>> /\ chunk' = Tail(chunk)
        /\ UNCHANGED status /\ Head(chunk) # "bad"
    BY <1>10, <1>r DEF Upgraded, Ping, CloseFrame, Parsing, Idle, Runs
  <2>2. ChannelWrote /\ MayPost
    BY <1>0, <1>10, FrameEffect DEF Upgraded, Ping, CloseFrame, ChannelWrote
  <2>3. CASE Upgraded
    <3>1. hb' \in BOOLEAN /\ ping_cnt' \in 0..(PingLimit + 1)
      BY <1>0, <2>3 DEF Upgraded
    <3> QED
      BY <2>1, <2>2, <2>3, <3>1 DEF Parses, Upgraded, Parsing
  <2>4. CASE Ping \/ CloseFrame
    <3>1. hb' \in BOOLEAN /\ ping_cnt' \in 0..(PingLimit + 1)
      <4>1. UNCHANGED <<hb, ping_cnt>>
        BY <2>4 DEF Ping, CloseFrame
      <4> QED
        BY <1>0, <4>1, Zenon DEF DataTypes
    <3> QED
      BY <2>1, <2>2, <2>4, <3>1 DEF Parses, Ping, CloseFrame, Parsing
  <2> QED
    BY <1>10, <2>3, <2>4
<1>11. CASE (Feed \/ Text \/ Pong) /\ ~ChainStep /\ ~End
  <2>1. /\ Runs /\ NoPost /\ task = "none" /\ chunk # <<>> /\ chunk' \in {Tail(chunk), <<>>}
        /\ Head(chunk) \notin {"bad", "101"} /\ UNCHANGED <<task, io, wq, srv, status, state>>
        /\ told' \in {told, "message"} /\ hb' = hb /\ ping_cnt' \in {ping_cnt, 0}
    BY <1>11, <1>r DEF Feed, Text, Pong, Parsing, Idle, Runs
  <2>2. ChannelWrote /\ MayPost
    BY <1>0, <2>1 DEF ChannelWrote, SameHio, MayPost, DataTypes
  <2>3. hb' \in BOOLEAN
    BY <1>0, <2>1, Zenon DEF DataTypes
  <2>4. ping_cnt' \in 0..(PingLimit + 1)
    BY <1>0, <2>1 DEF DataTypes
  <2> QED
    BY <2>1, <2>2, <2>3, <2>4 DEF Parses
<1> QED
  BY <1>1, <1>2, <1>3, <1>4, <1>5, <1>6, <1>7, <1>8, <1>9, <1>10, <1>11
  DEF Loop, Closes, ChainStep

\* startConnect.
Starts ==
    /\ Runs /\ task = "connect" /\ task' = "none" /\ chunk = <<>>
    /\ status' = "CONNECTING"
    /\ io' \in Hio /\ io'.reading = io.reading /\ io'.close = io.close
    /\ io'.closed = io.closed /\ io'.own = io.own
    /\ \/ io'.phase = "up" /\ PostEvent("nio_connect")
       \/ io'.phase \in {"refused", "connecting"} /\ MayPost
    /\ UNCHANGED <<state, wq, torn, hb, ping_cnt, chunk, srv, told>>

\* nio_write.
Drains ==
    /\ Runs /\ NoPost /\ SameHio(io) /\ chunk = <<>>
    /\ task = "none" /\ (task' = "none" \/ (task' = "drained" /\ io.close))
    /\ io.phase = "up" /\ ~io.closed /\ Len(wq') <= MaxQueue
    /\ \A x : Queued(wq', x) => Queued(wq, x)
    /\ srv' = srv \/ (srv = "none" /\ srv' = "asked" /\ Queued(wq, "req"))
    /\ UNCHANGED <<hb, status, state, told, ping_cnt, chunk>>

\* hio_close after the lock.
Unwinds ==
    /\ lpc \in {"run", "leaving"} /\ NoPost /\ Quiet /\ UNCHANGED <<turn, upc, sends>>
    /\ UNCHANGED <<ping_cnt, chunk, srv>> /\ chunk = <<>>
    /\ io.closed \/ ~io.own
    /\ io' \in Hio /\ io'.own = io.own /\ io'.close = io.close /\ io'.closed = io.closed
    /\ \/ /\ task \in {"hio_done", "hio_del"} /\ task' \in Freeing
          /\ io'.phase = io.phase /\ (io'.reading => io.reading)
          /\ UNCHANGED <<state, status, wq, hb, told>>
       \/ /\ task = "free_queue" /\ task' = "close_cb" /\ wq' = <<>>
          /\ io'.phase = io.phase /\ io'.reading = io.reading
          /\ UNCHANGED <<state, status, hb, told>>
       \/ /\ task = "close_cb" /\ task' = "close_fd"
          /\ io'.phase = io.phase /\ io'.reading = io.reading /\ UNCHANGED wq
          /\ \/ io.own /\ status' = "CLOSED" /\ hb' = FALSE
                /\ IF io.phase = "idle" THEN UNCHANGED <<state, told>>
                                        ELSE state' = "CLOSED" /\ told' = "close"
             \/ ~io.own /\ UNCHANGED <<hb, status, state, told>>
       \/ /\ task = "close_fd" /\ task' = "none"
          /\ io'.phase = "shut" /\ io'.reading = io.reading
          /\ UNCHANGED <<state, status, wq, hb, told>>

LEMMA StartCase == ClientInv /\ StartConnect => Starts
<1> SUFFICES ASSUME ClientInv, StartConnect PROVE Starts
  OBVIOUS
<1>1. io \in Hio /\ task = "connect" /\ task' = "none" /\ status' = "CONNECTING"
  BY DEF ClientInv, QueueInv, SocketTypes, StartConnect
<1>2. chunk = <<>>
  BY <1>1 DEF ClientInv, TellInv
<1>3. lpc = "run"
  BY <1>1 DEF ClientInv, LoopInv, PlaceInv, Chain, Telling, Freeing
<1>4. Runs /\ UNCHANGED <<state, wq, torn, hb, ping_cnt, chunk, srv, told>>
  BY <1>3 DEF Runs, StartConnect
<1>5. \/ io' = [io EXCEPT !.phase = "refused", !.error = TRUE] /\ MayPost
      \/ io' = [io EXCEPT !.phase = "up"] /\ PostEvent("nio_connect")
      \/ io' = [io EXCEPT !.phase = "connecting", !.watch = TRUE, !.timer = TRUE] /\ MayPost
  BY DEF StartConnect, MayPost
<1>6. /\ io' \in Hio /\ io'.reading = io.reading /\ io'.close = io.close
      /\ io'.closed = io.closed /\ io'.own = io.own
      /\ \/ io'.phase = "up" /\ PostEvent("nio_connect")
         \/ io'.phase \in {"refused", "connecting"} /\ MayPost
  BY <1>1, <1>5 DEF Hio
<1> QED
  BY <1>1, <1>2, <1>4, <1>6 DEF Starts

LEMMA WritableCase == ClientInv /\ Writable => Drains
<1> SUFFICES ASSUME ClientInv, Writable PROVE Drains
  OBVIOUS
<1>0. /\ DataTypes /\ wq \in Seq(Halves) /\ io \in Hio /\ MaxQueue \in Nat
  BY WsConstants DEF ClientInv, QueueInv, SocketTypes
<1>1. PICK n \in 0..Len(wq) :
          /\ Wire(SubSeq(wq, 1, n))
          /\ wq' = SubSeq(wq, n + 1, Len(wq))
          /\ task' = IF n = Len(wq) /\ io.close THEN "drained" ELSE "none"
  BY DEF Writable
<1>2. /\ lpc = "run" /\ task = "none" /\ chunk = <<>> /\ ~io.closed /\ io.phase = "up"
      /\ UNCHANGED <<hb, status, state, told, ping_cnt, chunk>> /\ NoPost /\ Runs
  BY DEF Writable, Handle, Idle, Runs
<1>3. SameHio(io)
  <2>1. io' = [io EXCEPT !.watch = (wq # <<>>)]
    BY DEF Writable
  <2> QED
    BY <1>0, <2>1 DEF SameHio, Hio
<1>4. Len(wq') <= MaxQueue
  <2>1. Len(wq') = Len(wq) - n /\ Len(wq) \in Nat
    BY <1>0, <1>1, Rest, LenProperties
  <2> QED
    BY <1>0, <2>1 DEF DataTypes
<1>5. \A x : Queued(wq', x) => Queued(wq, x)
  BY <1>0, <1>1, QueuedPart
<1>6. srv' = srv \/ (srv = "none" /\ srv' = "asked" /\ Queued(wq, "req"))
  BY <1>0, <1>1, QueuedPart DEF Wire
<1>7. task' = "none" \/ (task' = "drained" /\ io.close)
  BY <1>1
<1> QED
  BY <1>2, <1>3, <1>4, <1>5, <1>6, <1>7 DEF Drains

LEMMA ChainCase ==
    ASSUME ClientInv, Loop, ~Events, ChainStep
    PROVE  Unwinds
<1>1. io \in Hio /\ lpc \in {"run", "leaving"} /\ Quiet /\ UNCHANGED <<upc, sends>>
  BY LoopRuns DEF ClientInv, QueueInv, SocketTypes
<1>2. NoPost /\ UNCHANGED <<turn, ping_cnt, chunk, srv>> /\ task \in Chain
  BY DEF ChainStep, HioDone, HioDel, FreeQueue, CloseCb, CloseFd, Closing, Chain, Telling, Freeing
<1>3. chunk = <<>> /\ (io.closed \/ ~io.own)
  BY <1>2 DEF ClientInv, TellInv, QueueInv, ChainInv, Chain, Telling, Freeing
<1>4. CASE HioDone
  <2>1. /\ io' \in Hio /\ io'.own = io.own /\ io'.close = io.close /\ io'.closed = io.closed
        /\ io'.phase = io.phase /\ io'.reading = io.reading
    BY <1>1, <1>4 DEF HioDone, Hio
  <2> QED
    BY <1>1, <1>2, <1>3, <1>4, <2>1 DEF Unwinds, HioDone, Freeing
<1>5. CASE HioDel
  <2>1. /\ io' \in Hio /\ io'.own = io.own /\ io'.close = io.close /\ io'.closed = io.closed
        /\ io'.phase = io.phase /\ ~io'.reading
    BY <1>1, <1>5 DEF HioDel, Hio
  <2> QED
    BY <1>1, <1>2, <1>3, <1>5, <2>1 DEF Unwinds, HioDel, Freeing
<1>6. CASE FreeQueue
  BY <1>1, <1>2, <1>3, <1>6 DEF Unwinds, FreeQueue
<1>7. CASE CloseCb
  <2>1. CASE io.own
    <3>1. /\ io' \in Hio /\ io'.own = io.own /\ io'.close = io.close /\ io'.closed = io.closed
          /\ io'.phase = io.phase /\ io'.reading = io.reading
      BY <1>1, <1>7, <2>1 DEF CloseCb, Hio
    <3> QED
      BY <1>1, <1>2, <1>3, <1>7, <2>1, <3>1 DEF Unwinds, CloseCb
  <2>2. CASE ~io.own
    BY <1>1, <1>2, <1>3, <1>7, <2>2 DEF Unwinds, CloseCb
  <2> QED
    BY <2>1, <2>2
<1>8. CASE CloseFd
  <2>1. /\ io' \in Hio /\ io'.own = io.own /\ io'.close = io.close /\ io'.closed = io.closed
        /\ io'.phase = "shut" /\ io'.reading = io.reading
    BY <1>1, <1>8 DEF CloseFd, Hio
  <2> QED
    BY <1>1, <1>2, <1>3, <1>8, <2>1 DEF Unwinds, CloseFd
<1> QED
  BY <1>4, <1>5, <1>6, <1>7, <1>8 DEF ChainStep

\* The steps of the loop thread, by what they do.
LEMMA LoopSteps ==
    ASSUME ClientInv, Loop, ~Events
    PROVE  \/ Runs /\ NoPost /\ (Shuts \/ Idles)
           \/ Leave /\ Shuts
           \/ Runs /\ MayPost /\ (Connects \/ Parses)
           \/ Starts \/ Drains \/ Read \/ Unwinds \/ End
  BY LoopCases, StartCase, WritableCase, ChainCase

-----------------------------------------------------------------------------
(* Each step keeps the loop's accounts                                     *)

\* A step of either thread that is not an event of the loop.
Steps ==
    /\ upc # "new" /\ status' # "none"
    /\ NoPost \/ \E e \in {"hio_close", "nio_connect"} : PostEvent(e)
    /\ Quiet /\ turn' \subseteq turn
    /\ \/ task' \in {task, "none"}
       \/ lpc = "run" /\ task' \in {"close", "drained", "hio_done"}
       \/ task \in Chain /\ task' \in Chain
    /\ upc' = upc \/ (upc = "sending" /\ upc' = "using")

LEMMA StepsLoop == LoopInv /\ Steps => LoopInv'
<1> SUFFICES ASSUME LoopInv, Steps PROVE LoopInv'
  OBVIOUS
<1>1. Counts'
  BY LoopCounts, PostCounts, "hio_close" \in EventKinds \ {"functor"},
     "nio_connect" \in EventKinds \ {"functor"} DEF Steps, Quiet, EventKinds
<1>2. LoopTypeOK'
  BY <1>1 DEF LoopInv, LoopTypeOK, Steps, Quiet, Counts, EventKinds, Chain, Telling, Freeing
<1>3. PlaceInv'
  BY DEF LoopInv, PlaceInv, Posting, Steps, Quiet, Chain, Telling, Freeing
<1> QED
  BY <1>1, <1>2, <1>3 DEF LoopInv, Counts

\* Outside its first and its last step the user thread has a running loop.
LEMMA UserLoop == ClientInv /\ User => LoopInv'
<1> SUFFICES ASSUME ClientInv, User PROVE LoopInv'
  OBVIOUS
<1> USE DEF ClientInv, PlaceInv, LoopInv, Posting
<1>0. Counts
  BY LoopCounts
<1>1. CASE OpenFails \/ OpenReturns \/ Send \/ CloseState \/ Join
  <2>1. UNCHANGED loopVars /\ upc \notin Posting /\ upc' \notin Posting
    BY <1>1 DEF OpenFails, OpenReturns, Send, CloseState, Join
  <2>2. LoopTypeOK' /\ EventsAccounted'
    BY <2>1 DEF loopVars, LoopTypeOK, EventsAccounted
  <2>3. PlaceInv'
    BY <1>1, <2>1 DEF loopVars, OpenFails, OpenReturns, Send, CloseState, Join
  <2> QED
    BY <2>2, <2>3
<1>2. CASE Open
  <2>1. /\ UNCHANGED <<customEvents, custom_events, eventfd, batch, pushed, turn, task, hl>>
        /\ lpc = "none" /\ lpc' = "start" /\ upc = "new" /\ upc' = "opening"
        /\ status' = "OPENED"
    BY <1>2 DEF Open, CreateThread
  <2>2. LoopTypeOK' /\ EventsAccounted'
    BY <2>1 DEF LoopTypeOK, EventsAccounted
  <2> QED
    BY <2>1, <2>2
<1>3. CASE SendWrite
  <2>1. Wrote(io, Frame)
    BY <1>3, SendEffect
  <2>2. Steps
    BY <1>3, <2>1 DEF SendWrite, Steps, Wrote, MayPost
  <2> QED
    BY <2>2, StepsLoop
<1>4. CASE Close \/ Stop
  <2>1. /\ upc \in {"using", "closed"} /\ UNCHANGED status
        /\ \/ PushFunctor("close") /\ upc' \in Posting
           \/ UNCHANGED loopVars /\ upc' \in {"close_state", "stop_loop"}
    BY <1>4 DEF Close, Stop, Closesocket
  <2>2. CASE PushFunctor("close") /\ upc' \in Posting
    <3>1. ~pushed
      BY <2>1
    <3>2. Counts'
      BY <1>0, <2>2, <3>1, FunctorCounts DEF PushFunctor, Looping
    <3>3. LoopTypeOK' /\ EventsAccounted'
      BY <2>2, <3>2 DEF PushFunctor, LoopTypeOK, Counts, EventKinds
    <3>4. PlaceInv'
      BY <2>1, <2>2 DEF PushFunctor
    <3> QED
      BY <3>3, <3>4
  <2>3. CASE UNCHANGED loopVars /\ upc' \in {"close_state", "stop_loop"}
    <3>1. LoopTypeOK' /\ EventsAccounted'
      BY <2>3 DEF loopVars, LoopTypeOK, EventsAccounted
    <3>2. PlaceInv'
      BY <2>1, <2>3 DEF loopVars
    <3> QED
      BY <3>1, <3>2
  <2> QED
    BY <2>1, <2>2, <2>3
<1>5. CASE PostClose
  <2>1. /\ upc \in Posting /\ upc' \in {"close_state", "stop_loop"}
        /\ PostFunctor /\ UNCHANGED status
    BY <1>5 DEF PostClose
  <2>2. pushed
    BY <2>1
  <2>3. Counts'
    BY <1>0, <2>1, <2>2, FunctorCounts DEF PostFunctor, Looping
  <2>4. LoopTypeOK' /\ EventsAccounted'
    BY <2>1, <2>3 DEF PostFunctor, LoopTypeOK, Counts, EventKinds
  <2>5. PlaceInv'
    BY <2>1 DEF PostFunctor
  <2> QED
    BY <2>4, <2>5
<1>6. CASE StopThread
  <2>1. StopLoop /\ upc = "stop_loop" /\ upc' = "join" /\ UNCHANGED status
    BY <1>6 DEF StopThread
  <2>2. Counts'
    BY <1>0, <2>1, PostCounts, "wakeup" \in EventKinds \ {"functor"}
    DEF StopLoop, EventKinds
  <2>3. LoopTypeOK' /\ EventsAccounted'
    BY <2>1, <2>2 DEF StopLoop, LoopTypeOK, Counts, EventKinds
  <2>4. PlaceInv'
    BY <2>1 DEF StopLoop
  <2> QED
    BY <2>3, <2>4
<1> QED
  BY <1>1, <1>2, <1>3, <1>4, <1>5, <1>6 DEF User

\* An event is taken.
TakenTasks == {"none", "connect", "close", "hio_close", "nio_connect"}

LEMMA TakeTask ==
    ASSUME ClientInv, TakeEvent
    PROVE  task = "none" /\ task' \in TakenTasks /\ lpc = "run"
<1>0. Counts
  BY LoopCounts DEF ClientInv
<1>1. /\ custom_events # <<>>
      /\ Head(custom_events) = "functor" =>
             customEvents # <<>> /\ task' = Head(customEvents)
      /\ Head(custom_events) = "wakeup" => UNCHANGED task
      /\ Head(custom_events) \notin {"functor", "wakeup"} =>
             task' = Head(custom_events)
  BY <1>0, TakeCounts
<1>2. /\ Head(custom_events) \in EventKinds
      /\ customEvents # <<>> => Head(customEvents) \in {"connect", "close"}
  BY <1>0, <1>1, HeadTailProperties DEF Counts
<1> QED
  BY <1>1, <1>2 DEF TakeEvent, Idle, EventKinds, TakenTasks

LEMMA EventsLoop == ClientInv /\ Events => LoopInv'
<1> SUFFICES ASSUME ClientInv, Events PROVE LoopInv'
  OBVIOUS
<1> USE DEF ClientInv, PlaceInv, LoopInv, Posting
<1>0. Counts /\ UNCHANGED <<upc, status>>
  BY LoopCounts DEF Events, wsVars
<1>1. CASE LoopThread
  <2>1. Counts'
    BY <1>0, <1>1, FunctorCounts DEF LoopThread, Looping
  <2>2. LoopTypeOK' /\ EventsAccounted'
    BY <1>1, <2>1 DEF LoopThread, LoopTypeOK, Counts, EventKinds
  <2>3. PlaceInv'
    BY <1>0, <1>1 DEF LoopThread
  <2> QED
    BY <2>2, <2>3
<1>2. CASE Poll
  <2>1. Counts'
    BY <1>0, <1>2, PollCounts
  <2>2. LoopTypeOK' /\ EventsAccounted'
    BY <1>2, <2>1 DEF Poll, LoopTypeOK, Counts, EventKinds
  <2>3. PlaceInv'
    BY <1>0, <1>2 DEF Poll
  <2> QED
    BY <2>2, <2>3
<1>3. CASE TakeEvent
  <2>1. Counts'
    BY <1>0, <1>3, TakeCounts
  <2>3. /\ task' \in TakenTasks
        /\ lpc = "run" /\ UNCHANGED <<pushed, turn, hl, lpc>>
    BY <1>3, TakeTask DEF TakeEvent
  <2>4. LoopTypeOK' /\ EventsAccounted'
    BY <2>1, <2>3 DEF LoopTypeOK, Counts, EventKinds, TakenTasks
  <2>5. PlaceInv'
    BY <1>0, <2>3
  <2> QED
    BY <2>4, <2>5
<1> QED
  BY <1>1, <1>2, <1>3 DEF Events

LEMMA LeaveLoopKeeps ==
    ASSUME ClientInv, Leave, Shuts
    PROVE  LoopInv'
<1> USE DEF ClientInv, LoopInv, PlaceInv, Posting
<1>1. /\ lpc = "run" /\ lpc' = "leaving" /\ hl = "stop" /\ task = "none"
      /\ custom_events' = <<>> /\ eventfd' = 0 /\ turn' = {}
      /\ UNCHANGED <<customEvents, batch, pushed, hl, upc>>
  BY DEF Leave, LeaveLoop, Idle
<1>2. status' # "none" /\ task' \in {"none", "hio_done"}
  BY <1>1 DEF Shuts
<1>3. LoopTypeOK' /\ EventsAccounted'
  BY <1>1, <1>2, EmptySeq DEF LoopTypeOK, EventsAccounted
<1> QED
  BY <1>1, <1>2, <1>3 DEF Chain, Telling, Freeing

LEMMA LoopIsSteps ==
    ASSUME ClientInv, Loop, ~Events, ~Leave, ~End
    PROVE  Steps
<1>0. status # "none" /\ upc # "new"
  BY LoopRuns
<1>1. CASE Runs /\ NoPost /\ (Shuts \/ Idles)
  BY <1>0, <1>1 DEF Runs, Shuts, Idles, Steps
<1>2. CASE Runs /\ MayPost /\ (Connects \/ Parses)
  BY <1>0, <1>2 DEF Runs, Connects, Parses, Steps, MayPost
<1>3. CASE Starts \/ Drains
  BY <1>0, <1>3 DEF Starts, Drains, Runs, Steps, MayPost
<1>4. CASE Read
  BY <1>0, <1>4 DEF Read, Handle, Steps
<1>5. CASE Unwinds
  BY <1>0, <1>5 DEF Unwinds, Steps, Chain, Telling, Freeing
<1> QED
  BY <1>1, <1>2, <1>3, <1>4, <1>5, LoopSteps

LEMMA LoopLoop == ClientInv /\ Loop => LoopInv'
<1> SUFFICES ASSUME ClientInv, Loop PROVE LoopInv'
  OBVIOUS
<1>0. LoopInv
  BY DEF ClientInv
<1>1. CASE Events
  BY <1>1, EventsLoop
<1>2. CASE Leave
  <2>1. HioClose(io, FALSE, status) /\ task = "none" /\ chunk = <<>>
        /\ UNCHANGED <<chunk, ping_cnt, srv>>
    BY <1>2 DEF Leave, LeaveLoop, Idle
  <2>2. io \in Hio /\ Parsed
    BY <2>1 DEF Parsed, ClientInv, QueueInv, SocketTypes, DataTypes
  <2> QED
    BY <1>2, <2>1, <2>2, HioCloseShuts, LeaveLoopKeeps
<1>3. CASE End
  <2>1. /\ lpc = "leaving" /\ task = "none" /\ lpc' = "ended" /\ UNCHANGED <<upc, status>>
        /\ UNCHANGED <<customEvents, custom_events, eventfd, batch, pushed, turn, task, hl>>
    BY <1>3 DEF End, EndLoop, wsVars
  <2> QED
    BY <1>0, <2>1 DEF LoopInv, LoopTypeOK, EventsAccounted, PlaceInv, Posting
<1>4. CASE ~Events /\ ~Leave /\ ~End
  BY <1>0, <1>4, LoopIsSteps, StepsLoop
<1> QED
  BY <1>1, <1>2, <1>3, <1>4

\* An event enters a callback, never hio_close's.
LEMMA EventsQueue == ClientInv /\ Events => QueueInv'
<1> SUFFICES ASSUME ClientInv, Events PROVE QueueInv'
  OBVIOUS
<1>0. QueueInv /\ UNCHANGED <<io, wq, torn>>
  BY DEF ClientInv, Events, wsVars
<1>1. CASE LoopThread \/ Poll
  BY <1>0, <1>1, SameSocket DEF LoopThread, Poll, socket
<1>2. CASE TakeEvent
  BY <1>0, <1>2, TakeTask, SameQueue DEF TakenTasks, Chain, Telling, Freeing
<1> QED
  BY <1>1, <1>2 DEF Events

-----------------------------------------------------------------------------
(* Each step keeps startConnect the first callback of the loop             *)

\* Before startConnect nothing was read or written.
LEMMA FreshFacts ==
    ASSUME ClientInv, Fresh, Looping
    PROVE  /\ chunk = <<>> /\ ~io.reading /\ io.phase = "idle" /\ ~io.timer /\ hb = FALSE
           /\ task \in {"none", "connect"} /\ srv = "none"
<1>1. io.phase = "idle" /\ ~io.timer /\ hb = FALSE
  BY DEF ClientInv, FreshInv
<1>2. srv = "none" /\ ~io.reading
  BY <1>1 DEF ClientInv, ConnectInv
<1>3. chunk = <<>>
  BY <1>2 DEF ClientInv, TellInv
<1>4. task \in {"none", "connect"}
  BY DEF ClientInv, FirstInv, Fresh, LoopInv, PlaceInv, Looping, LoopTypeOK
<1> QED
  BY <1>1, <1>2, <1>3, <1>4

LEMMA FreshSteps ==
    ASSUME ClientInv, Fresh, Looping, Loop
    PROVE  Events \/ StartConnect \/ Leave
<1>1. /\ chunk = <<>> /\ ~io.reading /\ io.phase = "idle" /\ ~io.timer /\ hb = FALSE
      /\ task \in {"none", "connect"}
  BY FreshFacts
<1>2. ~(NioConnect \/ CloseTask \/ Closes \/ End)
  BY <1>1 DEF NioConnect, CloseTask, Closes, HioDone, HioDel, FreeQueue, CloseCb, CloseFd,
              Drained, End, EndLoop, Looping
<1>3. ~(ConnectReady \/ Writable \/ Broken \/ ReadEof \/ Read \/ Heartbeat \/ Timeout)
  BY <1>1 DEF ConnectReady, Writable, Broken, ReadEof, Read, Heartbeat, Timeout
<1>4. ~(Upgraded \/ Feed \/ Text \/ Ping \/ Pong \/ CloseFrame \/ ParseError)
  BY <1>1 DEF Upgraded, Feed, Text, Ping, Pong, CloseFrame, ParseError, Parsing
<1> QED
  BY <1>2, <1>3, <1>4 DEF Loop

\* A callback of the loop, a write or a read leaves the first functor alone.
LEMMA StepsFirst ==
    ASSUME ClientInv, Steps, lpc \notin {"none", "start"},
           Fresh /\ Looping => task' = task \/ Starts
    PROVE  FirstInv' /\ (Fresh' <=> Fresh /\ ~Starts)
<1> USE DEF ClientInv
<1>1. /\ UNCHANGED <<customEvents, lpc>>
      /\ task' = "connect" => task = "connect"
  BY DEF Steps, Quiet, Chain, Telling, Freeing
<1>2. custom_events # <<>> =>
          custom_events' # <<>> /\ Head(custom_events') = Head(custom_events)
  <2>1. CASE NoPost
    BY <2>1 DEF NoPost
  <2>2. ASSUME NEW e \in {"hio_close", "nio_connect"}, PostEvent(e)
        PROVE  custom_events # <<>> =>
                 custom_events' # <<>> /\ Head(custom_events') = Head(custom_events)
    <3>1. e \in EventKinds /\ custom_events' = Append(custom_events, e)
      BY <2>2 DEF PostEvent, EventKinds
    <3> QED
      BY <3>1, QueuedAppend, QueueTypes
  <2> QED
    BY <2>1, <2>2 DEF Steps
<1>3. Queued(customEvents', "connect") <=> Queued(customEvents, "connect")
  BY <1>1
<1>6. task = "connect" => Looping
  BY DEF LoopInv, PlaceInv, Looping, Chain, Telling, Freeing
<1>4. CASE Starts
  <2>1. task = "connect" /\ task' = "none"
    BY <1>4 DEF Starts
  <2> QED
    BY <1>1, <1>3, <1>4, <2>1 DEF FirstInv, Fresh
<1>5. CASE ~Starts
  <2>1. Fresh /\ Looping => task' = task
    BY <1>5
  <2>2. lpc = "run" => Looping
    BY DEF Looping
  <2> QED
    BY <1>1, <1>2, <1>3, <1>5, <1>6, <2>1, <2>2 DEF FirstInv, Fresh
<1> QED
  BY <1>4, <1>5

LEMMA EventsFirst ==
    ASSUME ClientInv, Events
    PROVE  FirstInv' /\ (Fresh' <=> Fresh)
<1> USE DEF ClientInv
<1>q. /\ customEvents \in Seq(FunctorKinds) /\ custom_events \in Seq(EventKinds)
      /\ Counts
  BY QueueTypes, LoopCounts
<1>1. CASE LoopThread
  <2>1. /\ lpc = "start" /\ lpc' = "run" /\ customEvents = <<>> /\ custom_events = <<>>
        /\ customEvents' = Append(customEvents, "connect")
        /\ custom_events' = Append(custom_events, "functor") /\ task' = task
        /\ task = "none"
    BY <1>1 DEF LoopThread, PostEvent, FirstInv, LoopInv, PlaceInv
  <2>2. "functor" \in EventKinds /\ "connect" \in FunctorKinds
    BY DEF EventKinds, FunctorKinds
  <2>3. custom_events' # <<>> /\ Head(custom_events') = "functor"
    BY <1>q, <2>1, <2>2, QueuedAppend
  <2>5. Queued(customEvents', "connect")
    BY <1>q, <2>1, <2>2, QueuedAppend
  <2>4. AtHead(customEvents', "connect")
    BY <1>q, <2>1, <2>2, QueuedAppend, QueuedNone
  <2> QED
    BY <2>1, <2>3, <2>4, <2>5 DEF FirstInv, Fresh
<1>2. CASE Poll
  BY <1>2 DEF Poll, Idle, FirstInv, Fresh
<1>3. CASE TakeEvent
  <2>1. /\ custom_events # <<>> /\ task = "none" /\ lpc = "run" /\ lpc' = "run"
        /\ Head(custom_events) = "functor" =>
               /\ customEvents # <<>>
               /\ task' = Head(customEvents) /\ customEvents' = Tail(customEvents)
        /\ Head(custom_events) = "wakeup" => UNCHANGED <<task, customEvents>>
        /\ Head(custom_events) \notin {"functor", "wakeup"} =>
               task' = Head(custom_events) /\ UNCHANGED customEvents
    BY <1>3, <1>q, TakeCounts DEF TakeEvent, Idle
  <2>2. CASE Head(custom_events) = "functor"
    <3>1. customEvents # <<>> /\ task' = Head(customEvents) /\ customEvents' = Tail(customEvents)
      BY <2>1, <2>2
    <3>2. /\ ~Queued(customEvents', "connect") /\ AtHead(customEvents', "connect")
          /\ Queued(customEvents, "connect") <=> task' = "connect"
      BY <1>q, <3>1, QueuedTail DEF FirstInv
    <3> QED
      BY <2>1, <3>2 DEF FirstInv, Fresh
  <2>3. CASE Head(custom_events) # "functor"
    <3>1. ~Queued(customEvents, "connect")
      BY <2>1, <2>3 DEF FirstInv
    <3>2. UNCHANGED customEvents /\ task' # "connect"
      <4>1. Head(custom_events) \in EventKinds
        BY <1>q, <2>1, QueuedTail
      <4> QED
        BY <2>1, <2>3, <4>1 DEF EventKinds
    <3> QED
      BY <2>1, <3>1, <3>2 DEF FirstInv, Fresh
  <2> QED
    BY <2>2, <2>3
<1> QED
  BY <1>1, <1>2, <1>3 DEF Events

LEMMA UserFirst ==
    ASSUME ClientInv, User
    PROVE  FirstInv' /\ (Fresh' <=> Fresh)
<1> USE DEF ClientInv
<1>q. customEvents \in Seq(FunctorKinds) /\ custom_events \in Seq(EventKinds)
  BY QueueTypes
<1>p. upc \notin {"new", "opening", "gone"} => lpc \notin {"none", "start"}
  BY DEF LoopInv, PlaceInv
<1>1. CASE OpenFails \/ OpenReturns \/ Send \/ CloseState \/ Join
  BY <1>1 DEF OpenFails, OpenReturns, Send, CloseState, Join, loopVars, FirstInv, Fresh
<1>2. CASE Open
  BY <1>2 DEF Open, CreateThread, FirstInv, Fresh, LoopInv, PlaceInv
<1>3. CASE SendWrite
  <2>1. Wrote(io, Frame)
    BY <1>3, SendEffect
  <2>2. Steps /\ lpc \notin {"none", "start"} /\ task' = task /\ ~Starts
    BY <1>3, <1>p, <2>1
    DEF SendWrite, Steps, Wrote, MayPost, Starts, LoopInv, PlaceInv
  <2> QED
    BY <2>2, StepsFirst
<1>4. CASE Close \/ Stop
  <2>1. /\ upc \in {"using", "closed"}
        /\ PushFunctor("close") \/ UNCHANGED loopVars
    BY <1>4 DEF Close, Stop, Closesocket
  <2>2. CASE PushFunctor("close")
    <3>1. customEvents' = Append(customEvents, "close")
          /\ UNCHANGED <<custom_events, task, lpc>>
      BY <2>2 DEF PushFunctor
    <3>2. /\ Queued(customEvents', "connect") <=> Queued(customEvents, "connect")
          /\ AtHead(customEvents, "connect") => AtHead(customEvents', "connect")
      <4>1. "close" \in FunctorKinds
        BY DEF FunctorKinds
      <4> QED
        BY <1>q, <3>1, <4>1, QueuedAppend
    <3> QED
      BY <1>p, <2>1, <3>1, <3>2 DEF FirstInv, Fresh
  <2>3. CASE UNCHANGED loopVars
    BY <2>3 DEF loopVars, FirstInv, Fresh
  <2> QED
    BY <2>1, <2>2, <2>3
<1>5. CASE PostClose \/ StopThread
  <2>1. PICK e \in {"functor", "wakeup"} :
            /\ custom_events' = Append(custom_events, e)
            /\ UNCHANGED <<customEvents, task, lpc>> /\ lpc \notin {"none", "start"}
    BY <1>5, <1>p DEF PostClose, StopThread, PostFunctor, StopLoop, PostEvent
  <2>2. e \in EventKinds
    BY DEF EventKinds
  <2>3. /\ custom_events' # <<>>
        /\ custom_events # <<>> => Head(custom_events') = Head(custom_events)
    BY <1>q, <2>1, <2>2, QueuedAppend
  <2> QED
    BY <2>1, <2>3 DEF FirstInv, Fresh
<1> QED
  BY <1>1, <1>2, <1>3, <1>4, <1>5 DEF User

LEMMA LoopFirst ==
    ASSUME ClientInv, Loop
    PROVE  FirstInv' /\ (Fresh' <=> Fresh /\ ~Starts)
<1>1. CASE Events
  <2>1. ~Starts
    BY <1>1 DEF Events, LoopThread, Poll, TakeEvent, Idle, Starts, Runs
  <2> QED
    BY <1>1, <2>1, EventsFirst
<1>2. CASE Leave
  <2>1. /\ lpc = "run" /\ lpc' = "leaving" /\ task = "none"
        /\ UNCHANGED customEvents /\ task' \in {"none", "hio_done"}
    BY <1>2 DEF Leave, LeaveLoop, Idle, HioClose
  <2> QED
    BY <2>1 DEF ClientInv, FirstInv, Fresh, Starts
<1>3. CASE End
  <2>1. /\ lpc = "leaving" /\ lpc' = "ended" /\ task = "none"
        /\ UNCHANGED <<customEvents, task>>
    BY <1>3 DEF End, EndLoop
  <2> QED
    BY <2>1 DEF ClientInv, FirstInv, Fresh, Starts
<1>4. CASE ~Events /\ ~Leave /\ ~End
  <2>1. Steps /\ lpc \in {"run", "leaving"}
    BY <1>4, LoopIsSteps, LoopRuns
  <2>2. Fresh /\ Looping => Starts
    BY <1>4, FreshSteps, StartCase
  <2> QED
    BY <2>1, <2>2, StepsFirst
<1> QED
  BY <1>1, <1>2, <1>3, <1>4

-----------------------------------------------------------------------------
(* Each step keeps the types                                               *)

\* A write of the user thread on an open hio leaves it open.
LEMMA SendOpen ==
    ASSUME ClientInv, SendWrite, ~io.closed
    PROVE  SameHio(io)
<1>1. Wrote(io, Frame) /\ io.ready
  BY SendEffect DEF ClientInv, QueueInv, ReadyInv
<1> QED
  BY <1>1 DEF Wrote, Revived

\* The steps of the user thread that only move it, and the ones on the loop.
Moves ==
    /\ UNCHANGED <<io, wq, torn, hb, status, told, srv, chunk, ping_cnt, task, lpc>>
    /\ state' \in {state, "CLOSED"} /\ upc' # "new"
    /\ upc' = "sending" => IsOpened

LEMMA UserMoves == User => Open \/ SendWrite \/ Moves
<1>1. OpenFails \/ OpenReturns \/ CloseState \/ StopThread \/ Join => Moves
  BY DEF OpenFails, OpenReturns, CloseState, StopThread, StopLoop, Join, loopVars, Moves
<1>2. Send => Moves
  BY DEF Send, loopVars, Moves
<1>3. Close \/ PostClose \/ Stop => Moves
  BY DEF Close, PostClose, Stop, Closesocket, PushFunctor, PostFunctor, loopVars, Moves
<1> QED
  BY <1>1, <1>2, <1>3 DEF User

LEMMA UserTypes == ClientInv /\ User => DataTypes'
<1> SUFFICES ASSUME ClientInv, User PROVE DataTypes'
  OBVIOUS
<1> USE DEF ClientInv, DataTypes
<1>1. CASE OpenFails \/ Open \/ OpenReturns \/ CloseState \/ StopThread \/ Join
  BY <1>1 DEF OpenFails, Open, OpenReturns, CloseState, StopThread, Join
<1>2. CASE Send
  BY <1>2, WsConstants DEF Send
<1>3. CASE SendWrite
  <2>1. Wrote(io, Frame)
    BY <1>3, SendEffect
  <2>2. hb' \in BOOLEAN
    BY <1>3, Zenon DEF SendWrite
  <2> QED
    BY <1>3, <2>1, <2>2 DEF SendWrite, Wrote
<1>4. CASE Close \/ PostClose \/ Stop
  BY <1>4 DEF Close, PostClose, Stop, Closesocket
<1> QED
  BY <1>1, <1>2, <1>3, <1>4 DEF User

LEMMA LoopTypes == ClientInv /\ Loop => DataTypes'
<1> SUFFICES ASSUME ClientInv, Loop PROVE DataTypes'
  OBVIOUS
<1> USE DEF DataTypes
<1>0. DataTypes
  BY DEF ClientInv
<1>1. CASE Events \/ End
  BY <1>0, <1>1 DEF Events, End, wsVars
<1>2. CASE Runs /\ (Shuts \/ Idles)
  BY <1>0, <1>2 DEF Runs, Shuts, Idles, Parsed
<1>3. CASE Leave /\ Shuts
  BY <1>0, <1>3 DEF Leave, Shuts, Parsed
<1>4. CASE Runs /\ (Connects \/ Parses)
  BY <1>0, <1>4 DEF Runs, Connects, Parses, ChannelWrote
<1>5. CASE Starts \/ Drains
  BY <1>0, <1>5 DEF Starts, Drains, Runs
<1>6. CASE Read
  BY <1>0, <1>6 DEF Read, Handle
<1>7. CASE Unwinds
  <2>1. Len(<<>>) <= MaxQueue
    BY EmptySeq, WsConstants
  <2>2. Len(wq') <= MaxQueue
    BY <1>0, <1>7, <2>1 DEF Unwinds
  <2>3. hb' \in BOOLEAN
    <3>1. hb' = hb \/ hb' = FALSE
      BY <1>7, Zenon DEF Unwinds
    <3> QED
      BY <1>0, <3>1, Zenon
  <2> QED
    BY <1>0, <1>7, <2>2, <2>3 DEF Unwinds
<1> QED
  BY <1>1, <1>2, <1>3, <1>4, <1>5, <1>6, <1>7, LoopSteps

-----------------------------------------------------------------------------
(* Each step keeps what startConnect finds                                 *)

LEMMA UserFresh == ClientInv /\ User => FreshInv'
<1> SUFFICES ASSUME ClientInv, User PROVE FreshInv'
  OBVIOUS
<1>0. (Fresh' <=> Fresh) /\ FreshInv
  BY UserFirst DEF ClientInv
<1>1. CASE Open
  <2>1. lpc = "none" /\ lpc' = "start" /\ status' = "OPENED" /\ UNCHANGED <<io, wq, hb, told>>
    BY <1>1 DEF Open, CreateThread, ClientInv, LoopInv, PlaceInv
  <2>2. Fresh /\ Looping
    BY <2>1 DEF Fresh, Looping
  <2> QED
    BY <1>0, <2>1, <2>2 DEF FreshInv
<1>2. CASE SendWrite
  <2>1. Wrote(io, Frame)
    BY <1>2, SendEffect DEF ClientInv
  <2>2. UNCHANGED <<lpc, status, told>> /\ (hb = FALSE => hb' = FALSE)
    BY <1>2 DEF SendWrite, Quiet
  <2>3. CASE Fresh /\ Looping
    <3>1. SameHio(io)
      BY <1>0, <1>2, <2>3, SendOpen DEF FreshInv
    <3> QED
      BY <1>0, <2>1, <2>2, <2>3, <3>1 DEF FreshInv, Wrote, SameHio
  <2>4. CASE ~(Fresh /\ Looping)
    BY <1>0, <2>1, <2>2, <2>4 DEF FreshInv, Looping, Wrote, SameHio, Revived
  <2> QED
    BY <2>3, <2>4
<1>3. CASE Moves
  BY <1>0, <1>3 DEF FreshInv, Looping, Moves
<1> QED
  BY <1>1, <1>2, <1>3, UserMoves

LEMMA LoopFresh == ClientInv /\ Loop => FreshInv'
<1> SUFFICES ASSUME ClientInv, Loop PROVE FreshInv'
  OBVIOUS
<1>0. (Fresh' <=> Fresh /\ ~Starts) /\ FreshInv
  BY LoopFirst DEF ClientInv
<1>1. CASE Events
  <2>1. UNCHANGED <<status, io, wq, hb, told>> /\ Looping
    BY <1>1 DEF Events, wsVars, LoopThread, Poll, TakeEvent, Idle, Looping
  <2>2. Fresh' <=> Fresh
    BY <1>1, EventsFirst
  <2> QED
    BY <1>0, <2>1, <2>2 DEF FreshInv
<1>2. CASE Starts
  BY <1>0, <1>2 DEF Starts, FreshInv
\* The loop is left before startConnect has run.
<1>3. CASE Fresh /\ ~Events /\ ~Starts
  <2>1. ~Looping'
    <3>1. CASE Looping
      <4>1. Leave
        BY <1>3, <3>1, FreshSteps, StartCase
      <4> QED
        BY <4>1 DEF Leave, LeaveLoop, Looping
    <3>2. CASE ~Looping
      <4>1. ~Leave
        BY <3>2 DEF Leave, LeaveLoop, Idle, Looping
      <4>2. CASE End
        BY <4>2 DEF End, EndLoop, Looping
      <4>3. CASE ~End
        BY <1>3, <3>2, <4>1, <4>3, LoopIsSteps DEF Steps, Quiet, Looping
      <4> QED
        BY <4>2, <4>3
    <3> QED
      BY <3>1, <3>2
  <2> QED
    BY <1>0, <1>3, <2>1 DEF FreshInv
<1>4. CASE ~Fresh /\ ~Events /\ ~Starts
  <2>0. ~Fresh' /\ status \notin {"none", "OPENED"} /\ io.phase # "idle"
    BY <1>0, <1>4 DEF FreshInv
  <2>1. status' \notin {"none", "OPENED"} /\ io'.phase # "idle"
    <3>1. CASE Shuts \/ Idles
      BY <2>0, <3>1 DEF Shuts, Idles
    <3>2. CASE Connects \/ Parses \/ Drains
      BY <2>0, <3>2 DEF Connects, Parses, ChannelWrote, Drains, SameHio
    <3>3. CASE Read \/ End
      BY <2>0, <3>3 DEF Read, End, wsVars
    <3>4. CASE Unwinds
      BY <2>0, <3>4 DEF Unwinds
    <3> QED
      BY <1>4, <3>1, <3>2, <3>3, <3>4, LoopSteps
  <2> QED
    BY <2>0, <2>1 DEF FreshInv
<1> QED
  BY <1>1, <1>2, <1>3, <1>4

-----------------------------------------------------------------------------
(* Each step keeps the connection made once and asked for once             *)

\* The server has, or will have, the request for the upgrade.
Asking == srv \in {"asked", "open"} \/ Queued(wq, "req")

\* A step that neither begins nor makes a connection.
SameConnect ==
    /\ NoPost \/ custom_events' = <<>> \/ \E e \in EventKinds \ {"nio_connect"} : PostEvent(e)
    /\ task' = "nio_connect" => task = "nio_connect"
    /\ io'.phase \in {io.phase, "shut"} /\ (io'.reading => io.reading)
    /\ srv = "none" /\ ~io.reading /\ ~Queued(wq, "req") =>
           srv' = "none" /\ ~Queued(wq', "req")
    /\ Asking' => Asking
    /\ state' = "CONNECTING" => state = "CONNECTING"

LEMMA SameConnectKeeps == ClientInv /\ SameConnect => ConnectInv'
<1> SUFFICES ASSUME ClientInv, SameConnect PROVE ConnectInv'
  OBVIOUS
<1>q. custom_events \in Seq(EventKinds) /\ ConnectInv
  BY QueueTypes DEF ClientInv
<1>1. /\ Queued(custom_events', "nio_connect") => Queued(custom_events, "nio_connect")
      /\ Single(custom_events', "nio_connect")
  <2>1. CASE NoPost
    BY <1>q, <2>1 DEF NoPost, ConnectInv
  <2>2. ASSUME NEW e \in EventKinds \ {"nio_connect"}, PostEvent(e)
        PROVE  /\ Queued(custom_events', "nio_connect") => Queued(custom_events, "nio_connect")
               /\ Single(custom_events', "nio_connect")
    <3>1. custom_events' = Append(custom_events, e)
      BY <2>2 DEF PostEvent
    <3> QED
      BY <1>q, <3>1, QueuedAppend DEF ConnectInv
  <2>3. CASE custom_events' = <<>>
    BY <2>3, QueuedNone
  <2> QED
    BY <2>1, <2>2, <2>3 DEF SameConnect
<1>2. NioPending' => NioPending
  BY <1>1 DEF SameConnect, NioPending
<1> QED
  BY <1>q, <1>1, <1>2 DEF SameConnect, ConnectInv, NioPending, Asking

LEMMA PostsNoConnect ==
    ASSUME MayPost
    PROVE  NoPost \/ \E e \in EventKinds \ {"nio_connect"} : PostEvent(e)
<1>1. "hio_close" \in EventKinds \ {"nio_connect"}
  BY DEF EventKinds
<1> QED
  BY <1>1 DEF MayPost

LEMMA UserConnect == ClientInv /\ User => ConnectInv'
<1> SUFFICES ASSUME ClientInv, User PROVE ConnectInv'
  OBVIOUS
<1>1. CASE Open
  <2>1. io.phase = "idle" /\ task # "nio_connect"
    BY <1>1 DEF Open, ClientInv, FreshInv, Fresh, LoopInv, PlaceInv, Looping
  <2>2. /\ UNCHANGED <<custom_events, task, io, wq, srv>>
        /\ srv = "none" /\ ~Queued(wq, "req") /\ ConnectInv
    BY <1>1, <2>1 DEF Open, CreateThread, ClientInv, ConnectInv
  <2> QED
    BY <2>2 DEF ConnectInv, NioPending
<1>2. CASE SendWrite
  <2>1. Wrote(io, Frame)
    BY <1>2, SendEffect DEF ClientInv
  <2>2. UNCHANGED <<task, state>>
    BY <1>2 DEF SendWrite
  <2>3. SameConnect
    BY <2>1, <2>2, PostsNoConnect DEF Wrote, SameHio, Revived, SameConnect, Asking
  <2> QED
    BY <2>3, SameConnectKeeps
<1>3. CASE \/ OpenFails \/ OpenReturns \/ Send \/ Close \/ PostClose
           \/ CloseState \/ Stop \/ StopThread \/ Join
  <2>1. /\ UNCHANGED <<task, io, wq, srv>> /\ state' \in {state, "CLOSED"}
        /\ NoPost \/ PostEvent("functor") \/ PostEvent("wakeup")
    BY <1>3 DEF OpenFails, OpenReturns, Send, Close, PostClose, CloseState, Stop,
                StopThread, Join, Closesocket, PushFunctor, PostFunctor, StopLoop,
                loopVars, NoPost
  <2>2. {"functor", "wakeup"} \subseteq EventKinds \ {"nio_connect"}
    BY DEF EventKinds
  <2>3. SameConnect
    BY <2>1, <2>2 DEF SameConnect, Asking
  <2> QED
    BY <2>3, SameConnectKeeps
<1> QED
  BY <1>1, <1>2, <1>3 DEF User

LEMMA EventsConnect == ClientInv /\ Events => ConnectInv'
<1> SUFFICES ASSUME ClientInv, Events PROVE ConnectInv'
  OBVIOUS
<1>q. custom_events \in Seq(EventKinds) /\ ConnectInv /\ Counts
  BY QueueTypes, LoopCounts DEF ClientInv
<1>w. UNCHANGED <<io, wq, srv, state>>
  BY DEF Events, wsVars
<1>1. CASE LoopThread \/ Poll
  <2>1. UNCHANGED task /\ (custom_events' = custom_events \/ PostEvent("functor"))
    BY <1>1 DEF LoopThread, Poll
  <2>2. "functor" \in EventKinds \ {"nio_connect"}
    BY DEF EventKinds
  <2>3. CASE custom_events' = custom_events
    BY <1>q, <1>w, <2>1, <2>3 DEF ConnectInv, NioPending
  <2>4. CASE PostEvent("functor")
    <3>1. SameConnect
      BY <1>w, <2>1, <2>2, <2>4 DEF SameConnect, Asking
    <3> QED
      BY <3>1, SameConnectKeeps
  <2> QED
    BY <2>1, <2>3, <2>4
<1>2. CASE TakeEvent
  <2>1. /\ custom_events # <<>> /\ task = "none" /\ custom_events' = Tail(custom_events)
        /\ Head(custom_events) = "functor" =>
               customEvents # <<>> /\ task' = Head(customEvents)
        /\ Head(custom_events) = "wakeup" => UNCHANGED task
        /\ Head(custom_events) \notin {"functor", "wakeup"} =>
               task' = Head(custom_events)
    BY <1>2, <1>q, TakeCounts DEF TakeEvent, Idle
  <2>2. customEvents # <<>> => Head(customEvents) \in FunctorKinds
    BY QueueTypes, QueuedTail DEF ClientInv
  <2>3. task' = "nio_connect" => Head(custom_events) = "nio_connect"
    BY <2>1, <2>2 DEF FunctorKinds
  <2>4. /\ Queued(custom_events, "nio_connect") <=>
               Queued(custom_events', "nio_connect") \/ Head(custom_events) = "nio_connect"
        /\ Single(custom_events', "nio_connect")
        /\ Head(custom_events) = "nio_connect" => ~Queued(custom_events', "nio_connect")
    BY <1>q, <2>1, QueuedTail DEF ConnectInv
  <2>5. NioPending' => NioPending
    BY <2>3, <2>4 DEF NioPending
  <2> QED
    BY <1>q, <1>w, <2>3, <2>4, <2>5 DEF ConnectInv
<1> QED
  BY <1>1, <1>2 DEF Events

\* startConnect and on_connect: no other event of hio_connect is on its way.
LEMMA StartsConnect == ClientInv /\ Starts => ConnectInv'
<1> SUFFICES ASSUME ClientInv, Starts PROVE ConnectInv'
  OBVIOUS
<1>q. custom_events \in Seq(EventKinds) /\ ConnectInv
  BY QueueTypes DEF ClientInv
<1>1. io.phase = "idle"
  BY DEF Starts, Runs, ClientInv, FreshInv, Fresh, Looping
<1>2. /\ ~NioPending /\ srv = "none" /\ ~Queued(wq, "req") /\ ~io.reading
      /\ ~Queued(custom_events, "nio_connect")
  BY <1>q, <1>1 DEF ConnectInv, NioPending
<1>3. UNCHANGED <<srv, wq, state>> /\ ~io'.reading /\ task' = "none"
  BY <1>2 DEF Starts
<1>4. CASE io'.phase = "up" /\ PostEvent("nio_connect")
  <2>1. "nio_connect" \in EventKinds /\ custom_events' = Append(custom_events, "nio_connect")
    BY <1>4 DEF PostEvent, EventKinds
  <2>2. Single(custom_events', "nio_connect")
    BY <1>q, <1>2, <2>1, QueuedAppend DEF ConnectInv
  <2> QED
    BY <1>q, <1>2, <1>3, <1>4, <2>2 DEF ConnectInv
<1>5. CASE io'.phase \in {"refused", "connecting"} /\ MayPost
  <2>1. ~Queued(custom_events', "nio_connect") /\ Single(custom_events', "nio_connect")
    <3>1. CASE NoPost
      BY <1>q, <1>2, <3>1 DEF NoPost, ConnectInv
    <3>2. CASE PostEvent("hio_close")
      <4>1. "hio_close" \in EventKinds /\ custom_events' = Append(custom_events, "hio_close")
        BY <3>2 DEF PostEvent, EventKinds
      <4> QED
        BY <1>q, <1>2, <4>1, QueuedAppend DEF ConnectInv
    <3> QED
      BY <1>5, <3>1, <3>2 DEF MayPost
  <2> QED
    BY <1>q, <1>2, <1>3, <1>5, <2>1 DEF ConnectInv, NioPending
<1> QED
  BY <1>4, <1>5 DEF Starts

LEMMA ConnectsConnect == ClientInv /\ MayPost /\ Connects => ConnectInv'
<1> SUFFICES ASSUME ClientInv, MayPost, Connects PROVE ConnectInv'
  OBVIOUS
<1>q. custom_events \in Seq(EventKinds) /\ ConnectInv
  BY QueueTypes DEF ClientInv
<1>1. ~Queued(custom_events, "nio_connect")
  BY <1>q DEF ConnectInv, NioPending, Connects
<1>2. ~Queued(custom_events', "nio_connect") /\ Single(custom_events', "nio_connect")
  <2>1. CASE NoPost
    BY <1>q, <1>1, <2>1 DEF NoPost, ConnectInv
  <2>2. CASE PostEvent("hio_close")
    <3>1. "hio_close" \in EventKinds /\ custom_events' = Append(custom_events, "hio_close")
      BY <2>2 DEF PostEvent, EventKinds
    <3> QED
      BY <1>q, <1>1, <3>1, QueuedAppend DEF ConnectInv
  <2> QED
    BY <2>1, <2>2 DEF MayPost
<1> QED
  BY <1>2 DEF Connects, ConnectInv, NioPending

LEMMA LoopConnect == ClientInv /\ Loop => ConnectInv'
<1> SUFFICES ASSUME ClientInv, Loop PROVE ConnectInv'
  OBVIOUS
<1>1. CASE Events
  BY <1>1, EventsConnect
<1>2. CASE Starts
  BY <1>2, StartsConnect
<1>3. CASE MayPost /\ Connects
  BY <1>3, ConnectsConnect
<1>4. CASE ~Events /\ ~Starts /\ ~(MayPost /\ Connects)
  <2> SUFFICES SameConnect
    BY SameConnectKeeps
  <2>n. ~Queued(<<>>, "req")
    BY QueuedNone
  <2>1. CASE NoPost /\ (Shuts \/ Idles)
    BY <2>1 DEF Shuts, Idles, SameConnect, Asking
  <2>2. CASE Leave /\ Shuts
    <3>1. custom_events' = <<>>
      BY <2>2 DEF Leave, LeaveLoop
    <3> QED
      BY <2>2, <3>1 DEF Shuts, SameConnect, Asking
  <2>3. CASE MayPost /\ Parses
    BY <2>3, PostsNoConnect DEF Parses, ChannelWrote, SameHio, SameConnect, Asking
  <2>4. CASE Drains
    BY <2>4 DEF Drains, SameHio, SameConnect, Asking
  <2>5. CASE Read
    <3>1. srv \in {"asked", "open"} /\ io.reading
      BY <2>5 DEF Read, ServerSends
    <3> QED
      BY <2>5, <3>1 DEF Read, SameConnect, Asking
  <2>6. CASE Unwinds
    BY <2>n, <2>6 DEF Unwinds, SameConnect, Asking, Freeing
  <2>7. CASE End
    BY <2>7 DEF End, EndLoop, wsVars, SameConnect, Asking, NoPost
  <2> QED
    BY <1>4, <2>1, <2>2, <2>3, <2>4, <2>5, <2>6, <2>7, LoopSteps
<1> QED
  BY <1>1, <1>2, <1>3, <1>4

-----------------------------------------------------------------------------
(* Each step keeps the close on its way                                    *)

\* A write in the middle of a close makes the hio ready again.
LEMMA SendRevives ==
    ASSUME ClientInv, SendWrite, ~SameHio(io)
    PROVE  /\ io.closed /\ task \in Chain /\ task' = task /\ upc' = "using"
           /\ ~io'.own /\ ~io'.reading
<1>1. Revived(io) /\ upc' = "using" /\ task' = task
  BY SendEffect DEF ClientInv, Wrote, SendWrite
<1>2. io.closed /\ io.phase # "shut"
  BY <1>1 DEF Revived, ClientInv, QueueInv, ReadyInv
<1>3. task \in Chain
  BY <1>2 DEF ClientInv, ShutInv
<1> QED
  BY <1>1, <1>2, <1>3 DEF Revived

LEMMA UserShut == ClientInv /\ User => ShutInv'
<1> SUFFICES ASSUME ClientInv, User PROVE ShutInv'
  OBVIOUS
<1>0. ShutInv
  BY DEF ClientInv
<1>1. CASE Open
  BY <1>0, <1>1 DEF Open, CreateThread, ShutInv
<1>2. CASE SendWrite
  <2>1. upc' = "using" /\ task' = task
    BY <1>2 DEF SendWrite
  <2>2. CASE SameHio(io)
    BY <1>0, <2>1, <2>2 DEF SameHio, ShutInv
  <2>3. CASE ~SameHio(io)
    BY <1>2, <2>1, <2>3, SendRevives DEF ShutInv
  <2> QED
    BY <2>2, <2>3
<1>3. CASE Moves
  BY <1>0, <1>3 DEF Moves, IsOpened, ShutInv
<1> QED
  BY <1>1, <1>2, <1>3, UserMoves

LEMMA LoopShut == ClientInv /\ Loop => ShutInv'
<1> SUFFICES ASSUME ClientInv, Loop PROVE ShutInv'
  OBVIOUS
<1> USE DEF ShutInv
<1>0. ShutInv
  BY DEF ClientInv
<1>1. CASE Events
  <2>1. UNCHANGED <<io, upc>> /\ (task' = task \/ task \notin Chain)
    BY <1>1 DEF Events, wsVars, LoopThread, Poll, TakeEvent, Idle, Chain, Telling, Freeing
  <2> QED
    BY <1>0, <2>1
<1>2. CASE Shuts /\ (Runs \/ Leave)
  <2>1. UNCHANGED upc
    BY <1>2 DEF Runs, Leave
  <2> QED
    BY <1>0, <1>2, <2>1 DEF Shuts, Chain, Telling, Freeing
<1>3. CASE Runs /\ (Idles \/ Connects)
  BY <1>0, <1>3 DEF Runs, Idles, Connects
<1>4. CASE (Runs /\ Parses) \/ Drains
  <2>1. UNCHANGED upc /\ SameHio(io) /\ task = "none"
    BY <1>4 DEF Runs, Parses, ChannelWrote, Drains
  <2> QED
    BY <1>0, <2>1 DEF SameHio, Chain, Telling, Freeing
<1>5. CASE Starts
  <2>1. ~io.closed /\ io.own /\ UNCHANGED upc
    BY <1>5 DEF Starts, Runs, ClientInv, FreshInv, Fresh, Looping
  <2> QED
    BY <1>0, <1>5, <2>1 DEF Starts
<1>6. CASE Read \/ End
  BY <1>0, <1>6 DEF Read, Handle, End, EndLoop, wsVars
<1>7. CASE Unwinds
  BY <1>0, <1>7 DEF Unwinds, Chain, Telling, Freeing
<1> QED
  BY <1>1, <1>2, <1>3, <1>4, <1>5, <1>6, <1>7, LoopSteps

-----------------------------------------------------------------------------
(* Each step keeps onclose with the close                                  *)

LEMMA UserTold == ClientInv /\ User => ToldInv'
<1> SUFFICES ASSUME ClientInv, User PROVE ToldInv'
  OBVIOUS
<1>0. ToldInv /\ (Fresh' <=> Fresh)
  BY UserFirst DEF ClientInv
<1>1. CASE Open \/ Moves
  BY <1>0, <1>1 DEF Open, CreateThread, Moves, ToldInv
<1>2. CASE SendWrite
  <2>1. UNCHANGED <<task, told>>
    BY <1>2 DEF SendWrite
  <2>2. CASE SameHio(io)
    BY <1>0, <2>1, <2>2 DEF SameHio, ToldInv
  <2>3. CASE ~SameHio(io)
    BY <1>2, <2>3, SendRevives DEF ToldInv
  <2> QED
    BY <2>2, <2>3
<1> QED
  BY <1>1, <1>2, UserMoves

LEMMA LoopTold == ClientInv /\ Loop => ToldInv'
<1> SUFFICES ASSUME ClientInv, Loop PROVE ToldInv'
  OBVIOUS
<1> USE DEF ToldInv
<1>0. ToldInv /\ (Fresh' <=> Fresh /\ ~Starts)
  BY LoopFirst DEF ClientInv
<1>1. CASE Events
  <2>1. /\ UNCHANGED <<io, told>>
        /\ task' = task \/ (task \notin Telling /\ task' \notin Telling)
    BY <1>1, TakeTask DEF Events, wsVars, LoopThread, Poll, TakenTasks, Telling, Freeing
  <2>2. Fresh' <=> Fresh
    BY <1>1, EventsFirst
  <2> QED
    BY <1>0, <2>1, <2>2
<1>2. CASE Starts
  <2>1. ~io.closed /\ told = "none"
    BY <1>2 DEF Starts, Runs, ClientInv, FreshInv, Fresh, Looping
  <2> QED
    BY <2>1, <1>2 DEF Starts
<1>3. CASE ~Events /\ ~Starts
  <2>0. Fresh' <=> Fresh
    BY <1>0, <1>3
  <2>1. CASE Shuts \/ Idles
    BY <1>0, <2>0, <2>1 DEF Shuts, Idles, Chain, Telling, Freeing
  <2>2. CASE Connects
    BY <1>0, <2>0, <2>2 DEF Connects
  <2>3. CASE Parses
    <3>1. SameHio(io) /\ task = "none" /\ task' \notin Telling
      BY <2>3 DEF Parses, ChannelWrote, Telling, Freeing
    <3>2. told' = told \/ (~io.closed /\ told' # "close")
      BY <2>3 DEF Parses, ClientInv, TellInv
    <3> QED
      BY <1>0, <2>0, <3>1, <3>2 DEF SameHio, Telling, Freeing
  <2>4. CASE Drains
    BY <1>0, <2>0, <2>4 DEF Drains, SameHio
  <2>5. CASE Read \/ End
    BY <1>0, <2>0, <2>5 DEF Read, End, EndLoop, wsVars
  <2>6. CASE Unwinds
    <3>1. ~Fresh => io.phase # "idle"
      BY DEF ClientInv, FreshInv
    <3> QED
      BY <1>0, <2>0, <2>6, <3>1 DEF Unwinds, Telling, Freeing
  <2> QED
    BY <1>3, <2>1, <2>2, <2>3, <2>4, <2>5, <2>6, LoopSteps
<1> QED
  BY <1>1, <1>2, <1>3

-----------------------------------------------------------------------------
(* Each step keeps what was read in order                                  *)

\* A read brings a chunk: the answer to the request, or frames.
LEMMA SentShape ==
    ASSUME NEW c \in ServerSends
    PROVE  /\ c \in Chunks /\ c # <<>>
           /\ srv \in {"asked", "open"}
           /\ srv = "asked" => Head(c) \in {"101", "bad"}
           /\ srv = "asked" /\ Head(c) = "bad" => c[Len(c)] = "bad"
           /\ srv = "open" => Head(c) # "101"
<1>1. CASE srv = "asked"
  <2>1. c \in {<<"101">>, <<"bad">>} \cup {<<"101", "feed", f>> : f \in Frames}
    BY <1>1 DEF ServerSends
  <2>2. "bad" \in Frames
    BY DEF Frames
  <2>3. ASSUME NEW f \in Frames, c = <<"101", "feed", f>>
        PROVE  c # <<>> /\ Head(c) = "101" /\ c \in Chunks
    BY <2>3 DEF Chunks
  <2>4. CASE c = <<"101">>
    BY <1>1, <2>4 DEF Chunks
  <2>5. CASE c = <<"bad">>
    BY <1>1, <2>2, <2>5 DEF Chunks
  <2> QED
    BY <1>1, <2>1, <2>3, <2>4, <2>5
<1>2. CASE srv = "open"
  <2>1. c \in {<<f>> : f \in Frames}
              \cup {<<f, g>> : f \in Frames \ {"close", "bad"}, g \in Frames}
    BY <1>2 DEF ServerSends
  <2>2. \A f \in Frames : f # "101"
    BY DEF Frames
  <2>3. ASSUME NEW f \in Frames, c = <<f>>
        PROVE  c # <<>> /\ Head(c) # "101" /\ c \in Chunks
    BY <2>2, <2>3 DEF Chunks
  <2>4. ASSUME NEW f \in Frames \ {"close", "bad"}, NEW g \in Frames, c = <<f, g>>
        PROVE  c # <<>> /\ Head(c) # "101" /\ c \in Chunks
    BY <2>2, <2>4 DEF Chunks
  <2> QED
    BY <1>2, <2>1, <2>3, <2>4
<1>3. CASE srv \notin {"asked", "open"}
  BY <1>3 DEF ServerSends
<1> QED
  BY <1>1, <1>2, <1>3
LEMMA UserTell == ClientInv /\ User => TellInv'
<1> SUFFICES ASSUME ClientInv, User PROVE TellInv'
  OBVIOUS
<1>0. TellInv
  BY DEF ClientInv
<1>1. CASE Open
  <2>1. lpc = "none" /\ io.phase = "idle"
    BY <1>1 DEF Open, ClientInv, LoopInv, PlaceInv, FreshInv, Fresh, Looping
  <2>2. srv = "none" /\ chunk = <<>> /\ UNCHANGED <<io, srv, chunk, told, task>>
    BY <1>1, <2>1 DEF Open, CreateThread, ClientInv, ConnectInv, TellInv
  <2> QED
    BY <1>0, <2>2 DEF TellInv
<1>2. CASE SendWrite
  <2>1. UNCHANGED <<srv, state, lpc, chunk, told, task>>
    BY <1>2, SendEffect DEF ClientInv, SendWrite, Quiet, Wrote
  <2>2. chunk # <<>> => io'.closed = io.closed /\ io'.own = io.own
    BY <1>0, <1>2, SendOpen DEF TellInv, SameHio
  <2> QED
    BY <1>0, <2>1, <2>2 DEF TellInv
<1>3. CASE Moves
  BY <1>0, <1>3 DEF Moves, TellInv
<1> QED
  BY <1>1, <1>2, <1>3, UserMoves

\* Nothing is left to parse.
LEMMA EmptyTell ==
    ASSUME TellInv, chunk' = <<>>, chunk = <<>> \/ Head(chunk) = "bad",
           told' \in {told, "close"},
           state' \in {state, "CLOSED"} \/ srv' # "open",
           srv' \in {srv, "done"} \/ (srv = "none" /\ srv' = "asked")
    PROVE  TellInv'
<1>1. <<>> \in Chunks
  BY DEF Chunks
<1> QED
  BY <1>1 DEF TellInv

\* A message is parsed once the user has been told of the connection.
LEMMA ParseTell == ClientInv /\ Runs /\ Parses => TellInv'
<1> SUFFICES ASSUME ClientInv, Runs, Parses PROVE TellInv'
  OBVIOUS
<1>0. TellInv /\ SameHio(io) /\ srv' = srv /\ lpc' = lpc
  BY DEF ClientInv, Parses, ChannelWrote, Runs, Quiet
<1>1. CASE chunk = <<>>
  <2>1. UNCHANGED <<chunk, told, state>>
    BY <1>1 DEF Parses
  <2> QED
    BY <1>0, <1>1, <2>1, EmptyTell
<1>2. CASE chunk # <<>>
  <2>1. /\ chunk' \in {Tail(chunk), <<>>} /\ Head(chunk) # "bad"
        /\ task = "none" /\ (task' = "none" \/ (task' = "close" /\ Head(chunk) = "close"))
        /\ \/ Head(chunk) = "101" /\ told' = "open"
           \/ Head(chunk) # "101" /\ told' \in {told, "message"}
    BY <1>2 DEF Parses
  <2>2. told' \in {"open", "message"}
    BY <1>0, <1>2, <2>1 DEF TellInv
  <2>3. /\ chunk' \in Chunks
        /\ Head(chunk) = "close" => chunk' = <<>>
        /\ chunk' # <<>> => Head(chunk') # "101"
    <3>1. <<>> \in Chunks /\ chunk \in Chunks
      BY <1>0 DEF Chunks, TellInv
    <3> QED
      BY <1>2, <2>1, <3>1, ChunkShape
  <2> QED
    BY <1>0, <1>2, <2>1, <2>2, <2>3 DEF TellInv, SameHio
<1> QED
  BY <1>1, <1>2

LEMMA ReadTell == ClientInv /\ Read => TellInv'
<1> SUFFICES ASSUME ClientInv, Read PROVE TellInv'
  OBVIOUS
<1>0. /\ TellInv /\ ConnectInv /\ DataTypes
      /\ chunk = <<>> /\ ~io.closed /\ io.own /\ lpc = "run" /\ task = "none"
      /\ UNCHANGED <<state, io, told, task, lpc>>
  BY DEF ClientInv, ShutInv, Read, Handle, Idle, Quiet
<1>1. PICK c \in ServerSends :
          /\ srv' = IF c[Len(c)] \in {"close", "bad"} THEN "done" ELSE "open"
          /\ chunk' = IF state \in {"UPGRADING", "OPENED"} THEN c ELSE <<>>
  BY DEF Read
<1>2. /\ c \in Chunks /\ c # <<>> /\ srv \in {"asked", "open"}
      /\ srv = "asked" => Head(c) \in {"101", "bad"}
      /\ srv = "asked" /\ Head(c) = "bad" => c[Len(c)] = "bad"
      /\ srv = "open" => Head(c) # "101"
  BY <1>1, SentShape
<1>3. told # "close"
  BY <1>0 DEF ClientInv, ToldInv
<1>4. CASE state \in {"UPGRADING", "OPENED"}
  <2>1. chunk' = c /\ srv' \in {"open", "done"}
    BY <1>1, <1>4
  <2>2. srv = "asked" => told = "none"
    BY <1>0, <1>3 DEF TellInv
  <2>3. srv = "open" => told \in {"open", "message"}
    BY <1>0, <1>3, <1>4 DEF TellInv, DataTypes
  <2>4. srv' = "open" /\ srv = "asked" => Head(c) = "101"
    BY <1>1, <1>2
  <2> QED
    BY <1>0, <1>2, <2>1, <2>2, <2>3, <2>4 DEF TellInv
<1>5. CASE state \notin {"UPGRADING", "OPENED"}
  <2>1. chunk' = <<>> /\ srv' \in {"open", "done"}
    BY <1>1, <1>5
  <2>2. state = "CLOSED"
    BY <1>0, <1>2, <1>5 DEF ConnectInv, DataTypes
  <2> QED
    BY <1>0, <2>1, <2>2 DEF TellInv
<1> QED
  BY <1>4, <1>5

LEMMA LoopTell == ClientInv /\ Loop => TellInv'
<1> SUFFICES ASSUME ClientInv, Loop PROVE TellInv'
  OBVIOUS
<1>0. TellInv
  BY DEF ClientInv
<1>1. CASE Events \/ End
  <2>1. chunk = <<>> /\ UNCHANGED <<chunk, told, state, srv>>
    <3>1. CASE Events
      BY <3>1 DEF Events, wsVars
    <3>2. CASE End
      BY <1>0, <3>2 DEF End, EndLoop, wsVars, TellInv
    <3> QED
      BY <1>1, <3>1, <3>2
  <2> QED
    BY <1>0, <2>1, EmptyTell
<1>2. CASE Shuts \/ Idles
  BY <1>0, <1>2, EmptyTell DEF Shuts, Idles, Parsed
<1>3. CASE Connects
  <2>1. srv = "none"
    BY <1>3 DEF Connects, ClientInv, ConnectInv, NioPending
  <2> QED
    BY <1>0, <1>3, <2>1, EmptyTell DEF Connects
<1>4. CASE Runs /\ Parses
  BY <1>4, ParseTell
<1>5. CASE Starts \/ Drains
  BY <1>0, <1>5, EmptyTell DEF Starts, Drains
<1>6. CASE Read
  BY <1>6, ReadTell
<1>7. CASE Unwinds
  BY <1>0, <1>7, EmptyTell DEF Unwinds
<1> QED
  BY <1>1, <1>2, <1>3, <1>4, <1>5, <1>6, <1>7, LoopSteps

-----------------------------------------------------------------------------
(* Each step keeps a close that was asked for                              *)

LEMMA UserEnd == ClientInv /\ User => EndInv'
<1> SUFFICES ASSUME ClientInv, User PROVE EndInv'
  OBVIOUS
<1>0. EndInv /\ customEvents \in Seq(FunctorKinds)
  BY QueueTypes DEF ClientInv
<1>1. CASE Open
  <2>1. upc' = "opening" /\ status' = "OPENED" /\ lpc' = "start"
    BY <1>1 DEF Open, CreateThread
  <2> QED
    BY <2>1 DEF EndInv, Looping
<1>2. CASE SendWrite
  <2>1. /\ upc' = "using" /\ UNCHANGED <<status, lpc, customEvents>>
    BY <1>2 DEF SendWrite, Quiet
  <2>2. Looping
    BY <1>2 DEF SendWrite, ClientInv, LoopInv, PlaceInv, Looping
  <2>3. GivenUp => GivenUp'
    BY <1>2, SendRevives DEF SameHio, GivenUp
  <2> QED
    BY <1>0, <2>1, <2>2, <2>3 DEF EndInv, Looping
<1>3. CASE Close \/ Stop
  <2>0. UNCHANGED <<io, status>>
    BY <1>3 DEF Close, Stop
  <2>1. CASE PushFunctor("close")
    <3>1. customEvents' = Append(customEvents, "close")
      BY <2>1 DEF PushFunctor
    <3>2. Queued(customEvents', "close") /\ customEvents' # <<>>
      <4>1. "close" \in FunctorKinds
        BY DEF FunctorKinds
      <4> QED
        BY <1>0, <3>1, <4>1, QueuedAppend
    <3> QED
      BY <1>0, <2>0, <3>2 DEF EndInv, CloseAsked, GivenUp
  <2>2. CASE status = "CLOSED" /\ UNCHANGED loopVars
    <3>1. UNCHANGED <<customEvents, lpc>> /\ GivenUp
      BY <1>0, <2>2 DEF loopVars, EndInv
    <3> QED
      BY <1>0, <2>0, <3>1 DEF EndInv, CloseAsked, GivenUp, Looping
  <2> QED
    BY <1>3, <2>1, <2>2 DEF Close, Stop, Closesocket
<1>4. CASE OpenFails \/ OpenReturns \/ Send \/ PostClose \/ CloseState \/ StopThread \/ Join
  <2>1. /\ UNCHANGED <<customEvents, task, lpc, io, status>>
        /\ upc' \in {"stop_post", "stop_loop", "join"} =>
               upc \in {"stop_post", "stop_loop", "join"}
    BY <1>4 DEF OpenFails, OpenReturns, Send, PostClose, CloseState, StopThread, Join,
                PostFunctor, StopLoop, loopVars
  <2> QED
    BY <1>0, <2>1 DEF EndInv, CloseAsked, GivenUp, Looping
<1> QED
  BY <1>1, <1>2, <1>3, <1>4 DEF User

\* A step of the running loop: the user thread does not move.
LEMMA RunEnd ==
    ASSUME EndInv, upc' = upc, Looping', CloseAsked => CloseAsked',
           status' = "CLOSED" => GivenUp'
    PROVE  EndInv'
  BY DEF EndInv

\* An event takes the lambda that closes from the queue to the thread.
LEMMA EventsEnd == ClientInv /\ Events => EndInv'
<1> SUFFICES ASSUME ClientInv, Events PROVE EndInv'
  OBVIOUS
<1>0. EndInv /\ UNCHANGED <<upc, status, io>> /\ Looping'
  BY DEF ClientInv, Events, wsVars, LoopThread, Poll, TakeEvent, Idle, Looping
<1>1. GivenUp' <=> GivenUp
  BY <1>0 DEF GivenUp
<1>2. CASE LoopThread
  <2>1. upc = "opening"
    BY <1>2 DEF LoopThread, ClientInv, LoopInv, PlaceInv
  <2> QED
    BY <1>0, <1>1, <2>1 DEF EndInv
<1>3. CASE Poll
  BY <1>0, <1>1, <1>3, RunEnd DEF Poll, CloseAsked, EndInv
<1>4. CASE TakeEvent
  <2>1. /\ Counts /\ customEvents \in Seq(FunctorKinds)
    BY QueueTypes, LoopCounts DEF ClientInv
  <2>2. /\ task = "none"
        /\ \/ customEvents # <<>> /\ task' = Head(customEvents) /\ customEvents' = Tail(customEvents)
           \/ customEvents' = customEvents
    BY <1>4, <2>1, TakeCounts DEF TakeEvent, Idle
  <2>3. Queued(customEvents, "close") => Queued(customEvents', "close") \/ task' = "close"
    BY <2>1, <2>2, QueuedTail
  <2> QED
    BY <1>0, <1>1, <2>2, <2>3, RunEnd DEF CloseAsked, EndInv
<1> QED
  BY <1>2, <1>3, <1>4 DEF Events

\* hloop_cleanup does not wait: what was asked for is closed.
LEMMA LeaveEnd == ClientInv /\ Leave /\ Shuts => EndInv'
<1> SUFFICES ASSUME ClientInv, Leave, Shuts PROVE EndInv'
  OBVIOUS
<1>1. /\ upc = "join" /\ task = "none" /\ UNCHANGED <<upc, customEvents>>
  BY DEF Leave, LeaveLoop, Idle, ClientInv, LoopInv, PlaceInv
<1>2. GivenUp' /\ (GivenUp => io'.closed \/ ~io'.own)
  BY <1>1 DEF Shuts, GivenUp
<1>3. GivenUp \/ Queued(customEvents, "close")
  BY <1>1 DEF ClientInv, EndInv, CloseAsked
<1>4. customEvents = <<>> => ~Queued(customEvents, "close")
  BY QueuedNone
<1> QED
  BY <1>1, <1>2, <1>3, <1>4 DEF EndInv, CloseAsked

LEMMA LoopEnd == ClientInv /\ Loop => EndInv'
<1> SUFFICES ASSUME ClientInv, Loop PROVE EndInv'
  OBVIOUS
<1>0. EndInv
  BY DEF ClientInv
<1>r. Runs => upc' = upc /\ Looping' /\ customEvents' = customEvents
  BY DEF Runs, Quiet, Looping
<1>1. CASE Events
  BY <1>1, EventsEnd
<1>2. CASE Leave /\ Shuts
  BY <1>2, LeaveEnd
<1>3. CASE Runs /\ Shuts
  BY <1>0, <1>3, <1>r, RunEnd DEF Shuts, GivenUp, CloseAsked
<1>4. CASE Runs /\ Idles
  <2>1. GivenUp' <=> GivenUp
    BY <1>4 DEF Idles, GivenUp
  <2>2. task = "close" => GivenUp
    BY <1>0, <1>4 DEF Idles, EndInv, GivenUp
  <2> QED
    BY <1>0, <1>4, <1>r, <2>1, <2>2, RunEnd DEF Idles, CloseAsked, EndInv
<1>5. CASE Runs /\ (Connects \/ Parses)
  <2>1. /\ GivenUp' <=> GivenUp
        /\ task # "close" /\ status' \in {status, "CONNECTED"}
    BY <1>5 DEF Connects, Parses, ChannelWrote, SameHio, GivenUp
  <2> QED
    BY <1>0, <1>5, <1>r, <2>1, RunEnd DEF CloseAsked, EndInv
<1>6. CASE Starts \/ Drains
  <2>1. /\ GivenUp' <=> GivenUp
        /\ Runs /\ task # "close" /\ status' \in {status, "CONNECTING"}
    BY <1>6 DEF Starts, Drains, SameHio, GivenUp
  <2> QED
    BY <1>0, <1>r, <2>1, RunEnd DEF CloseAsked, EndInv
<1>7. CASE Read
  <2>1. UNCHANGED <<upc, lpc, customEvents, task, io, status>>
    BY <1>7 DEF Read, Handle, Quiet
  <2> QED
    BY <1>0, <2>1 DEF EndInv, CloseAsked, GivenUp, Looping
<1>8. CASE Unwinds
  BY <1>8 DEF Unwinds, EndInv, CloseAsked, GivenUp
<1>9. CASE End
  <2>1. /\ UNCHANGED <<upc, customEvents, task, io, status>>
        /\ ~Looping
    BY <1>9 DEF End, EndLoop, wsVars, Looping
  <2> QED
    BY <1>0, <2>1 DEF EndInv, CloseAsked, GivenUp
<1> QED
  BY <1>1, <1>2, <1>3, <1>4, <1>5, <1>6, <1>7, <1>8, <1>9, LoopSteps

-----------------------------------------------------------------------------
(* The invariant of the client, and what the user is told in each step     *)

LEMMA InitClient == Init => ClientInv
<1> SUFFICES ASSUME Init PROVE ClientInv
  OBVIOUS
<1>1. QueueInv /\ MaxQueue \in Nat /\ MaxSend \in Nat /\ PingLimit \in Nat
  BY InitQueue, WsConstants
<1>2. /\ wq = <<>> /\ Len(wq) = 0 /\ Len(customEvents) = 0 /\ Len(custom_events) = 0
      /\ customEvents = <<>> /\ custom_events = <<>>
      /\ customEvents \in Seq({"connect", "close"})
      /\ custom_events \in Seq({"functor", "wakeup", "hio_close", "nio_connect"})
  BY EmptySeq DEF Init, LoopInit
<1>3. /\ lpc = "none" /\ upc = "new" /\ status = "none" /\ task = "none" /\ hl = "stop"
      /\ state = "CLOSED" /\ srv = "none" /\ told = "none" /\ chunk = <<>>
      /\ eventfd = 0 /\ batch = 0 /\ turn = {} /\ sends = 0 /\ ping_cnt = 0
  BY DEF Init, LoopInit
<1>4. /\ pushed = FALSE /\ hb = FALSE
      /\ pushed \in BOOLEAN /\ hb \in BOOLEAN
  BY Zenon DEF Init, LoopInit
<1>5. /\ io.phase = "idle" /\ ~io.reading /\ ~io.close /\ ~io.closed
      /\ io.own /\ ~io.timer
  BY DEF Init
<1>6. LoopInv
  <2>1. Cardinality(Functors(custom_events)) = 0
    <3>1. Functors(custom_events) = {}
      BY <1>2 DEF Functors
    <3> QED
      BY <3>1, FS_EmptySet
  <2>2. LoopTypeOK
    BY <1>2, <1>3, <1>4 DEF LoopTypeOK
  <2>3. EventsAccounted
    BY <1>2, <1>3, <1>4, <2>1 DEF EventsAccounted
  <2>4. PlaceInv
    BY <1>3, <1>4 DEF PlaceInv, Posting
  <2> QED
    BY <2>2, <2>3, <2>4 DEF LoopInv
<1>7. DataTypes
  BY <1>1, <1>2, <1>3, <1>4 DEF DataTypes
<1>8. FirstInv /\ FreshInv
  BY <1>2, <1>3, <1>4, <1>5, QueuedNone DEF FirstInv, FreshInv, Fresh, Looping
<1>9. ConnectInv
  BY <1>2, <1>3, <1>5, QueuedNone DEF ConnectInv, NioPending
<1>10. TellInv
  BY <1>3, <1>5 DEF TellInv, Chunks
<1>11. EndInv
  BY <1>3 DEF EndInv, Looping
<1>12. ShutInv /\ ToldInv
  BY <1>3, <1>5 DEF ShutInv, ToldInv, Fresh
<1> QED
  BY <1>1, <1>6, <1>7, <1>8, <1>9, <1>10, <1>11, <1>12 DEF ClientInv

LEMMA NextClient == ClientInv /\ [Next]_vars => ClientInv'
<1> SUFFICES ASSUME ClientInv, [Next]_vars PROVE ClientInv'
  OBVIOUS
<1>q. QueueInv
  BY DEF ClientInv
<1>1. CASE UNCHANGED vars
  <2>1. QueueInv'
    BY <1>1, <1>q, SameSocket DEF vars, loopVars, wsVars, socket
  <2>2. LoopInv' /\ DataTypes'
    BY <1>1 DEF ClientInv, LoopInv, LoopTypeOK, EventsAccounted, PlaceInv, DataTypes, vars,
                loopVars, wsVars
  <2>3. FirstInv' /\ FreshInv' /\ ConnectInv'
    BY <1>1 DEF ClientInv, FirstInv, FreshInv, Fresh, Looping, ConnectInv, NioPending,
                vars, loopVars, wsVars
  <2>4. ShutInv' /\ ToldInv' /\ TellInv' /\ EndInv'
    BY <1>1 DEF ClientInv, ShutInv, ToldInv, TellInv, EndInv, CloseAsked, GivenUp, Fresh,
                Looping, vars, loopVars, wsVars
  <2> QED
    BY <2>1, <2>2, <2>3, <2>4 DEF ClientInv
<1>2. CASE User
  BY <1>2, <1>q, UserKeeps, UserLoop, UserTypes, UserFirst, UserFresh, UserConnect, UserShut,
     UserTold, UserTell, UserEnd DEF ClientInv
<1>3. CASE Loop
  <2>1. QueueInv'
    BY <1>3, <1>q, LoopKeeps, EventsQueue
  <2> QED
    BY <1>3, <2>1, LoopLoop, LoopTypes, LoopFirst, LoopFresh, LoopConnect, LoopShut, LoopTold,
       LoopTell, LoopEnd DEF ClientInv
<1> QED
  BY <1>1, <1>2, <1>3 DEF Next, Done

\* What a step of the loop thread tells the user.
Told ==
    \/ told' = told
    \/ told = "none" /\ told' = "open"
    \/ told \in {"open", "message"} /\ told' = "message"
    \/ told \in {"none", "open", "message"} /\ told' = "close"

LEMMA LoopTells == ClientInv /\ Loop /\ ~Events => Told
<1> SUFFICES ASSUME ClientInv, Loop, ~Events PROVE Told
  OBVIOUS
<1>1. CASE Shuts \/ Idles \/ Connects \/ Starts \/ Drains \/ Read \/ End
  BY <1>1 DEF Shuts, Idles, Connects, Starts, Drains, Read, End, wsVars, Told
<1>2. CASE Parses
  BY <1>2 DEF Parses, ClientInv, TellInv, Told
<1>3. CASE Unwinds
  <2>1. told \in {"none", "open", "message", "close"}
    BY DEF ClientInv, DataTypes
  <2>2. told' = told \/ (told' = "close" /\ task = "close_cb" /\ io.own)
    BY <1>3 DEF Unwinds
  <2>3. task = "close_cb" /\ io.own => told # "close"
    BY DEF ClientInv, ToldInv, Telling
  <2> QED
    BY <2>1, <2>2, <2>3 DEF Told
<1> QED
  BY <1>1, <1>2, <1>3, LoopSteps

\* A step is a step of WsSession, or the user sees none.
LEMMA NextSession ==
    ASSUME ClientInv, [Next]_vars
    PROVE  [Session!Next]_<<told, lpc = "ended">>
<1> USE DEF Session!Next, Session!Onopen, Session!Onmessage, Session!Onclose, Session!End,
            Session!Tell
<1>1. CASE UNCHANGED vars \/ User \/ Events
  <2>1. told' = told
    BY <1>1 DEF vars, wsVars, User, OpenFails, Open, OpenReturns, Send, SendWrite, Close,
                PostClose, CloseState, Stop, StopThread, Join, Events
  <2>2. (lpc' = "ended") <=> (lpc = "ended")
    <3>1. CASE UNCHANGED vars
      BY <3>1 DEF vars, loopVars
    <3>2. CASE User
      <4>1. lpc' = lpc \/ (upc = "new" /\ lpc' = "start")
        BY <3>2 DEF User, OpenFails, Open, OpenReturns, Send, SendWrite, Close, PostClose,
                    CloseState, Stop, StopThread, Join, Closesocket, CreateThread,
                    PushFunctor, PostFunctor, StopLoop, loopVars, Quiet
      <4> QED
        BY <4>1 DEF ClientInv, LoopInv, PlaceInv
    <3>3. CASE Events
      BY <3>3 DEF Events, LoopThread, Poll, TakeEvent, Idle
    <3> QED
      BY <1>1, <3>1, <3>2, <3>3
  <2> QED
    BY <2>1, <2>2
<1>2. CASE Loop /\ ~Events /\ ~End
  <2>1. Told /\ lpc \in {"run", "leaving"}
    BY <1>2, LoopTells, LoopRuns
  <2>2. lpc' \in {"run", "leaving"}
    <3>1. CASE Leave
      BY <3>1 DEF Leave, LeaveLoop
    <3>2. CASE ~Leave
      BY <1>2, <2>1, <3>2, LoopIsSteps DEF Steps, Quiet
    <3> QED
      BY <3>1, <3>2
  <2> QED
    BY <2>1, <2>2 DEF Told
<1>3. CASE End
  <2>1. lpc = "leaving" /\ lpc' = "ended" /\ told' = told
    BY <1>3 DEF End, EndLoop, wsVars
  <2> QED
    BY <2>1
<1> QED
  BY <1>1, <1>2, <1>3 DEF Next, Done

-----------------------------------------------------------------------------
(* The theorems                                                            *)

LEMMA ClientHolds == Spec => []ClientInv
  BY InitClient, NextClient, PTL DEF Spec

(***************************************************************************)
(* hio_write, nio_write and hio_close together leave no half written frame *)
(* behind: whenever something is queued, HV_WRITE is registered and the    *)
(* hio is open, or the loop thread is about to free the queue, although a  *)
(* send() that has passed the test of closed may write after hio_close     *)
(* released write_mutex.  The hio that such a write makes ready again, and *)
(* so takes from the channel (own), is excepted: its queue is never        *)
(* written.                                                                *)
(***************************************************************************)
THEOREM WatchCorrect == Spec => []QueueIsWatched
<1>1. ClientInv => QueueIsWatched
  BY DEF ClientInv, QueueInv
<1> QED
  BY <1>1, ClientHolds, PTL

(***************************************************************************)
(* A client's frames never mix on an open connection: two writers, a       *)
(* partial send and a queue at its limit leave the queue a continuation of *)
(* what is on the wire.  It needs room for a whole frame (MaxQueue >= 2),  *)
(* and says nothing of a hio that hio_close has closed.                    *)
(***************************************************************************)
THEOREM FramesCorrect == Spec => []FramesWhole
<1>1. ClientInv => FramesWhole
  BY DEF ClientInv, QueueInv
<1> QED
  BY <1>1, ClientHolds, PTL

(***************************************************************************)
(* The client stays within its types: among them, the write queue never    *)
(* holds more than max_write_bufsize allows, although a frame is cut and   *)
(* queued by whichever thread writes, and no event that the loop takes     *)
(* finds EventLoop's queue of functors empty.                              *)
(***************************************************************************)
THEOREM TypesCorrect == Spec => []TypeOK
<1>1. ClientInv => TypeOK
  <2> SUFFICES ASSUME ClientInv PROVE TypeOK
    OBVIOUS
  <2>1. /\ LoopTypeOK /\ DataTypes
        /\ io \in Hio /\ wq \in Seq(Halves) /\ torn \in BOOLEAN
    BY DEF ClientInv, LoopInv, QueueInv, SocketTypes
  <2>2. chunk \in Seq(Frames \cup {"101", "feed"})
    <3> DEFINE S == Frames \cup {"101", "feed"}
    <3>1. chunk \in Chunks
      BY DEF ClientInv, TellInv
    <3>2. Frames \subseteq S /\ "101" \in S /\ "feed" \in S
      OBVIOUS
    <3> HIDE DEF S
    <3>3. <<>> \in Seq(S) /\ <<"101">> \in Seq(S)
      BY <3>2
    <3>4. ASSUME NEW f \in Frames
          PROVE  /\ <<f>> \in Seq(S) /\ <<"feed", f>> \in Seq(S)
                 /\ <<"101", "feed", f>> \in Seq(S)
      BY <3>2
    <3>5. ASSUME NEW f \in Frames, NEW g \in Frames
          PROVE  <<f, g>> \in Seq(S)
      BY <3>2
    <3>6. chunk \in Seq(S)
      <4>1. CASE chunk \in {<<>>, <<"101">>}
        BY <3>3, <4>1
      <4>2. CASE \E f \in Frames : chunk \in {<<f>>, <<"feed", f>>, <<"101", "feed", f>>}
        BY <3>4, <4>2
      <4>3. CASE \E f, g \in Frames : chunk = <<f, g>>
        BY <3>5, <4>3
      <4> QED
        BY <3>1, <4>1, <4>2, <4>3 DEF Chunks
    <3> QED
      BY <3>6 DEF S
  <2>3. {torn, hb} \subseteq BOOLEAN
    BY <2>1, Zenon DEF DataTypes
  <2> QED
    BY <2>1, <2>2, <2>3 DEF TypeOK, DataTypes, Hio, Halves
<1> QED
  BY <1>1, ClientHolds, PTL

(***************************************************************************)
(* No event of the loop is lost, taken twice or taken for another: the     *)
(* eventfd and the rest of the batch announce what custom_events holds,    *)
(* and every functor of queueInLoop has its event, however the posts of    *)
(* the user thread fall between the loop's read of the eventfd and its     *)
(* rounds over the queue.                                                  *)
(***************************************************************************)
THEOREM AccountsCorrect == Spec => []EventsAccounted
<1>1. ClientInv => EventsAccounted
  BY DEF ClientInv, LoopInv
<1> QED
  BY <1>1, ClientHolds, PTL

(***************************************************************************)
(* The destructor leaves no socket behind: when the loop thread has ended  *)
(* with every functor run, the fd is closed, and onclose was called, even  *)
(* for a close that still waited for the queue to drain and with sends     *)
(* between any two steps of hio_close; only a hio that one of those sends  *)
(* took from the channel is closed without onclose.                        *)
(***************************************************************************)
THEOREM EndCorrect == Spec => []ClosedWhenEnded
<1>1. ClientInv => ClosedWhenEnded
  <2> SUFFICES ASSUME ClientInv, lpc = "ended", customEvents = <<>>
               PROVE  io.phase = "shut" /\ (told = "close" \/ ~io.own)
    BY DEF ClosedWhenEnded
  <2>1. (io.closed \/ ~io.own) /\ task = "none"
    BY DEF ClientInv, EndInv, Looping, LoopInv, PlaceInv
  <2>2. ~Fresh
    BY <2>1, QueuedNone DEF Fresh
  <2>3. task \notin Chain /\ task \notin Telling
    BY <2>1 DEF Chain, Telling, Freeing
  <2> QED
    BY <2>1, <2>2, <2>3 DEF ClientInv, ShutInv, ToldInv
<1> QED
  BY <1>1, ClientHolds, PTL

(***************************************************************************)
(* The client keeps WsSession's promise: onopen once and first, onmessage  *)
(* only after it, onclose once and last, and nothing when the loop has     *)
(* ended, whichever thread, timer or peer ends the connection.             *)
(***************************************************************************)
THEOREM SessionCorrect == Spec => ImplementsSession
<1>1. Init => Session!Init
  BY DEF Init, LoopInit, Session!Init
<1>2. ClientInv /\ [Next]_vars => [Session!Next]_<<told, lpc = "ended">>
  BY NextSession
<1> QED
  BY <1>1, <1>2, ClientHolds, PTL DEF Spec, ImplementsSession, Session!Spec

=============================================================================
