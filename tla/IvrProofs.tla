----------------------------- MODULE IvrProofs -----------------------------
(***************************************************************************)
(* Theorems about the functions of switch_ivr_play_say.c together, for any *)
(* engines, any number of calls, files, digits and tries and every fault:  *)
(* what other threads find through the session and its channel is alive.   *)
(***************************************************************************)
EXTENDS CollectInput, TLAPS

\* Where a call has nothing of its own in the session.
Bare == {"idle", "next_file", "say", "saying", "open", "publish", "close",
         "play_end", "rec_video", "rec_open", "rec_indication", "rec_files",
         "rec_failed", "tones", "tones_end", "detect_codec", "detect_destroy",
         "detect_end"}
\* Between setting the channel's "__fh" and taking it back.
Published == {"raw_codec", "file_timer", "play_loop", "play_data", "play_time",
              "play_write", "play_stop", "unpublish"}
\* Between setting the video files of a recording and taking them back.
Recording == {"rec_codec", "rec_start", "rec_loop", "rec_show", "rec_write",
              "rec_stop"}
Closing == {"rec_close", "rec_end"}
Detecting == {"detect_loop", "detect_reset"}

\* What the rest of this module looks at.
view == <<ppc, held, refs, cmd>>

-----------------------------------------------------------------------------
(* The inductive invariant: for each place of a call, what the session      *)
(* points to and what of it the call holds                                  *)

WhereInv == ppc \in Bare \cup Published \cup {"unvideo"} \cup Recording \cup Closing
                      \cup Detecting
BareInv ==
    /\ ppc \in Bare => refs = {}
    /\ ppc \in {"idle", "rec_video", "rec_open"} => held = {}
    /\ ppc \in {"publish", "close"} => "fh" \in held
    /\ ppc \in {"rec_indication", "rec_files"} => "fh" \in held /\ "abuf" \notin held
PlayInv ==
    ppc \in Published \cup {"unvideo"} =>
        /\ refs \subseteq {"__fh", "video_write"}
        /\ ppc = "unvideo" => "__fh" \notin refs
        /\ {"fh", "abuf"} \subseteq held
RecordInv ==
    /\ ppc \in Recording =>
        /\ refs \subseteq Video \cup {"read_codec"}
        /\ "video_write" \in refs => "vfh" \in held
        /\ "fh" \in held /\ "abuf" \notin held
    /\ ppc = "rec_codec" => "read_codec" \notin refs
    /\ ppc \in Closing => refs \subseteq {"read_codec"}
    /\ ppc \in Recording \cup Closing /\ "read_codec" \in refs => "rec_codec" \in held
DetectInv ==
    ppc \in Detecting => refs \subseteq {"read_codec"} /\ "codec" \in held
CommandInv == cmd => "__fh" \in refs

PointInv == WhereInv /\ BareInv /\ PlayInv /\ RecordInv /\ DetectInv /\ CommandInv

USE DEF Bare, Published, Recording, Closing, Detecting, Video

LEMMA InitPoints == IvrInit => PointInv
  BY DEF IvrInit, MediaInit, PlayInit, PointInv, WhereInv, BareInv, PlayInv,
         RecordInv, DetectInv, CommandInv

LEMMA Unseen == PointInv /\ UNCHANGED view => PointInv'
  BY DEF view, PointInv, WhereInv, BareInv, PlayInv, RecordInv, DetectInv,
         CommandInv

-----------------------------------------------------------------------------
(* One step per action                                                     *)

LEMMA PlaySteps == PointInv /\ PlayRuns => PointInv'
<1> SUFFICES ASSUME PointInv, PlayRuns PROVE PointInv'
  OBVIOUS
<1> USE DEF PointInv, WhereInv, BareInv, PlayInv, RecordInv, DetectInv,
            CommandInv, Keep, PGoto
<1>1. CASE NextFile
  BY <1>1 DEF NextFile
<1>2. CASE \E n \in TtsNames : Say(n)
  BY <1>2 DEF Say
<1>3. CASE SayRefused
  BY <1>3 DEF SayRefused
<1>4. CASE SayReturns
  BY <1>4 DEF SayReturns
<1>5. CASE OpenFile
  BY <1>5 DEF OpenFile, Acquire
<1>6. CASE Publish
  BY <1>6 DEF Publish
<1>7. CASE PlayCodec
  BY <1>7 DEF PlayCodec, Acquire
<1>8. CASE PlayTimer
  BY <1>8 DEF PlayTimer
<1>9. CASE PlayLoop
  BY <1>9 DEF PlayLoop
<1>10. CASE PlayData
  BY <1>10 DEF PlayData
<1>11. CASE PlayTime
  BY <1>11 DEF PlayTime
<1>12. CASE PlayWrite
  BY <1>12 DEF PlayWrite
<1>13. CASE PlayStop
  BY <1>13 DEF PlayStop
<1>14. CASE Unpublish
  BY <1>14 DEF Unpublish, Unpoint
<1>15. CASE Unvideo
  BY <1>15 DEF Unvideo, Unpoint
<1>16. CASE CloseFile
  BY <1>16 DEF CloseFile, Release
<1>17. CASE PlayEnd
  BY <1>17 DEF PlayEnd, Return
<1> QED
  BY <1>1, <1>2, <1>3, <1>4, <1>5, <1>6, <1>7, <1>8, <1>9, <1>10, <1>11, <1>12,
     <1>13, <1>14, <1>15, <1>16, <1>17 DEF PlayRuns

LEMMA RecordSteps == PointInv /\ RecordRuns => PointInv'
<1> SUFFICES ASSUME PointInv, RecordRuns PROVE PointInv'
  OBVIOUS
<1> USE DEF PointInv, WhereInv, BareInv, PlayInv, RecordInv, DetectInv,
            CommandInv, Keep, PGoto, Setup, RecordKeeps, VideoEnds, Steps, Ends,
            Return, ResetReadCodec
<1>1. CASE RecordVideo
  BY <1>1 DEF RecordVideo
<1>2. CASE RecordOpen
  BY <1>2 DEF RecordOpen, Acquire
<1>3. CASE RecordIndication
  BY <1>3 DEF RecordIndication
<1>4. CASE RecordFiles
  BY <1>4 DEF RecordFiles
<1>5. CASE RecordCodec
  BY <1>5 DEF RecordCodec
<1>6. CASE RecordFailed
  BY <1>6 DEF RecordFailed
<1>7. CASE RecordStart
  BY <1>7 DEF RecordStart
<1>8. CASE RecordLoop
  BY <1>8 DEF RecordLoop
<1>9. CASE RecordShow
  BY <1>9 DEF RecordShow
<1>10. CASE RecordWrite
  BY <1>10 DEF RecordWrite, Release
<1>11. CASE RecordStop
  BY <1>11 DEF RecordStop
<1>12. CASE RecordClose
  BY <1>12 DEF RecordClose, Release
<1>13. CASE RecordEnd
  BY <1>13 DEF RecordEnd
<1> QED
  BY <1>1, <1>2, <1>3, <1>4, <1>5, <1>6, <1>7, <1>8, <1>9, <1>10, <1>11, <1>12,
     <1>13 DEF RecordRuns

LEMMA OtherSteps ==
    PointInv /\ (Speaks \/ TonesLoop \/ TonesEnd \/ DetectRuns \/ MacroEnds) => PointInv'
<1> SUFFICES ASSUME PointInv,
                    Speaks \/ TonesLoop \/ TonesEnd \/ DetectRuns \/ MacroEnds
             PROVE  PointInv'
  OBVIOUS
<1>1. CASE Speaks \/ MacroEnds
  <2>1. UNCHANGED view
    BY <1>1 DEF Speaks, MacroEnds, view
  <2> QED
    BY <2>1, Unseen
<1> USE DEF PointInv, WhereInv, BareInv, PlayInv, RecordInv, DetectInv,
            CommandInv, Keep, PGoto, Setup, Ends, Return, ResetReadCodec, Release
<1>2. CASE TonesLoop
  BY <1>2 DEF TonesLoop
<1>3. CASE TonesEnd
  BY <1>3 DEF TonesEnd
<1>4. CASE DetectCodec
  BY <1>4 DEF DetectCodec
<1>5. CASE DetectLoop
  BY <1>5 DEF DetectLoop
<1>6. CASE DetectReset
  BY <1>6 DEF DetectReset
<1>7. CASE DetectDestroy
  BY <1>7 DEF DetectDestroy
<1>8. CASE DetectEnd
  BY <1>8 DEF DetectEnd
<1> QED
  BY <1>1, <1>2, <1>3, <1>4, <1>5, <1>6, <1>7, <1>8 DEF DetectRuns

LEMMA CallSteps == PointInv /\ MediaCalls => PointInv'
<1> SUFFICES ASSUME PointInv, MediaCalls PROVE PointInv'
  OBVIOUS
<1> USE DEF PointInv, WhereInv, BareInv, PlayInv, RecordInv, DetectInv,
            CommandInv, PGoto, Begins, SessionFree
<1>1. CASE PlayFile
  BY <1>1 DEF PlayFile
<1>2. CASE Record
  BY <1>2 DEF Record
<1>3. CASE Tones
  BY <1>3 DEF Tones
<1>4. CASE Detect
  BY <1>4 DEF Detect
<1>5. CASE PhraseMacro
  BY <1>5 DEF PhraseMacro
<1> QED
  BY <1>1, <1>2, <1>3, <1>4, <1>5 DEF MediaCalls

LEMMA CommandSteps == PointInv /\ OtherThreads => PointInv'
<1> SUFFICES ASSUME PointInv, OtherThreads PROVE PointInv'
  OBVIOUS
<1>1. CASE Others /\ UNCHANGED playVars
  <2>1. UNCHANGED view
    BY <1>1 DEF playVars, view
  <2> QED
    BY <2>1, Unseen
<1> USE DEF PointInv, WhereInv, BareInv, PlayInv, RecordInv, DetectInv,
            CommandInv, Commands
<1>2. CASE GetFileHandle
  BY <1>2 DEF GetFileHandle
<1>3. CASE SetSpeed
  BY <1>3 DEF SetSpeed
<1>4. CASE ReleaseFileHandle
  BY <1>4 DEF ReleaseFileHandle
<1> QED
  BY <1>1, <1>2, <1>3, <1>4 DEF OtherThreads

\* Asking leaves the files, codecs and pointers alone: its prompt is a playback
\* of its own, of which CollectInput keeps the input handling only.
LEMMA AskSteps == AskRuns \/ AskCalls => UNCHANGED view
<1> SUFFICES ASSUME AskRuns \/ AskCalls PROVE UNCHANGED view
  OBVIOUS
<1> USE DEF view, mediaVars, playVars, Asking
<1>1. CASE Prompt
  BY <1>1 DEF Prompt
<1>2. CASE Wait \/ Sleep \/ Awake
  BY <1>2 DEF Wait, Sleep, Awake
<1>3. CASE CollectReturn \/ AskReturns
  BY <1>3 DEF CollectReturn, AskReturns
<1>4. CASE Try \/ ReadDigits \/ ReadReturns
  BY <1>4 DEF Try, ReadDigits, ReadReturns
<1>5. CASE ReadPrompt
  BY <1>5 DEF ReadPrompt
<1>6. CASE Collect \/ GetDigits
  BY <1>6 DEF Collect, GetDigits, Asks
<1> QED
  BY <1>1, <1>2, <1>3, <1>4, <1>5, <1>6 DEF AskRuns, AskCalls

LEMMA NextPoints == PointInv /\ [Ivr]_ivrVars => PointInv'
<1> SUFFICES ASSUME PointInv, [Ivr]_ivrVars PROVE PointInv'
  OBVIOUS
<1>1. CASE MediaRuns \/ MediaCalls \/ OtherThreads
  BY <1>1, PlaySteps, RecordSteps, OtherSteps, CallSteps, CommandSteps DEF MediaRuns
<1>2. CASE AskRuns \/ AskCalls
  BY <1>2, AskSteps, Unseen
<1>3. CASE UNCHANGED ivrVars
  <2>1. UNCHANGED view
    BY <1>3 DEF ivrVars, mediaVars, playVars, view
  <2> QED
    BY <2>1, Unseen
<1> QED
  BY <1>1, <1>2, <1>3 DEF Ivr

LEMMA Points == IvrSpec => []PointInv
  BY InitPoints, NextPoints, PTL DEF IvrSpec

-----------------------------------------------------------------------------
(* The second invariant: what each place of a call holds and has counted,   *)
(* for what a return leaves behind                                          *)

Looking == {"next_file", "say", "saying", "open", "play_end"}
Started == {"play_loop", "play_data", "play_time", "play_write", "play_stop",
            "rec_loop", "rec_show", "rec_write", "rec_stop", "rec_close"}
Playing == Looking \cup {"publish", "unvideo", "close"} \cup Published
Setting == {"rec_indication", "rec_files", "rec_failed"}
Recorded == {"write_codec", "ind_fh", "vfh", "rec_codec"}

EventInv == started => ppc \in Started
ServiceInv == service => ppc \in Playing /\ "timer" \in held
MacroInv == macro \/ prefix = "own"
LoopsInv ==
    /\ ppc \in Playing \cup {"rec_video", "tones", "tones_end"} =>
           ploops = 1 /\ video = "no"
    /\ ppc \in {"rec_open"} \cup Setting \cup Recording \cup Closing =>
           ploops = IF video = "missing" THEN 0 ELSE 1
    /\ ppc = "idle" => ploops = IF video = "missing" THEN -1 ELSE 0
    /\ ppc \in {"detect_codec", "detect_destroy", "detect_end"} \cup Detecting =>
           ploops = 0 /\ video = "no"
\* CF_VIDEO_DECODED_READ: one for a video channel, one for the echo.
FlagInv ==
    decoded = (IF video = "no" THEN 0 ELSE 1)
                  + (IF ppc \in Recording /\ "echo" \in refs THEN 1 ELSE 0)
HoldInv ==
    /\ ppc \in Playing => held \subseteq {"fh", "abuf", "codec", "timer"}
    /\ ppc \in Looking => "fh" \notin held
    /\ ppc \in Setting \cup Recording \cup Closing => held \subseteq Recorded \cup {"fh"}
    /\ ppc = "rec_end" => "fh" \notin held
    /\ ppc \in {"tones", "tones_end"} => held \subseteq {"write_codec", "audio_buffer"}
    /\ ppc \in {"detect_codec", "detect_destroy"} \cup Detecting =>
           held \subseteq {"fh", "abuf", "codec"}
    /\ ppc \in {"detect_codec", "detect_end"} => held \subseteq {"fh", "abuf"}
LeftInv ==
    /\ leaked \subseteq Recorded \cup {"fh", "no_write_codec"}
    /\ "fh" \in leaked => "no_write_codec" \in leaked

BookInv ==
    EventInv /\ ServiceInv /\ MacroInv /\ LoopsInv /\ FlagInv /\ HoldInv /\ LeftInv

\* What this invariant looks at.
books == <<ppc, held, refs, started, service, macro, prefix, ploops, video, decoded, leaked>>

USE DEF Looking, Started, Playing, Setting, Recorded

LEMMA InitBooks == IvrInit => BookInv
  BY DEF IvrInit, MediaInit, PlayInit, BookInv, EventInv, ServiceInv, MacroInv,
         LoopsInv, FlagInv, HoldInv, LeftInv

LEMMA Unbooked == BookInv /\ UNCHANGED books => BookInv'
  BY DEF books, BookInv, EventInv, ServiceInv, MacroInv, LoopsInv, FlagInv, HoldInv, LeftInv

LEMMA PlayBooks == PointInv /\ BookInv /\ PlayRuns => BookInv'
<1> SUFFICES ASSUME PointInv, BookInv, PlayRuns PROVE BookInv'
  OBVIOUS
<1> USE DEF PointInv, BareInv, BookInv, EventInv, ServiceInv, MacroInv,
            LoopsInv, FlagInv, HoldInv, LeftInv, PlayKeeps, Local, fileVars, Keep, PGoto
<1>1. CASE NextFile
  BY <1>1 DEF NextFile
<1>2. CASE \E n \in TtsNames : Say(n)
  BY <1>2 DEF Say
<1>3. CASE SayRefused
  BY <1>3 DEF SayRefused
<1>4. CASE SayReturns
  BY <1>4 DEF SayReturns
<1>5. CASE OpenFile
  BY <1>5 DEF OpenFile, Acquire
<1>6. CASE Publish
  BY <1>6 DEF Publish
<1>7. CASE PlayCodec
  BY <1>7 DEF PlayCodec, Acquire
<1>8. CASE PlayTimer
  <2> USE <1>8 DEF PlayTimer
  <2>1. EventInv'
    OBVIOUS
  <2>2. ServiceInv'
    OBVIOUS
  <2>3. MacroInv'
    OBVIOUS
  <2>4. LoopsInv' /\ FlagInv'
    OBVIOUS
  <2>5. HoldInv'
    OBVIOUS
  <2>6. LeftInv'
    OBVIOUS
  <2> QED
    BY <2>1, <2>2, <2>3, <2>4, <2>5, <2>6
<1>9. CASE PlayLoop
  BY <1>9 DEF PlayLoop
<1>10. CASE PlayData
  BY <1>10 DEF PlayData
<1>11. CASE PlayTime
  BY <1>11 DEF PlayTime
<1>12. CASE PlayWrite
  BY <1>12 DEF PlayWrite
<1>13. CASE PlayStop
  BY <1>13 DEF PlayStop
<1>14. CASE Unpublish
  BY <1>14 DEF Unpublish, Unpoint
<1>15. CASE Unvideo
  BY <1>15 DEF Unvideo, Unpoint
<1>16. CASE CloseFile
  BY <1>16 DEF CloseFile, Release
<1>17. CASE PlayEnd
  <2> USE <1>17 DEF PlayEnd, Return
  <2>1. EventInv'
    OBVIOUS
  <2>2. ServiceInv'
    OBVIOUS
  <2>3. MacroInv'
    OBVIOUS
  <2>4. LoopsInv' /\ FlagInv'
    OBVIOUS
  <2>5. HoldInv'
    OBVIOUS
  <2>6. LeftInv'
    OBVIOUS
  <2> QED
    BY <2>1, <2>2, <2>3, <2>4, <2>5, <2>6
<1> QED
  BY <1>1, <1>2, <1>3, <1>4, <1>5, <1>6, <1>7, <1>8, <1>9, <1>10, <1>11, <1>12,
     <1>13, <1>14, <1>15, <1>16, <1>17 DEF PlayRuns

LEMMA RecordBooks == PointInv /\ BookInv /\ RecordRuns => BookInv'
<1> SUFFICES ASSUME PointInv, BookInv, RecordRuns PROVE BookInv'
  OBVIOUS
<1> USE DEF PointInv, BareInv, BookInv, EventInv, ServiceInv, MacroInv,
            LoopsInv, FlagInv, HoldInv, LeftInv, PlayKeeps, Local, fileVars, Keep,
            PGoto, Setup, RecordKeeps, VideoEnds, Steps, Ends, Return, ResetReadCodec
<1>1. CASE RecordVideo
  <2> USE <1>1 DEF RecordVideo
  <2>1. EventInv'
    OBVIOUS
  <2>2. ServiceInv'
    OBVIOUS
  <2>3. MacroInv'
    OBVIOUS
  <2>4. LoopsInv' /\ FlagInv'
    OBVIOUS
  <2>5. HoldInv'
    OBVIOUS
  <2>6. LeftInv'
    OBVIOUS
  <2> QED
    BY <2>1, <2>2, <2>3, <2>4, <2>5, <2>6
<1>2. CASE RecordOpen
  <2> USE <1>2 DEF RecordOpen, Acquire
  <2>1. EventInv'
    OBVIOUS
  <2>2. ServiceInv'
    OBVIOUS
  <2>3. MacroInv'
    OBVIOUS
  <2>4. LoopsInv' /\ FlagInv'
    OBVIOUS
  <2>5. HoldInv'
    OBVIOUS
  <2>6. LeftInv'
    OBVIOUS
  <2> QED
    BY <2>1, <2>2, <2>3, <2>4, <2>5, <2>6
<1>3. CASE RecordIndication
  <2> USE <1>3 DEF RecordIndication
  <2>1. EventInv'
    OBVIOUS
  <2>2. ServiceInv'
    OBVIOUS
  <2>3. MacroInv'
    OBVIOUS
  <2>4. LoopsInv' /\ FlagInv'
    OBVIOUS
  <2>5. HoldInv'
    OBVIOUS
  <2>6. LeftInv'
    OBVIOUS
  <2> QED
    BY <2>1, <2>2, <2>3, <2>4, <2>5, <2>6
<1>4. CASE RecordFiles
  BY <1>4 DEF RecordFiles
<1>5. CASE RecordCodec
  <2> USE <1>5 DEF RecordCodec
  <2>1. EventInv'
    OBVIOUS
  <2>2. ServiceInv'
    OBVIOUS
  <2>3. MacroInv'
    OBVIOUS
  <2>4. LoopsInv' /\ FlagInv'
    OBVIOUS
  <2>5. HoldInv'
    OBVIOUS
  <2>6. LeftInv'
    OBVIOUS
  <2> QED
    BY <2>1, <2>2, <2>3, <2>4, <2>5, <2>6
<1>6. CASE RecordFailed
  BY <1>6 DEF RecordFailed
<1>7. CASE RecordStart
  BY <1>7 DEF RecordStart
<1>8. CASE RecordLoop
  BY <1>8 DEF RecordLoop
<1>9. CASE RecordShow
  BY <1>9 DEF RecordShow
<1>10. CASE RecordWrite
  BY <1>10 DEF RecordWrite, Release
<1>11. CASE RecordStop
  BY <1>11 DEF RecordStop
<1>12. CASE RecordClose
  BY <1>12 DEF RecordClose, Release
<1>13. CASE RecordEnd
  BY <1>13 DEF RecordEnd
<1> QED
  BY <1>1, <1>2, <1>3, <1>4, <1>5, <1>6, <1>7, <1>8, <1>9, <1>10, <1>11, <1>12,
     <1>13 DEF RecordRuns

LEMMA OtherBooks ==
    PointInv /\ BookInv /\ (Speaks \/ TonesLoop \/ TonesEnd \/ DetectRuns \/ MacroEnds) => BookInv'
<1> SUFFICES ASSUME PointInv, BookInv,
                    Speaks \/ TonesLoop \/ TonesEnd \/ DetectRuns \/ MacroEnds
             PROVE  BookInv'
  OBVIOUS
<1>1. CASE Speaks
  <2>1. service' => service
    BY <1>1, Zenon DEF Speaks
  <2>2. UNCHANGED <<ppc, held, refs, started, macro, prefix, ploops, video, decoded, leaked>>
    BY <1>1 DEF Speaks, fileVars
  <2> QED
    BY <2>1, <2>2 DEF BookInv, EventInv, ServiceInv, MacroInv, LoopsInv, FlagInv, HoldInv,
                      LeftInv
<1> USE DEF PointInv, BareInv, BookInv, EventInv, ServiceInv, MacroInv,
            LoopsInv, FlagInv, HoldInv, LeftInv, PlayKeeps, Local, fileVars, Keep, PGoto, Setup, Ends, Return, ResetReadCodec, Release
<1>2. CASE TonesLoop
  BY <1>2 DEF TonesLoop
<1>3. CASE TonesEnd
  BY <1>3 DEF TonesEnd
<1>4. CASE DetectCodec
  BY <1>4 DEF DetectCodec
<1>5. CASE DetectLoop
  BY <1>5 DEF DetectLoop
<1>6. CASE DetectReset
  BY <1>6 DEF DetectReset
<1>7. CASE DetectDestroy
  BY <1>7 DEF DetectDestroy
<1>8. CASE DetectEnd
  BY <1>8 DEF DetectEnd
<1>9. CASE MacroEnds
  BY <1>9 DEF MacroEnds
<1> QED
  BY <1>1, <1>2, <1>3, <1>4, <1>5, <1>6, <1>7, <1>8, <1>9 DEF DetectRuns

LEMMA CallBooks == PointInv /\ BookInv /\ MediaCalls => BookInv'
<1> SUFFICES ASSUME PointInv, BookInv, MediaCalls PROVE BookInv'
  OBVIOUS
<1> USE DEF PointInv, BareInv, BookInv, EventInv, ServiceInv, MacroInv,
            LoopsInv, FlagInv, HoldInv, LeftInv, PlayKeeps, Local, fileVars, PGoto, Begins, SessionFree
<1>1. CASE PlayFile
  BY <1>1 DEF PlayFile
<1>2. CASE Record
  BY <1>2 DEF Record
<1>3. CASE Tones
  BY <1>3 DEF Tones
<1>4. CASE Detect
  BY <1>4 DEF Detect
<1>5. CASE PhraseMacro
  BY <1>5 DEF PhraseMacro
<1> QED
  BY <1>1, <1>2, <1>3, <1>4, <1>5 DEF MediaCalls

LEMMA CommandBooks == PointInv /\ BookInv /\ OtherThreads => BookInv'
<1> SUFFICES ASSUME PointInv, BookInv, OtherThreads PROVE BookInv'
  OBVIOUS
<1>1. CASE Others /\ UNCHANGED playVars
  <2>1. UNCHANGED books
    BY <1>1 DEF playVars, fileVars, books
  <2> QED
    BY <2>1, Unbooked
<1> USE DEF PointInv, BareInv, BookInv, EventInv, ServiceInv, MacroInv,
            LoopsInv, FlagInv, HoldInv, LeftInv, PlayKeeps, Local, fileVars, Commands
<1>2. CASE GetFileHandle
  BY <1>2 DEF GetFileHandle
<1>3. CASE SetSpeed
  BY <1>3 DEF SetSpeed
<1>4. CASE ReleaseFileHandle
  BY <1>4 DEF ReleaseFileHandle
<1> QED
  BY <1>1, <1>2, <1>3, <1>4 DEF OtherThreads

LEMMA NextBooks == PointInv /\ BookInv /\ [Ivr]_ivrVars => BookInv'
<1> SUFFICES ASSUME PointInv, BookInv, [Ivr]_ivrVars PROVE BookInv'
  OBVIOUS
<1>1. CASE MediaRuns \/ MediaCalls \/ OtherThreads
  BY <1>1, PlayBooks, RecordBooks, OtherBooks, CallBooks, CommandBooks DEF MediaRuns
<1>2. CASE AskRuns
  <2> USE DEF books, mediaVars, playVars, fileVars, Asking
  <2>1. CASE Prompt \/ ReadPrompt
    BY <2>1, Unbooked DEF Prompt, ReadPrompt
  <2>2. CASE Wait \/ Sleep \/ Awake
    BY <2>2, Unbooked DEF Wait, Sleep, Awake
  <2>3. CASE CollectReturn \/ AskReturns \/ Try \/ ReadDigits \/ ReadReturns
    BY <2>3, Unbooked DEF CollectReturn, AskReturns, Try, ReadDigits, ReadReturns
  <2> QED
    BY <1>2, <2>1, <2>2, <2>3 DEF AskRuns
<1>3. CASE AskCalls
  <2>1. Asks
    BY <1>3 DEF AskCalls, Collect, GetDigits
  <2> QED
    BY <2>1 DEF Asks, SessionFree, BookInv, EventInv, ServiceInv, MacroInv,
                LoopsInv, FlagInv, HoldInv, LeftInv
<1>4. CASE UNCHANGED ivrVars
  BY <1>4, Unbooked DEF ivrVars, mediaVars, playVars, fileVars, books
<1> QED
  BY <1>1, <1>2, <1>3, <1>4 DEF Ivr

LEMMA Books == IvrSpec => []BookInv
<1>1. IvrSpec => BookInv
  BY InitBooks DEF IvrSpec
<1> QED
  BY <1>1, Points, NextBooks, PTL DEF IvrSpec

-----------------------------------------------------------------------------
(* The third invariant: a speed is noted in the first file of a list only   *)
(* together with the buffer that a later change of the speed empties        *)

SpeedInv ==
    /\ cur \in Nat /\ zeroed # 1
    /\ cur = 0 => last_speed = -1 /\ ppc \notin {"open", "publish"} \cup Published
    /\ cur = 1 /\ ppc \in {"open", "publish"} => last_speed = -1
    /\ cur = 1 /\ ppc \in Published => last_speed = -1 \/ sp

\* What this invariant looks at.
tempo == <<ppc, cur, last_speed, sp, zeroed>>

LEMMA InitSpeeds == IvrInit => SpeedInv
  BY DEF IvrInit, MediaInit, PlayInit, SpeedInv

LEMMA Steady == SpeedInv /\ UNCHANGED tempo => SpeedInv'
  BY DEF tempo, SpeedInv

LEMMA PlaySpeeds == SpeedInv /\ PlayRuns => SpeedInv'
<1> SUFFICES ASSUME SpeedInv, PlayRuns PROVE SpeedInv'
  OBVIOUS
<1> USE DEF SpeedInv, PlayKeeps, SpeedKeeps, PGoto
<1>1. CASE NextFile
  BY <1>1 DEF NextFile
<1>2. CASE (\E n \in TtsNames : Say(n)) \/ SayRefused \/ SayReturns
  BY <1>2 DEF Say, SayRefused, SayReturns, fileVars
<1>3. CASE OpenFile \/ Publish \/ PlayCodec
  BY <1>3 DEF OpenFile, Publish, PlayCodec
<1>4. CASE PlayTimer \/ PlayLoop
  BY <1>4 DEF PlayTimer, PlayLoop
<1>5. CASE PlayData
  <2>1. ppc \in Published /\ ppc' \in Published /\ UNCHANGED cur
    BY <1>5 DEF PlayData
  <2>2. zeroed' # 1
    BY <1>5 DEF PlayData
  <2>3. UNCHANGED <<last_speed, sp>> \/ sp' = TRUE
    BY <1>5 DEF PlayData
  <2> QED
    BY <2>1, <2>2, <2>3
<1>6. CASE PlayTime \/ PlayWrite \/ PlayStop
  BY <1>6 DEF PlayTime, PlayWrite, PlayStop
<1>7. CASE Unpublish \/ Unvideo \/ CloseFile
  BY <1>7 DEF Unpublish, Unvideo, CloseFile
<1>8. CASE PlayEnd
  BY <1>8 DEF PlayEnd, Return
<1> QED
  BY <1>1, <1>2, <1>3, <1>4, <1>5, <1>6, <1>7, <1>8 DEF PlayRuns

\* A recording, tones and a detection keep the speed or return.
LEMMA OtherSpeeds ==
    SpeedInv /\ (RecordRuns \/ TonesLoop \/ TonesEnd \/ DetectRuns) => SpeedInv'
<1> SUFFICES ASSUME SpeedInv, RecordRuns \/ TonesLoop \/ TonesEnd \/ DetectRuns
             PROVE  SpeedInv'
  OBVIOUS
<1> USE DEF SpeedInv, PlayKeeps, SpeedKeeps, PGoto, Setup, RecordKeeps, Steps, Ends,
            Return
<1>1. CASE RecordVideo
  BY <1>1 DEF RecordVideo
<1>2. CASE RecordOpen
  BY <1>2 DEF RecordOpen
<1>3. CASE RecordIndication
  BY <1>3 DEF RecordIndication
<1>4. CASE RecordFiles \/ RecordStart \/ RecordLoop
  BY <1>4 DEF RecordFiles, RecordStart, RecordLoop
<1>5. CASE RecordCodec \/ RecordFailed
  BY <1>5 DEF RecordCodec, RecordFailed
<1>6. CASE RecordShow \/ RecordWrite \/ RecordStop
  BY <1>6 DEF RecordShow, RecordWrite, RecordStop
<1>7. CASE RecordClose \/ RecordEnd
  BY <1>7 DEF RecordClose, RecordEnd
<1>8. CASE TonesLoop \/ TonesEnd
  BY <1>8 DEF TonesLoop, TonesEnd
<1>9. CASE DetectRuns
  BY <1>9 DEF DetectRuns, DetectCodec, DetectLoop, DetectReset, DetectDestroy,
              DetectEnd
<1> QED
  BY <1>1, <1>2, <1>3, <1>4, <1>5, <1>6, <1>7, <1>8, <1>9 DEF RecordRuns

LEMMA CallSpeeds == SpeedInv /\ MediaCalls => SpeedInv'
<1> SUFFICES ASSUME SpeedInv, MediaCalls PROVE SpeedInv'
  OBVIOUS
<1> USE DEF SpeedInv, PGoto, Begins, SessionFree
<1>1. CASE PlayFile \/ Record
  BY <1>1 DEF PlayFile, Record
<1>2. CASE Tones \/ Detect
  BY <1>2 DEF Tones, Detect
<1>3. CASE PhraseMacro
  BY <1>3 DEF PhraseMacro, fileVars
<1> QED
  BY <1>1, <1>2, <1>3 DEF MediaCalls

LEMMA NextSpeeds == SpeedInv /\ [Ivr]_ivrVars => SpeedInv'
<1> SUFFICES ASSUME SpeedInv, [Ivr]_ivrVars PROVE SpeedInv'
  OBVIOUS
<1>1. CASE Speaks \/ MacroEnds \/ OtherThreads
  <2>1. UNCHANGED tempo
    BY <1>1 DEF Speaks, MacroEnds, OtherThreads, GetFileHandle, SetSpeed,
                ReleaseFileHandle, Commands, playVars, fileVars, tempo
  <2> QED
    BY <2>1, Steady
<1>2. CASE MediaRuns \/ MediaCalls
  BY <1>1, <1>2, PlaySpeeds, OtherSpeeds, CallSpeeds DEF MediaRuns
<1>3. CASE AskRuns
  <2> USE DEF tempo, mediaVars, playVars, fileVars, Asking
  <2>1. CASE Prompt \/ ReadPrompt
    BY <2>1, Steady DEF Prompt, ReadPrompt
  <2>2. CASE Wait \/ Sleep \/ Awake
    BY <2>2, Steady DEF Wait, Sleep, Awake
  <2>3. CASE CollectReturn \/ AskReturns \/ Try \/ ReadDigits \/ ReadReturns
    BY <2>3, Steady DEF CollectReturn, AskReturns, Try, ReadDigits, ReadReturns
  <2> QED
    BY <1>3, <2>1, <2>2, <2>3 DEF AskRuns
<1>4. CASE AskCalls
  <2>1. Asks
    BY <1>4 DEF AskCalls, Collect, GetDigits
  <2> QED
    BY <2>1 DEF Asks, SessionFree, SpeedInv
<1>5. CASE UNCHANGED ivrVars
  BY <1>5, Steady DEF ivrVars, mediaVars, playVars, fileVars, tempo
<1> QED
  BY <1>1, <1>2, <1>3, <1>4, <1>5 DEF Ivr

-----------------------------------------------------------------------------
(* The theorems                                                            *)

\* While uuid_fileman has the handle it found on the channel, the file is open:
\* switch_ivr_play_file withdraws the handle under the write lock, which waits
\* for the holder, and closes the file afterwards.
THEOREM CommanderSafe == IvrSpec => []CommanderSeesOpenFile
<1>1. PointInv => CommanderSeesOpenFile
  BY DEF PointInv, WhereInv, BareInv, PlayInv, RecordInv, DetectInv, CommandInv,
         CommanderSeesOpenFile
<1> QED
  BY <1>1, Points, PTL

\* On every path of playing, recording and detecting, whatever fails, the read
\* codec, the video files and the channel's handle are withdrawn before what
\* they point to is destroyed.
THEOREM SessionSafe == IvrSpec => []SessionPointsAtLive
<1>1. PointInv => SessionPointsAtLive
  BY DEF PointInv, WhereInv, BareInv, PlayInv, RecordInv, DetectInv, CommandInv,
         SessionPointsAtLive
<1> QED
  BY <1>1, Points, PTL

\* Whichever way a function returns, the session has its codec, its video files,
\* the channel's prefix and the absorbing thread's end back, and what is lost is
\* what a recording loses: the recursion counter goes one too low exactly when no
\* video came, and CF_VIDEO_DECODED_READ stays raised once exactly when the channel
\* had video.
THEOREM ReturnsCorrect == IvrSpec => []ReturnsClean
<1>1. PointInv /\ BookInv => ReturnsClean
  BY DEF PointInv, BareInv, BookInv, EventInv, ServiceInv, MacroInv, LoopsInv,
         FlagInv, HoldInv, LeftInv, ReturnsClean
<1> QED
  BY <1>1, Points, Books, PTL

\* In the first file of a list sp_audio_buffer exists whenever it is emptied,
\* whatever speeds uuid_fileman sets and whenever it sets them: last_speed is
\* noted only where the buffer is created.  (For a later file it does not hold:
\* the buffer goes with the file that closes, last_speed stays.)
THEOREM SpeedCorrect == IvrSpec => []FirstFileKeepsSpeed
<1>1. SpeedInv => FirstFileKeepsSpeed
  BY DEF SpeedInv, FirstFileKeepsSpeed
<1> QED
  BY <1>1, InitSpeeds, NextSpeeds, PTL DEF IvrSpec
=============================================================================
