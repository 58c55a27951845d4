------------------------------ MODULE PlayFile ------------------------------
(***************************************************************************)
(* The functions of switch_ivr_play_say.c that play and record files on the *)
(* session thread: switch_ivr_play_file, switch_ivr_record_file_event,      *)
(* switch_ivr_gentones, switch_ivr_wait_for_silence, _detect_audio and      *)
(* _detect_silence, and switch_ivr_phrase_macro_event, whose actions call   *)
(* them.  A file of play_file whose name starts with "say:" calls           *)
(* switch_ivr_speak_text, which is module SpeakText.                       *)
(*                                                                         *)
(* A call holds resources (files, codecs, a timer, a buffer) that live on  *)
(* its stack, and leaves pointers to them in the session, where other      *)
(* threads find them: the video thread the video files, the media threads  *)
(* the read codec, and uuid_fileman the channel's "__fh" handle, which it  *)
(* takes with switch_ivr_get_file_handle.  Audio data is left out.         *)
(***************************************************************************)
EXTENDS SpeakText

CONSTANTS
    MaxFiles,   \* bound: files of one switch_ivr_play_file
    MediaFaults \* what may go wrong with a file, a codec or a timer

MediaFaultKinds ==
    {"file",          \* switch_core_file_open fails
     "raw_codec",     \* switch_core_codec_init fails
     "file_timer",    \* switch_core_timer_init fails
     "video_params"}  \* no video comes in within ten seconds

ASSUME PlayFileAssumption ==
    MaxFiles \in Nat \ {0} /\ MediaFaults \subseteq MediaFaultKinds

VARIABLES
    ppc,
    held,       \* the resources of the running call
    refs,       \* what the session and its channel point to
    cur, left,  \* files begun and still to play
    done,       \* play_file's done: no other file
    with_timer, service,  \* timer_name; did play_file start the absorbing thread?
    started,    \* a START event without its STOP
    speed, last_speed, sp,  \* fh->speed, its last value used, fh->sp_audio_buffer
    zeroed,     \* the file in which a missing sp_audio_buffer was emptied, or 0
    ploops,     \* what the running function adds to args->loops
    video,      \* the running record: "no" video channel, or video "in" or "missing"
    decoded,    \* what the running function adds to CF_VIDEO_DECODED_READ
    leaked,     \* what the last call left behind
    macro, prefix,        \* a phrase macro runs; the channel's sound_prefix
    cmd         \* does uuid_fileman hold the channel's file handle?

fileVars == <<cur, left, done, with_timer, started, speed, last_speed, sp,
              zeroed, video, decoded>>
playVars == <<ppc, held, refs, fileVars, service, ploops, leaked, macro, prefix,
              cmd>>
\* What a step of these functions leaves alone: switch_ivr_speak_text.
speaking == <<pc, place, need_create, timer_name, resources, absorber, loops>>

PlayInit ==
    /\ ppc = "idle" /\ held = {} /\ refs = {}
    /\ cur = 0 /\ left = 0 /\ done = FALSE
    /\ with_timer = FALSE /\ service = FALSE /\ started = FALSE
    /\ speed = 0 /\ last_speed = -1 /\ sp = FALSE /\ zeroed = 0
    /\ ploops = 0 /\ video = "no" /\ decoded = 0 /\ leaked = {}
    /\ macro = FALSE /\ prefix = "own" /\ cmd = FALSE

SessionFree == pc = "idle" /\ ppc = "idle"
PGoto(l) == ppc' = l
Keep == UNCHANGED <<speaking, flags, calls, macro, prefix, cmd>>
Acquire(r) == held' = held \cup {r} /\ UNCHANGED refs
Release(r) == held' = held \ {r} /\ UNCHANGED refs
Point(r) == refs' = refs \cup {r} /\ UNCHANGED held
Unpoint(rs) == refs' = refs \ rs /\ UNCHANGED held

\* A call returns: what it still holds is lost.
Return(h) ==
    /\ ppc' = "idle" /\ held' = {} /\ leaked' = h
    /\ cur' = 0 /\ left' = 0 /\ done' = FALSE /\ with_timer' = FALSE
    /\ speed' = 0 /\ last_speed' = -1 /\ sp' = FALSE
    /\ UNCHANGED <<started, zeroed, video, decoded>>

\* switch_core_session_reset with reset_read_codec.
ResetReadCodec == refs' = refs \ {"read_codec"}

\* One more call of the session thread.
Begins ==
    /\ SessionFree /\ calls < MaxCalls /\ calls' = calls + 1
    /\ leaked' = {} /\ video' = "no" /\ decoded' = 0 /\ zeroed' = 0
    /\ UNCHANGED <<speaking, flags, macro, prefix, cmd, cur, done, service,
                   started, speed, last_speed, sp>>

-----------------------------------------------------------------------------
(* switch_ivr_play_file                                                    *)

PlayFile ==
    /\ Begins /\ PreAnswers
    /\ ploops' = 1 /\ left' \in 1..MaxFiles /\ with_timer' \in BOOLEAN
    /\ PGoto("next_file") /\ UNCHANGED <<held, refs>>

Local == UNCHANGED <<service, ploops, leaked>>
PlayKeeps == UNCHANGED <<cur, left, done, with_timer, started, video, decoded>>
SpeedKeeps == UNCHANGED <<speed, last_speed, sp, zeroed>>

\* The next file, unless the channel is gone, the list is at its end or an
\* input ended it: a file to open, a text to speak, or a phrase or a missing
\* engine, after which the loop goes on.  A sleep between two files or a
\* phrase may be interrupted, which ends the list.
NextFile ==
    /\ ppc = "next_file"
    /\ IF hungup \/ done \/ left = 0
       THEN PGoto("play_end") /\ UNCHANGED <<cur, left>>
       ELSE /\ left' = left - 1 /\ cur' = cur + 1
            /\ \/ ppc' \in {"open", "next_file", "play_end"}
               \/ calls < MaxCalls /\ PGoto("say")
    /\ Keep /\ Local /\ SpeedKeeps
    /\ UNCHANGED <<held, refs, done, with_timer, started, video, decoded>>

\* "say:": switch_ivr_speak_text with this channel's timer, then the next
\* file, or the end unless it succeeded.
Say(n) ==
    /\ ppc = "say" /\ Call(n) /\ timer_name' = with_timer
    /\ PGoto("saying")
    /\ UNCHANGED <<held, refs, fileVars, service, ploops, leaked, macro, prefix,
                   cmd>>
SayRefused ==
    /\ ppc = "say" /\ PreAnswerFails /\ PGoto("play_end")
    /\ Keep /\ Local /\ PlayKeeps /\ SpeedKeeps /\ UNCHANGED <<held, refs>>
SayReturns ==
    /\ ppc = "saying" /\ pc = "idle"
    /\ ppc' \in {"next_file", "play_end"}
    /\ Keep /\ Local /\ PlayKeeps /\ SpeedKeeps /\ UNCHANGED <<held, refs>>

\* The file or its backup is opened; otherwise the next one is tried.
OpenFile ==
    /\ ppc = "open"
    /\ \/ Acquire("fh") /\ PGoto("publish")
       \/ "file" \in MediaFaults /\ PGoto("next_file") /\ UNCHANGED <<held, refs>>
    /\ Keep /\ Local /\ PlayKeeps /\ SpeedKeeps

\* The channel's "__fh" is set under the session's write lock, which waits
\* for a uuid_fileman that has the handle.  A video file goes to the session.
Publish ==
    /\ ppc = "publish" /\ ~cmd
    /\ refs' \in {refs \cup {"__fh"}, refs \cup {"__fh", "video_write"}}
    /\ held' = held \cup {"abuf"}
    /\ PGoto("raw_codec")
    /\ Keep /\ Local /\ PlayKeeps /\ SpeedKeeps

\* One codec for all the files; a native file of variable length is refused.
PlayCodec ==
    /\ ppc = "raw_codec"
    /\ \/ Acquire("codec") /\ ppc' \in {"file_timer", "unpublish"}
       \/ /\ "codec" \notin held /\ "raw_codec" \in MediaFaults
          /\ PGoto("unpublish") /\ UNCHANGED <<held, refs>>
    /\ Keep /\ Local /\ PlayKeeps /\ SpeedKeeps

\* One timer too; with it a thread absorbs the incoming audio.  The playback
\* starts, with an empty audio_buffer.
PlayTimer ==
    /\ ppc = "file_timer"
    /\ \/ /\ held' = IF with_timer THEN held \cup {"timer"} ELSE held
          /\ service' = (service \/ with_timer)
          /\ started' = TRUE
          /\ PGoto("play_loop")
       \/ /\ with_timer /\ "timer" \notin held /\ "file_timer" \in MediaFaults
          /\ held' = held \ {"codec"}
          /\ PGoto("unpublish")
          /\ UNCHANGED <<service, started>>
    /\ Keep /\ SpeedKeeps
    /\ UNCHANGED <<refs, ploops, leaked, cur, left, done, with_timer, video, decoded>>

\* Hangup, break (of this file or of the list), input: a digit or an event
\* whose handler stops the playback; a digit machine only stops this file.
PlayLoop ==
    /\ ppc = "play_loop"
    /\ \/ hungup /\ PGoto("play_stop") /\ UNCHANGED <<CF_BREAK, done>>
       \/ /\ ~hungup /\ CF_BREAK /\ CF_BREAK' = FALSE
          /\ done' \in BOOLEAN
          /\ PGoto("play_stop")
       \/ /\ ~hungup /\ ~CF_BREAK
          /\ done' = TRUE
          /\ PGoto("play_stop") /\ UNCHANGED CF_BREAK
       \/ /\ ~hungup /\ ~CF_BREAK
          /\ ppc' \in {"play_stop", "play_data"}
          /\ UNCHANGED <<CF_BREAK, done>>
    /\ Local /\ SpeedKeeps
    /\ UNCHANGED <<speaking, hungup, CF_HOLD, paused, calls, macro, prefix, cmd,
                   held, refs, cur, left, with_timer, started, video, decoded>>

\* Mutant: the speed is noted when it is looked at, not when it is applied.
PlayDataNotes ==
    /\ ppc = "play_data"
    /\ \/ ppc' \in {"play_stop", "play_loop"} /\ SpeedKeeps
       \/ PGoto("play_time") /\ SpeedKeeps
       \/ /\ zeroed' = IF last_speed \notin {-1, speed} /\ ~sp THEN cur ELSE zeroed
          /\ last_speed' = speed
          /\ \/ PGoto("play_time") /\ UNCHANGED sp
             \/ speed # 0 /\ sp' = TRUE /\ PGoto("play_loop")
          /\ UNCHANGED speed
    /\ Keep /\ Local /\ PlayKeeps /\ UNCHANGED <<held, refs>>

\* The next frame: silence while paused, or from one of the two buffers or the
\* file, which may be at its end.  A changed speed empties sp_audio_buffer;
\* with a speed, fresh audio goes through that buffer.
PlayData ==
    /\ ppc = "play_data"
    /\ \/ ppc' \in {"play_stop", "play_loop"} /\ SpeedKeeps
       \/ PGoto("play_time") /\ SpeedKeeps    \* a native file
       \/ /\ zeroed' = IF last_speed \notin {-1, speed} /\ ~sp THEN cur ELSE zeroed
          /\ \/ PGoto("play_time") /\ UNCHANGED <<last_speed, sp>>
             \/ /\ speed # 0 /\ sp' = TRUE /\ last_speed' = speed
                /\ PGoto("play_loop")
          /\ UNCHANGED speed
    /\ Keep /\ Local /\ PlayKeeps /\ UNCHANGED <<held, refs>>

\* A frame's time passes on the timer, or off the channel once it is not on
\* hold; a read error, the digit machine or the read callback stop the file.
PlayTime ==
    /\ ppc = "play_time"
    /\ with_timer \/ hungup \/ ~CF_HOLD
    /\ ppc' \in {"play_write", "play_stop"}
    /\ Keep /\ Local /\ PlayKeeps /\ SpeedKeeps /\ UNCHANGED <<held, refs>>

\* The frame is written; a failure or the playback's timeout ends the list.
PlayWrite ==
    /\ ppc = "play_write"
    /\ \/ PGoto("play_loop") /\ UNCHANGED done
       \/ PGoto("play_stop") /\ done' = TRUE
    /\ Keep /\ Local /\ SpeedKeeps
    /\ UNCHANGED <<held, refs, cur, left, with_timer, started, video, decoded>>

PlayStop ==
    /\ ppc = "play_stop"
    /\ started' = FALSE /\ PGoto("unpublish")
    /\ Keep /\ Local /\ SpeedKeeps
    /\ UNCHANGED <<held, refs, cur, left, done, with_timer, video, decoded>>

\* Mutant: the video file stays set while its file is closed.
UnvideoForgets ==
    /\ ppc = "unvideo" /\ PGoto("close")
    /\ Keep /\ Local /\ PlayKeeps /\ SpeedKeeps /\ UNCHANGED <<held, refs>>

\* Mutant: the handle is withdrawn without the write lock.
UnpublishUnlocked ==
    /\ ppc = "unpublish"
    /\ Unpoint({"__fh"}) /\ PGoto("unvideo")
    /\ Keep /\ Local /\ PlayKeeps /\ SpeedKeeps

\* The handle is withdrawn under the write lock, the video file after it; then
\* the file is closed and its buffers are destroyed.
Unpublish ==
    /\ ppc = "unpublish" /\ ~cmd
    /\ Unpoint({"__fh"}) /\ PGoto("unvideo")
    /\ Keep /\ Local /\ PlayKeeps /\ SpeedKeeps
Unvideo ==
    /\ ppc = "unvideo"
    /\ Unpoint({"video_write"}) /\ PGoto("close")
    /\ Keep /\ Local /\ PlayKeeps /\ SpeedKeeps
CloseFile ==
    /\ ppc = "close"
    /\ Release("fh") /\ sp' = FALSE /\ PGoto("next_file")
    /\ Keep /\ Local /\ PlayKeeps /\ UNCHANGED <<speed, last_speed, zeroed>>

\* Mutant: the absorbing thread is left running.
PlayEndAbsorbs ==
    /\ ppc = "play_end"
    /\ Return(held \ {"codec", "timer", "abuf"}) /\ ploops' = ploops - 1
    /\ UNCHANGED service /\ Keep /\ UNCHANGED refs

\* The codec, the timer with its thread and the buffer go.
PlayEnd ==
    /\ ppc = "play_end"
    /\ Return(held \ {"codec", "timer", "abuf"}) /\ ploops' = ploops - 1
    /\ service' = (service /\ "timer" \notin held)
    /\ Keep /\ UNCHANGED refs

-----------------------------------------------------------------------------
(* switch_ivr_get_file_handle, a command and switch_ivr_release_file_handle *)
(* of another thread, which hold the session's read lock in between         *)

Commands == UNCHANGED <<vars, ppc, held, refs, cur, left, done, with_timer,
                        started, last_speed, sp, zeroed, video, decoded, service,
                        ploops, leaked, macro, prefix>>
GetFileHandle == "__fh" \in refs /\ ~cmd /\ cmd' = TRUE /\ UNCHANGED speed /\ Commands
SetSpeed == cmd /\ speed' \in {0, 1} /\ UNCHANGED cmd /\ Commands
ReleaseFileHandle == cmd /\ cmd' = FALSE /\ UNCHANGED speed /\ Commands

-----------------------------------------------------------------------------
(* switch_ivr_record_file_event                                            *)

Record ==
    /\ Begins /\ PreAnswers
    /\ ploops' = 1 /\ PGoto("rec_video")
    /\ UNCHANGED <<held, refs, left, with_timer>>

Setup == Keep /\ PlayKeeps /\ SpeedKeeps /\ UNCHANGED <<service, ploops, leaked>>
\* What a step that changes the decoding flag leaves alone.
RecordKeeps ==
    /\ SpeedKeeps
    /\ UNCHANGED <<cur, left, done, with_timer, started, video, service, ploops,
                   leaked>>
Ends(h) == Return(h) /\ ploops' = ploops - 1 /\ UNCHANGED service
Steps(l) ==
    /\ PGoto(l) /\ PlayKeeps /\ SpeedKeeps /\ UNCHANGED <<service, ploops, leaked>>

\* A native recording of variable length is refused.  On a video channel the
\* decoding flag, which counts, is raised; when no video comes in, the recursion
\* check is stopped and the recording goes on.
RecordVideo ==
    /\ ppc = "rec_video" /\ Keep /\ UNCHANGED held
    /\ \/ Steps("rec_open") /\ UNCHANGED refs
       \/ Ends({}) /\ ResetReadCodec
       \/ /\ decoded' = decoded + 1
          /\ \/ video' = "in" /\ UNCHANGED ploops
             \/ /\ "video_params" \in MediaFaults
                /\ video' = "missing" /\ ploops' = ploops - 1
          /\ PGoto("rec_open") /\ SpeedKeeps
          /\ UNCHANGED <<refs, cur, left, done, with_timer, started, service,
                         leaked>>

\* A file that cannot be opened hangs the channel up.
RecordOpen ==
    /\ ppc = "rec_open"
    /\ \/ Acquire("fh") /\ Steps("rec_indication") /\ UNCHANGED hungup
       \/ "file" \in MediaFaults /\ hungup' = TRUE /\ Ends(held) /\ ResetReadCodec
    /\ UNCHANGED <<speaking, CF_BREAK, CF_HOLD, paused, calls, macro, prefix, cmd>>

\* The indication's file, and the codec that it, comfort noise or the wasted
\* resources are written with, unless all of that is switched off after the file
\* was opened.  When that codec fails the call returns at once.
RecordIndication ==
    /\ ppc = "rec_indication" /\ Keep /\ UNCHANGED refs
    /\ \/ held' = held \cup {"write_codec"} /\ Steps("rec_files")
       \/ held' = held \cup {"write_codec", "ind_fh"} /\ Steps("rec_files")
       \/ held' = held \cup {"ind_fh"} /\ Steps("rec_files")
       \/ UNCHANGED held /\ Steps("rec_files")
       \/ "raw_codec" \in MediaFaults
          /\ \/ Ends(held \cup {"no_write_codec"})
             \/ Ends(held \cup {"no_write_codec", "ind_fh"})

\* A file with video: another file to show, or the caller's own picture, for which
\* the decoding flag is raised once more; without video a video channel is blanked.
\* (CF_VIDEO is looked at again: it may have changed since the first time.)
RecordFiles ==
    /\ ppc = "rec_files" /\ Keep /\ RecordKeeps /\ PGoto("rec_codec")
    /\ \/ UNCHANGED <<held, refs, decoded>>
       \/ refs' = refs \cup {"blank"} /\ UNCHANGED <<held, decoded>>
       \/ /\ refs' = refs \cup {"echo", "video_read"} /\ decoded' = decoded + 1
          /\ UNCHANGED held
       \/ /\ refs' = refs \cup {"video_read", "video_write"}
          /\ held' = held \cup {"vfh"} /\ UNCHANGED decoded

Video == {"echo", "blank", "video_read", "video_write"}
\* The video files and flags go, the decoding flag by one with the echo.
VideoEnds ==
    /\ refs' = refs \ Video
    /\ decoded' = IF "echo" \in refs THEN decoded - 1 ELSE decoded

\* Unless the file is native, the session reads through the call's codec.
RecordCodec ==
    /\ ppc = "rec_codec" /\ Keep /\ RecordKeeps
    /\ \/ /\ held' = held \cup {"rec_codec"} /\ refs' = refs \cup {"read_codec"}
          /\ PGoto("rec_start") /\ UNCHANGED decoded
       \/ PGoto("rec_start") /\ UNCHANGED <<held, refs, decoded>>
       \/ /\ "raw_codec" \in MediaFaults
          /\ VideoEnds /\ PGoto("rec_failed") /\ UNCHANGED held
RecordFailed ==
    /\ ppc = "rec_failed" /\ Keep
    /\ Ends(held \ {"fh"}) /\ ResetReadCodec
RecordStart ==
    /\ ppc = "rec_start" /\ Keep /\ Local /\ SpeedKeeps
    /\ started' = TRUE /\ PGoto("rec_loop")
    /\ UNCHANGED <<held, refs, cur, left, done, with_timer, video, decoded>>

\* Hangup, break, limit, input, read errors and silence end the loop, as does
\* a write error further down.
RecordLoop ==
    /\ ppc = "rec_loop"
    /\ \/ hungup /\ PGoto("rec_stop") /\ UNCHANGED CF_BREAK
       \/ ~hungup /\ CF_BREAK /\ CF_BREAK' = FALSE /\ PGoto("rec_stop")
       \/ ~hungup /\ ~CF_BREAK /\ ppc' \in {"rec_stop", "rec_show"}
          /\ UNCHANGED CF_BREAK
    /\ Local /\ PlayKeeps /\ SpeedKeeps
    /\ UNCHANGED <<speaking, hungup, CF_HOLD, paused, calls, macro, prefix, cmd,
                   held, refs>>

\* The file shown starts over at its end, under the video file's lock; when
\* that fails it is withdrawn.
RecordShow ==
    /\ ppc = "rec_show" /\ Setup
    /\ \/ UNCHANGED <<held, refs>>
       \/ /\ "vfh" \in held /\ "file" \in MediaFaults
          /\ held' = held \ {"vfh"} /\ refs' = refs \ {"video_write"}
    /\ PGoto("rec_write")

\* A frame of the indication, until its end, and of the recording.
RecordWrite ==
    /\ ppc = "rec_write" /\ Setup
    /\ \/ UNCHANGED <<held, refs>>
       \/ "ind_fh" \in held /\ Release("ind_fh")
    /\ ppc' \in {"rec_loop", "rec_stop"}

\* The write codec and the video files go, then the file, then the codec is
\* taken from the session; nothing destroys it.
RecordStop ==
    /\ ppc = "rec_stop" /\ Keep /\ RecordKeeps
    /\ held' = held \ {"write_codec"} /\ VideoEnds
    /\ PGoto("rec_close")
RecordClose ==
    /\ ppc = "rec_close" /\ Keep /\ Local /\ SpeedKeeps
    /\ Release("fh") /\ started' = FALSE /\ PGoto("rec_end")
    /\ UNCHANGED <<cur, left, done, with_timer, video, decoded>>
RecordEnd ==
    /\ ppc = "rec_end" /\ Keep
    /\ Ends(held) /\ ResetReadCodec

-----------------------------------------------------------------------------
(* switch_ivr_gentones: the recursion check starts after the codec          *)

Tones ==
    /\ Begins /\ PreAnswers /\ UNCHANGED <<refs, left, with_timer>>
    /\ \/ held' = {"write_codec", "audio_buffer"} /\ ploops' = 1 /\ PGoto("tones")
       \/ "raw_codec" \in MediaFaults /\ ploops' = 0 /\ UNCHANGED <<held, ppc>>
TonesLoop ==
    /\ ppc = "tones"
    /\ \/ hungup /\ PGoto("tones_end") /\ UNCHANGED CF_BREAK
       \/ ~hungup /\ CF_BREAK /\ CF_BREAK' = FALSE /\ PGoto("tones_end")
       \/ ~hungup /\ ~CF_BREAK /\ ppc' \in {"tones", "tones_end"}
          /\ UNCHANGED CF_BREAK
    /\ Local /\ PlayKeeps /\ SpeedKeeps
    /\ UNCHANGED <<speaking, hungup, CF_HOLD, paused, calls, macro, prefix, cmd,
                   held, refs>>
TonesEnd ==
    /\ ppc = "tones_end" /\ Keep /\ UNCHANGED refs
    /\ Ends(held \ {"write_codec", "audio_buffer"})

-----------------------------------------------------------------------------
(* switch_ivr_wait_for_silence, _detect_audio and _detect_silence, which    *)
(* neither answer the channel nor check the recursion                       *)

Detect ==
    /\ Begins /\ ploops' = 0 /\ UNCHANGED <<refs, left, with_timer>>
    /\ \/ UNCHANGED held /\ PGoto("detect_codec")
       \/ held' = {"fh", "abuf"} /\ PGoto("detect_codec")
       \/ "file" \in MediaFaults /\ UNCHANGED <<held, ppc>>
DetectCodec ==
    /\ ppc = "detect_codec" /\ Setup
    /\ \/ /\ held' = held \cup {"codec"} /\ refs' = refs \cup {"read_codec"}
          /\ PGoto("detect_loop")
       \/ "raw_codec" \in MediaFaults /\ PGoto("detect_end") /\ UNCHANGED <<held, refs>>

\* A hangup, a read, file or write error, the timeout and enough hits end it.
DetectLoop ==
    /\ ppc = "detect_loop" /\ Setup /\ UNCHANGED <<held, refs>>
    /\ \/ PGoto("detect_reset")
       \/ ~hungup /\ UNCHANGED ppc

DetectReset ==
    /\ ppc = "detect_reset" /\ Setup
    /\ ResetReadCodec /\ UNCHANGED held /\ PGoto("detect_destroy")
DetectDestroy ==
    /\ ppc = "detect_destroy" /\ Setup
    /\ Release("codec") /\ PGoto("detect_end")
DetectEnd ==
    /\ ppc = "detect_end" /\ Keep /\ UNCHANGED <<refs, service, ploops>>
    /\ Return(held \ {"fh", "abuf"})

-----------------------------------------------------------------------------
(* switch_ivr_phrase_macro_event: its actions are the calls made while      *)
(* macro is TRUE; it ends after any of them                                 *)

\* Everything up to the sound_prefix may fail and then restores nothing; later
\* failures end the macro at once.  The prefix is the language's or the
\* group's unless the channel enforces its own.
PhraseMacro ==
    /\ SessionFree /\ ~macro /\ calls < MaxCalls /\ calls' = calls + 1
    /\ \/ macro' = TRUE /\ PreAnswers /\ prefix' \in {"own", "macro"}
       \/ UNCHANGED <<macro, prefix>>
    /\ UNCHANGED <<speaking, flags, ppc, held, refs, fileVars, service, ploops,
                   leaked, cmd>>
MacroEnds ==
    /\ SessionFree /\ macro /\ macro' = FALSE /\ prefix' = "own"
    /\ UNCHANGED <<vars, ppc, held, refs, fileVars, service, ploops, leaked, cmd>>

-----------------------------------------------------------------------------
(* The session thread and the others                                       *)

\* The steps of switch_ivr_speak_text, on its own or within "say:"; when it ends
\* the absorbing thread it ends it for the playback too.
Speaks ==
    /\ \/ pc \notin {"idle", "gone"} /\ SessionRuns
       \/ ppc = "idle" /\ ~macro /\ EndSession
       \/ ppc = "idle" /\ (CallRefused \/ \E n \in TtsNames : Call(n))
    /\ service' = (service /\ (absorber => absorber'))
    /\ UNCHANGED <<ppc, held, refs, fileVars, ploops, leaked, macro, prefix, cmd>>

PlayRuns ==
    \/ NextFile \/ (\E n \in TtsNames : Say(n)) \/ SayRefused \/ SayReturns
    \/ OpenFile \/ Publish \/ PlayCodec \/ PlayTimer \/ PlayLoop \/ PlayData
    \/ PlayTime \/ PlayWrite \/ PlayStop \/ Unpublish \/ Unvideo \/ CloseFile
    \/ PlayEnd
RecordRuns ==
    \/ RecordVideo \/ RecordOpen \/ RecordIndication \/ RecordFiles
    \/ RecordCodec \/ RecordFailed \/ RecordStart \/ RecordLoop \/ RecordShow
    \/ RecordWrite \/ RecordStop \/ RecordClose \/ RecordEnd
\* The three detectors differ only in what they count before they stop.
DetectRuns ==
    \/ DetectCodec \/ DetectLoop \/ DetectReset \/ DetectDestroy \/ DetectEnd

MediaRuns ==
    \/ Speaks \/ PlayRuns \/ RecordRuns \/ TonesLoop \/ TonesEnd \/ DetectRuns
    \/ MacroEnds
MediaCalls == PlayFile \/ Record \/ Tones \/ Detect \/ PhraseMacro
\* A hangup and a break come at any time; a hold matters, and is changed, only
\* while something is played or spoken, a pause only while something is spoken
\* (PlayData allows a silent frame at any time).
OtherThreads ==
    \/ /\ Others /\ UNCHANGED playVars
       /\ pc \notin {"idle", "gone"} \/ ppc = "play_time" \/ CF_HOLD' = CF_HOLD
       /\ pc \notin {"idle", "gone"} \/ paused' = paused
    \/ GetFileHandle \/ SetSpeed \/ ReleaseFileHandle

MediaInit == Init /\ PlayInit
MediaNext == MediaRuns \/ MediaCalls \/ OtherThreads
MediaSpec == MediaInit /\ [][MediaNext]_<<vars, playVars>>

-----------------------------------------------------------------------------
(* Properties                                                              *)

\* While uuid_fileman has the handle that it found on the channel, the file is
\* open, although the session thread closes it as soon as the playback stops.
CommanderSeesOpenFile == cmd => "fh" \in held

\* Whatever the session points to is alive: the read codec and the video files
\* are withdrawn before they are destroyed, on every path.
SessionPointsAtLive ==
    /\ "__fh" \in refs => "fh" \in held
    /\ "read_codec" \in refs => {"codec", "rec_codec"} \cap held # {}
    /\ "video_read" \in refs => "fh" \in held
    /\ "video_write" \in refs =>
           (IF "abuf" \in held THEN "fh" ELSE "vfh") \in held

\* Whichever way a function returns, the session has its own codec, no video
\* file, echo or blank, macro's prefix or absorbing thread is left, and each START
\* has its STOP.  The recursion counter is back, except that it is one too low
\* after a recording that got no video; CF_VIDEO_DECODED_READ is back, except that
\* every recording on a video channel, whether it fails, succeeds or echoes,
\* leaves it raised once more.  What else a call leaves behind are a recording's
\* codec, its indication and video files and, when a codec fails, its write codec
\* or, when that one fails, its file.
ReturnsClean ==
    ppc = "idle" =>
        /\ refs = {} /\ ~started /\ ~service
        /\ macro \/ prefix = "own"
        /\ ploops = IF video = "missing" THEN -1 ELSE 0
        /\ decoded = IF video = "no" THEN 0 ELSE 1
        /\ leaked \subseteq {"rec_codec", "ind_fh", "vfh", "write_codec", "fh",
                             "no_write_codec"}
        /\ "fh" \in leaked => "no_write_codec" \in leaked

\* In the first file of a list the sp_audio_buffer that is emptied exists,
\* however uuid_fileman changes the speed.
FirstFileKeepsSpeed == zeroed # 1
=============================================================================
