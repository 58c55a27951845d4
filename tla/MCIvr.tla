------------------------------ MODULE MCIvr ------------------------------
(* Two calls of the session thread, two engines, lists of two files, two   *)
(* digits and two events of the recognizer; everything may fail except     *)
(* pre_answer on a channel that is up.                                     *)
EXTENDS CollectInput

Engines == {"aliyuntts", "flite"}
Failures == {"open", "codec", "timer"}
MediaFailures == {"file", "raw_codec", "file_timer", "video_params"}
Results == {"begin-speaking", "partial", "text", "no-text", "closed"}
NoMatch == {"begin-speaking", "no-text"}
None == {}
==========================================================================
