---------------------------- MODULE MCAudioQueue ----------------------------
(***************************************************************************)
(* Instances of AudioQueue for TLC.  The unit is half a 20 ms frame: reads *)
(* ask for 2, media bug frames are 1 or 2, and the buffer holds 5, so that *)
(* the buffer can be full with a half frame to spare.                      *)
(***************************************************************************)
EXTENDS AudioQueue

CONSTANTS session, ws

MCWriteSizes == {1, 2}
OneWriter == {session}
ReaderClears == {ws}
=============================================================================
