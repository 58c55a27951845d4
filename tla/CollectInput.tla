---------------------------- MODULE CollectInput ----------------------------
(***************************************************************************)
(* The functions of switch_ivr_play_say.c that ask the caller for input:   *)
(* switch_ivr_play_and_collect_input with its callback, which takes digits *)
(* and the events of a speech recognizer, and switch_play_and_get_digits    *)
(* with switch_ivr_read.                                                   *)
(*                                                                         *)
(* The prompt is a switch_ivr_play_file of which only the input handling   *)
(* is kept (PlayFile has the rest).  switch_ivr_sleep and                   *)
(* switch_ivr_collect_digits_count belong to the core: the first handles    *)
(* input as the prompt does until its time is over, the second appends      *)
(* digits up to a terminator, the limit or a timeout.                      *)
(***************************************************************************)
EXTENDS PlayFile, Sequences

CONSTANTS
    MaxDial,        \* bound: digits asked for, and dialled, in a call of these functions
    MaxEvents,      \* bound: events of the recognizer during such a call
    MaxTries,       \* max_tries of switch_play_and_get_digits
    Recognizer      \* the events the recognizer sends

EventKinds == {"begin-speaking", "partial", "text", "no-text", "closed"}

ASSUME CollectInputAssumption ==
    /\ MaxDial \in Nat /\ MaxEvents \in Nat /\ MaxTries \in Nat
    /\ Recognizer \subseteq EventKinds

Digits == {"1", "#"}
Terminators == {"#"}

VARIABLES
    kpc,
    min_digits, max_digits,
    speech,       \* is a recognizer used?
    st,           \* switch_collect_input_state_t, or what pagd has so far
    late,         \* is the digit timeout over since the last digit?
    heard,        \* the digits handed to the callback, in order
    sent,         \* the number of events handed to it
    lost,         \* recognition results overwritten while held
    tries, term_used, var_name,
    out           \* what the last call returned

askVars == <<kpc, min_digits, max_digits, speech, st, late, heard, sent, lost,
             tries, term_used, var_name, out>>
mediaVars == <<vars, playVars>>

\* state = { 0 }, the flags of what is enabled set.
State(digits, asr_on) ==
    [DIGITS_DONE |-> ~digits, SPEECH_DONE |-> ~asr_on, digits |-> <<>>,
     terminator |-> "", is_speech |-> FALSE, result |-> "none"]
Nothing == [of |-> "none", status |-> "", digits |-> <<>>, result |-> "none"]

AskInit ==
    /\ kpc = "idle" /\ min_digits = 0 /\ max_digits = 0 /\ speech = FALSE
    /\ st = State(FALSE, FALSE) /\ late = FALSE
    /\ heard = <<>> /\ sent = 0 /\ lost = {}
    /\ tries = 0 /\ term_used = FALSE /\ var_name = <<>> /\ out = Nothing

-----------------------------------------------------------------------------
(* switch_collect_input_callback                                           *)

DIGITS == min_digits > 0

\* Mutant: a text does not end the wait for digits.
OnEventWaits(s, e) ==
    CASE e = "text"    -> [s EXCEPT !.SPEECH_DONE = TRUE, !.result = "text"]
      [] e = "no-text" -> [s EXCEPT !.SPEECH_DONE = TRUE, !.result = "no-text"]
      [] e = "closed"  -> [s EXCEPT !.SPEECH_DONE = TRUE]
      [] e = "begin-speaking" -> [s EXCEPT !.is_speech = TRUE]
      [] OTHER -> s

\* What an event makes of the state.
OnEvent(s, e) ==
    CASE e = "text"    -> [s EXCEPT !.SPEECH_DONE = TRUE, !.result = "text",
                                    !.DIGITS_DONE = TRUE]
      [] e = "no-text" -> [s EXCEPT !.SPEECH_DONE = TRUE, !.result = "no-text"]
      [] e = "closed"  -> [s EXCEPT !.SPEECH_DONE = TRUE]
      [] e = "begin-speaking" -> [s EXCEPT !.is_speech = TRUE]
      [] OTHER -> s

\* Does it interrupt the prompt or the sleep?
EventBreaks(e, prompt) ==
    e \in {"text", "no-text", "closed"} \/ (e = "begin-speaking" /\ prompt)

\* Mutant: a digit too many is kept.
OnDigitOneMore(s, d) ==
    IF d \in Terminators
    THEN [s EXCEPT !.is_speech = FALSE, !.terminator = d, !.DIGITS_DONE = TRUE,
                   !.SPEECH_DONE = @ \/ s.digits # <<>>]
    ELSE IF s.DIGITS_DONE THEN [s EXCEPT !.is_speech = FALSE]
    ELSE [s EXCEPT !.is_speech = FALSE,
                   !.digits = Append(@, d),
                   !.DIGITS_DONE = Len(s.digits) >= max_digits,
                   !.SPEECH_DONE = @ \/ Len(s.digits) >= max_digits]

\* A terminator ends the digits, and the speech when there are digits; another
\* digit is kept up to max_digits, which ends both.
OnDigit(s, d) ==
    IF d \in Terminators
    THEN [s EXCEPT !.is_speech = FALSE, !.terminator = d, !.DIGITS_DONE = TRUE,
                   !.SPEECH_DONE = @ \/ s.digits # <<>>]
    ELSE IF s.DIGITS_DONE THEN [s EXCEPT !.is_speech = FALSE]
    ELSE LET full == Len(s.digits) + 1 >= max_digits IN
         [s EXCEPT !.is_speech = FALSE,
                   !.digits = IF Len(@) < max_digits THEN Append(@, d) ELSE @,
                   !.DIGITS_DONE = full,
                   !.SPEECH_DONE = @ \/ full]

\* One round of a loop that handles input: the digit d and then the event e, if
\* any, each dialled or sent just before.  It breaks when the callback says so
\* for either.
Dialled == {""} \cup IF Len(heard) < MaxDial /\ DIGITS THEN Digits ELSE {}
Recognized == {""} \cup IF sent < MaxEvents /\ speech THEN Recognizer ELSE {}
AfterDigit(d) == IF d = "" THEN st ELSE OnDigit(st, d)
Round(d, e) ==
    /\ st' = OnEvent(AfterDigit(d), e)
    /\ late' = (late /\ d = "")
    /\ heard' = IF d = "" THEN heard ELSE Append(heard, d)
    /\ sent' = IF e = "" THEN sent ELSE sent + 1
    /\ lost' = IF e \in {"text", "no-text"} /\ st.result # "none"
               THEN lost \cup {st.result} ELSE lost
RoundBreaks(d, e, prompt) == d # "" \/ EventBreaks(e, prompt)
NoRound == UNCHANGED <<st, late, heard, sent, lost>>

-----------------------------------------------------------------------------
(* switch_ivr_play_and_collect_input                                       *)

Config == <<min_digits, max_digits, speech>>
Pagd == <<tries, term_used, var_name>>
AGoto(l) == kpc' = l
\* One more call: nothing is left of the last one.
Asks ==
    /\ kpc = "idle" /\ SessionFree /\ calls < MaxCalls /\ calls' = calls + 1
    /\ leaked' = {} /\ video' = "no" /\ decoded' = 0 /\ zeroed' = 0 /\ ploops' = 0
    /\ UNCHANGED <<speaking, flags, ppc, held, refs, cur, left, done, 
                   with_timer, started, speed, last_speed, sp, service, macro,
                   prefix, cmd>>
Asking == UNCHANGED <<Config, Pagd, out, mediaVars>>

\* The state is set up; without a grammar the call fails at once.  (The
\* recursion check, on the caller's args, and the pausing of the recognizer at
\* the end are left out.)
Collect ==
    /\ Asks
    /\ max_digits' \in 1..MaxDial /\ min_digits' \in 0..max_digits'
    /\ speech' \in BOOLEAN
    /\ st' = State(min_digits' > 0, speech')
    /\ late' = FALSE /\ heard' = <<>> /\ sent' = 0
    /\ lost' = {} /\ out' = Nothing
    /\ AGoto("prompt") \/ (speech' /\ AGoto("failed"))
    /\ UNCHANGED Pagd

\* The prompt is interrupted by the callback or a break, or comes to its end;
\* a missing file or a hangup ends the call.
Prompt ==
    /\ kpc = "prompt"
    /\ \/ hungup /\ kpc' \in {"wait", "failed"} /\ NoRound /\ UNCHANGED CF_BREAK
       \/ ~hungup /\ CF_BREAK /\ CF_BREAK' = FALSE /\ AGoto("wait") /\ NoRound
       \/ /\ ~hungup /\ ~CF_BREAK /\ UNCHANGED CF_BREAK
          /\ \E d \in Dialled, e \in Recognized :
                /\ Round(d, e)
                /\ AGoto(IF RoundBreaks(d, e, TRUE) THEN "wait" ELSE "prompt")
       \/ /\ ~hungup /\ ~CF_BREAK /\ UNCHANGED CF_BREAK
          /\ kpc' \in {"wait", "failed"} /\ NoRound
    /\ UNCHANGED <<Config, Pagd, out, speaking, hungup, CF_HOLD, paused,
                   calls, playVars>>

Finished == st.DIGITS_DONE /\ st.SPEECH_DONE

\* Wait for the final result; the time of the last digit starts anew.
Wait ==
    /\ kpc = "wait"
    /\ IF Finished \/ hungup THEN AGoto("collected") /\ UNCHANGED late
       ELSE AGoto("sleep") /\ late' = FALSE
    /\ UNCHANGED <<st, heard, sent, lost>> /\ Asking

\* switch_ivr_sleep returns: interrupted, or after its time, or without a
\* channel.
Sleep ==
    /\ kpc = "sleep"
    /\ \/ hungup /\ AGoto("awake_gone") /\ NoRound
       \/ /\ ~hungup
          /\ \E d \in Dialled, e \in Recognized :
                /\ d # "" \/ e # ""
                /\ Round(d, e)
                /\ AGoto(IF RoundBreaks(d, e, FALSE) THEN "awake" ELSE "sleep")
       \/ ~hungup /\ AGoto("awake") /\ late' = TRUE
          /\ UNCHANGED <<st, heard, sent, lost>>
    /\ Asking

\* Mutant: the digit timeout is only looked at while speech is pending.
AwakeWaits ==
    /\ kpc \in {"awake", "awake_gone"}
    /\ st' = IF st.terminator # "" THEN [st EXCEPT !.SPEECH_DONE = TRUE]
             ELSE IF ~st.is_speech /\ late /\ ~st.SPEECH_DONE
             THEN [st EXCEPT !.DIGITS_DONE = TRUE]
             ELSE st
    /\ kpc' = IF kpc = "awake_gone" THEN "failed"
              ELSE IF st'.DIGITS_DONE /\ st'.SPEECH_DONE THEN "collected" ELSE "sleep"
    /\ UNCHANGED <<late, heard, sent, lost>> /\ Asking

\* After each sleep: a terminator ends the speech, a timeout without speech the
\* digits.  A hangup fails the call, unless the timeout or the terminator had
\* made it a success.
Awake ==
    /\ kpc \in {"awake", "awake_gone"}
    /\ st' = IF st.terminator # "" THEN [st EXCEPT !.SPEECH_DONE = TRUE]
             ELSE IF ~st.is_speech /\ late THEN [st EXCEPT !.DIGITS_DONE = TRUE]
             ELSE st
    /\ kpc' = IF /\ kpc = "awake_gone"
                 /\ st.terminator = "" /\ (st.is_speech \/ ~late) THEN "failed"
              ELSE IF \/ hungup
                      \/ st'.DIGITS_DONE /\ st'.SPEECH_DONE THEN "collected"
              ELSE "sleep"
    /\ UNCHANGED <<late, heard, sent, lost>> /\ Asking

\* Mutant: the digits are returned without looking at min_digits.
AnswerShort(status) ==
    [of |-> "collect", status |-> status, digits |-> st.digits,
     result |-> IF st.digits # <<>> THEN "deleted" ELSE st.result]

\* Enough digits, or else the recognition result; never both.
Answer(status) ==
    LET enough == st.digits # <<>> /\ Len(st.digits) >= min_digits IN
    [of |-> "collect", status |-> status,
     digits |-> IF enough THEN st.digits ELSE <<>>,
     result |-> IF ~enough THEN st.result
                ELSE IF st.result = "none" THEN "none" ELSE "deleted"]

CollectReturn ==
    /\ kpc \in {"collected", "failed"}
    /\ out' = Answer(IF kpc = "failed" THEN "FALSE" ELSE "SUCCESS")
    /\ AGoto("answer") /\ NoRound
    /\ UNCHANGED <<Config, Pagd, mediaVars>>

\* The caller has the answer.
AskReturns ==
    /\ kpc = "answer"
    /\ AGoto("idle") /\ out' = Nothing
    /\ min_digits' = 0 /\ max_digits' = 0 /\ speech' = FALSE
    /\ st' = State(FALSE, FALSE) /\ late' = FALSE
    /\ heard' = <<>> /\ sent' = 0
    /\ lost' = {} /\ tries' = 0
    /\ UNCHANGED <<term_used, var_name, mediaVars>>

-----------------------------------------------------------------------------
(* switch_play_and_get_digits and switch_ivr_read                          *)

\* (A max_digits below min_digits is raised to it.)
GetDigits ==
    /\ Asks
    /\ max_digits' \in 1..MaxDial /\ min_digits' \in 0..max_digits'
    /\ tries' = MaxTries
    /\ AGoto("pagd")
    /\ UNCHANGED <<speech, st, late, heard, sent, lost, term_used,
                   var_name, out>>

Pagds(status, digits) ==
    out' = [of |-> "pagd", status |-> status, digits |-> digits, result |-> "none"]

\* A try begins with an empty buffer and variable; without a try or a channel
\* the buffer is emptied and the call may be transferred.
Try ==
    /\ kpc = "pagd"
    /\ IF hungup \/ tries = 0
       THEN /\ AGoto("answer") /\ Pagds("FALSE", <<>>)
            /\ UNCHANGED <<st, late, var_name>>
       ELSE /\ AGoto("read_prompt")
            /\ st' = State(FALSE, FALSE) /\ late' = FALSE /\ var_name' = <<>>
            /\ UNCHANGED out
    /\ UNCHANGED <<Config, heard, sent, lost, tries, term_used, mediaVars>>

Read == UNCHANGED <<Config, heard, sent, lost, term_used, var_name, out, tries>>

\* A digit interrupts the prompt and is kept; a missing file or a hangup ends
\* the try.
ReadPrompt ==
    /\ kpc = "read_prompt"
    /\ \/ hungup /\ AGoto("read_false") /\ UNCHANGED <<st, CF_BREAK>>
       \/ ~hungup /\ CF_BREAK /\ CF_BREAK' = FALSE /\ AGoto("read_digits")
          /\ UNCHANGED st
       \/ /\ ~hungup /\ ~CF_BREAK /\ \E d \in Digits : st' = [st EXCEPT !.digits = <<d>>]
          /\ AGoto("read_digits") /\ UNCHANGED CF_BREAK
       \/ /\ ~hungup /\ ~CF_BREAK
          /\ kpc' \in {"read_digits", "read_false"} /\ UNCHANGED <<st, CF_BREAK>>
    /\ Read /\ UNCHANGED <<late, speaking, hungup, CF_HOLD, paused, calls, playVars>>

\* switch_ivr_collect_digits_count, while digits are missing: a terminator in
\* the buffer or dialled, the last digit, a timeout or a hangup ends it.
ReadDigits ==
    /\ kpc = "read_digits"
    /\ IF Len(st.digits) >= max_digits
       THEN AGoto("read_success") /\ UNCHANGED st
       ELSE \/ /\ st.digits = <<"#">>
               /\ st' = [st EXCEPT !.digits = <<>>, !.terminator = "#"]
               /\ AGoto("read_success")
            \/ /\ st.digits # <<"#">>
               /\ \/ st' = [st EXCEPT !.terminator = "#"] /\ AGoto("read_success")
                  \/ st' = [st EXCEPT !.digits = Append(@, "1")] /\ UNCHANGED kpc
                  \/ AGoto(IF hungup THEN "read_false" ELSE "read_timeout")
                     /\ UNCHANGED st
    /\ Read /\ UNCHANGED <<late, mediaVars>>

\* switch_ivr_read's result: too few digits come before everything else, and a
\* terminator that is the only digit of one is taken out.
ReadStatus ==
    CASE min_digits > 0 /\ Len(st.digits) < min_digits -> "TOO_SMALL"
      [] OTHER -> kpc
ReadBuffer ==
    IF max_digits = 1 /\ st.digits = <<"#">> THEN <<>> ELSE st.digits

\* A timeout with enough digits is a success.
Accepts(status, digits) ==
    \/ status = "read_success"
    \/ status = "read_timeout" /\ Len(digits) >= min_digits

\* Back in switch_play_and_get_digits: a terminator answers an empty question;
\* otherwise the digits have to match the expression, if there is one.  A bad
\* input is played and the next try begins.
ReadReturns ==
    /\ kpc \in {"read_success", "read_timeout", "read_false"}
    /\ LET digits == ReadBuffer
           used == term_used \/ st.terminator # "" IN
       /\ term_used' = used
       /\ \/ /\ min_digits = 0 /\ digits = <<>> /\ used
             /\ AGoto("answer") /\ Pagds("SUCCESS", <<>>)
             /\ UNCHANGED <<var_name, tries>>
          \/ /\ ~(min_digits = 0 /\ digits = <<>> /\ used)
             /\ Accepts(ReadStatus, digits) /\ digits # <<>>
             /\ AGoto("answer") /\ Pagds("SUCCESS", digits)
             /\ var_name' = digits /\ UNCHANGED tries
          \/ /\ ~(min_digits = 0 /\ digits = <<>> /\ used)
             /\ var_name' \in IF Accepts(ReadStatus, digits) THEN {<<>>} ELSE {digits}
             /\ AGoto("pagd")
             /\ tries' = IF hungup THEN 0 ELSE tries - 1
             /\ UNCHANGED out
    /\ UNCHANGED <<Config, st, late, heard, sent, lost, mediaVars>>

-----------------------------------------------------------------------------
(* The session thread and the others                                       *)

AskRuns ==
    \/ Prompt \/ Wait \/ Sleep \/ Awake \/ CollectReturn \/ AskReturns
    \/ Try \/ ReadPrompt \/ ReadDigits \/ ReadReturns
AskCalls == Collect \/ GetDigits
IvrInit == MediaInit /\ AskInit
Ivr ==
    \/ /\ \/ kpc = "idle" /\ (MediaRuns \/ MediaCalls)
          \/ OtherThreads
       /\ UNCHANGED askVars
    \/ AskRuns \/ AskCalls
ivrVars == <<mediaVars, askVars>>
IvrSpec == IvrInit /\ [][Ivr]_ivrVars

\* The session thread runs and time passes; uuid_fileman gives the handle back,
\* and the session thread gets the lock among its commands.
IvrFairSpec ==
    /\ IvrSpec
    /\ WF_ivrVars(kpc = "idle" /\ MediaRuns /\ UNCHANGED askVars)
    /\ WF_ivrVars(AskRuns)
    /\ WF_ivrVars(ReleaseFileHandle /\ UNCHANGED askVars)
    /\ SF_ivrVars(Unpublish /\ UNCHANGED askVars)

-----------------------------------------------------------------------------
(* Properties                                                              *)

\* The digits of a collection are the first ones dialled, in order and at most
\* max_digits; one is passed over only once the digits are complete, timed out
\* or overruled by a recognised text.
DigitsInOrder ==
    kpc \notin {"idle", "pagd", "read_prompt", "read_digits", "read_success",
                "read_timeout", "read_false", "answer"} =>
        /\ Len(st.digits) <= max_digits
        /\ st.digits = SubSeq(heard, 1, Len(st.digits))
        /\ Len(st.digits) < Len(heard) => st.DIGITS_DONE

\* A recognised text is never overwritten, and so lost, by a later result.
TextKept == "text" \notin lost

\* Digits that are handed back satisfy what was asked for, and
\* the channel's variable agrees with them.
AcceptedDigits ==
    kpc = "answer" /\ out.digits # <<>> =>
        /\ Len(out.digits) \in min_digits..max_digits
        /\ out.of = "pagd" => out.status = "SUCCESS" /\ var_name = out.digits
        /\ out.of = "collect" => out.result \in {"none", "deleted"}

\* Asking for digits always comes to an end, for speech after a hangup.
AskEnds ==
    (kpc # "idle" /\ (hungup \/ ~speech)) ~> kpc = "idle"

\* "stop waiting for speech": once the recognizer gave its result or closed,
\* the collection ends, by digits or by their timeout.
ResultEndsWait == (kpc # "idle" /\ speech /\ st.SPEECH_DONE) ~> kpc = "idle"
=============================================================================
