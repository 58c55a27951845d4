------------------------- MODULE CollectInputProofs -------------------------
(***************************************************************************)
(* Theorems about the input that switch_ivr_play_and_collect_input and     *)
(* switch_play_and_get_digits hand back, for any limits on the digits, any *)
(* number of tries and any events of the recognizer.                       *)
(***************************************************************************)
EXTENDS CollectInput, SequenceTheorems, TLAPS

Collecting == {"prompt", "wait", "sleep", "awake", "awake_gone", "collected", "failed"}
Reading == {"read_prompt", "read_digits", "read_success", "read_timeout", "read_false"}
AskPlaces == Collecting \cup Reading \cup {"idle", "pagd", "answer"}

InputStates ==
    [DIGITS_DONE : BOOLEAN, SPEECH_DONE : BOOLEAN, digits : Seq(Digits),
     terminator : Terminators \cup {""}, is_speech : BOOLEAN,
     result : {"none", "text", "no-text"}]

-----------------------------------------------------------------------------
(* The inductive invariant                                                 *)

AskTypes ==
    /\ kpc \in AskPlaces
    /\ st \in InputStates /\ heard \in Seq(Digits)
    /\ min_digits \in Nat /\ max_digits \in Nat

\* What of h, the digits dialled, the state s has kept.
Kept(s, h, limit) ==
    /\ Len(s.digits) <= limit /\ Len(s.digits) <= Len(h)
    /\ \A i \in 1..Len(s.digits) : s.digits[i] = h[i]
    /\ Len(s.digits) < Len(h) => s.DIGITS_DONE

KeptInv == kpc \in Collecting => Kept(st, heard, max_digits)

\* A text ends what it interrupts, and the loop behind it.
TextInv ==
    /\ kpc \in {"prompt", "sleep"} => st.result # "text"
    /\ kpc \in {"wait", "awake", "awake_gone"} /\ st.result = "text" => Finished
    /\ TextKept

\* switch_play_and_get_digits asks for few digits at least, and never keeps
\* more than it has asked for.
ReadInv ==
    /\ kpc \in Reading \cup {"pagd"} => min_digits \in Nat /\ max_digits >= 1
    /\ kpc \in Reading => Len(st.digits) <= max_digits

AskInv == AskTypes /\ KeptInv /\ TextInv /\ ReadInv /\ AcceptedDigits

LEMMA NewState ==
    ASSUME NEW d \in BOOLEAN, NEW s \in BOOLEAN
    PROVE  /\ State(d, s) \in InputStates /\ State(d, s).digits = <<>>
           /\ State(d, s).result = "none" /\ Len(State(d, s).digits) = 0
<1>1. <<>> \in Seq(Digits) /\ Len(<<>>) = 0
  BY EmptySeq
<1> QED
  BY <1>1 DEF State, InputStates

LEMMA InitAsk == IvrInit => AskInv
<1> SUFFICES ASSUME IvrInit PROVE AskInv
  OBVIOUS
<1>1. kpc = "idle" /\ st = State(FALSE, FALSE) /\ heard = <<>> /\ lost = {}
      /\ min_digits = 0 /\ max_digits = 0
  BY DEF IvrInit, AskInit
<1>2. st \in InputStates /\ heard \in Seq(Digits)
  BY <1>1, NewState, EmptySeq
<1> QED
  BY <1>1, <1>2 DEF AskInv, AskTypes, KeptInv, TextInv, ReadInv, AcceptedDigits,
                    TextKept, AskPlaces, Collecting, Reading

LEMMA Unasked == AskInv /\ UNCHANGED askVars => AskInv'
  BY DEF askVars, AskInv, AskTypes, KeptInv, Kept, TextInv, ReadInv, Finished,
         AcceptedDigits, TextKept

-----------------------------------------------------------------------------
(* switch_collect_input_callback                                           *)

LEMMA DigitKept ==
    ASSUME max_digits \in Nat, NEW s \in InputStates, NEW h \in Seq(Digits),
           NEW d \in Digits, Kept(s, h, max_digits)
    PROVE  /\ OnDigit(s, d) \in InputStates
           /\ OnDigit(s, d).result = s.result
           /\ Kept(OnDigit(s, d), Append(h, d), max_digits)
<1> DEFINE r == OnDigit(s, d)
           k == Append(h, d)
<1>1. /\ k \in Seq(Digits) /\ Len(k) = Len(h) + 1
      /\ \A i \in 1..Len(h) : k[i] = h[i]
      /\ k[Len(h) + 1] = d
  BY AppendProperties
<1>2. /\ s.digits \in Seq(Digits) /\ Len(s.digits) \in Nat /\ Len(h) \in Nat
  BY LenProperties DEF InputStates
<1>3. CASE d \in Terminators \/ s.DIGITS_DONE
  <2>1. /\ r \in InputStates /\ r.result = s.result /\ r.digits = s.digits
        /\ r.DIGITS_DONE
    BY <1>3 DEF OnDigit, InputStates
  <2> HIDE DEF r, k
  <2>2. Kept(r, k, max_digits)
    BY <1>1, <1>2, <2>1 DEF Kept
  <2> QED
    BY <2>1, <2>2 DEF r, k
<1>4. CASE ~(d \in Terminators \/ s.DIGITS_DONE)
  <2> DEFINE full == Len(s.digits) + 1 >= max_digits
             q == IF Len(s.digits) < max_digits THEN Append(s.digits, d) ELSE s.digits
  <2>1. r = [s EXCEPT !.is_speech = FALSE, !.digits = q, !.DIGITS_DONE = full,
                      !.SPEECH_DONE = s.SPEECH_DONE \/ full]
    BY <1>4 DEF OnDigit
  <2>2. /\ Append(s.digits, d) \in Seq(Digits)
        /\ Len(Append(s.digits, d)) = Len(s.digits) + 1
        /\ \A i \in 1..Len(s.digits) : Append(s.digits, d)[i] = s.digits[i]
        /\ Append(s.digits, d)[Len(s.digits) + 1] = d
    BY <1>2, AppendProperties
  <2>3. /\ q \in Seq(Digits) /\ full \in BOOLEAN
        /\ \A i \in 1..Len(s.digits) : q[i] = s.digits[i]
        /\ Len(s.digits) < max_digits =>
               Len(q) = Len(s.digits) + 1 /\ q[Len(s.digits) + 1] = d
        /\ ~(Len(s.digits) < max_digits) => q = s.digits
    BY <1>2, <2>2
  <2> HIDE DEF q, r, k
  <2>4. /\ r \in InputStates /\ r.result = s.result /\ r.digits = q
        /\ full => r.DIGITS_DONE
    BY <2>1, <2>3 DEF InputStates
  <2>5. Len(s.digits) = Len(h) /\ \A i \in 1..Len(h) : s.digits[i] = h[i]
    BY <1>2, <1>4 DEF Kept
  <2>6. Kept(r, k, max_digits)
    <3>1. CASE Len(s.digits) < max_digits
      <4>1. Len(q) = Len(k) /\ Len(q) <= max_digits
        BY <1>1, <1>2, <2>3, <2>5, <3>1
      <4>2. ASSUME NEW i \in 1..Len(q) PROVE q[i] = k[i]
        <5>1. i \in 1..Len(h) \/ i = Len(h) + 1
          BY <1>1, <1>2, <4>1
        <5> QED
          BY <1>1, <2>3, <2>5, <3>1, <5>1
      <4> QED
        BY <1>1, <1>2, <2>4, <4>1, <4>2 DEF Kept
    <3>2. CASE ~(Len(s.digits) < max_digits)
      <4>1. q = s.digits /\ full
        BY <1>2, <2>3, <3>2
      <4>2. Len(r.digits) <= max_digits /\ Len(r.digits) <= Len(k)
        BY <1>1, <1>2, <2>4, <2>5, <4>1 DEF Kept
      <4>4. r.DIGITS_DONE
        BY <2>4, <4>1, Zenon
      <4>3. \A i \in 1..Len(r.digits) : r.digits[i] = k[i]
        BY <1>1, <2>4, <2>5, <4>1
      <4> QED
        BY <4>2, <4>3, <4>4 DEF Kept
    <3> QED
      BY <3>1, <3>2
  <2> QED
    BY <2>4, <2>6 DEF r, k
<1> QED
  BY <1>3, <1>4

LEMMA EventKept ==
    ASSUME NEW s \in InputStates, NEW e \in EventKinds \cup {""}
    PROVE  /\ OnEvent(s, e) \in InputStates
           /\ OnEvent(s, e).digits = s.digits
           /\ s.DIGITS_DONE => OnEvent(s, e).DIGITS_DONE
           /\ e # "text" /\ s.result # "text" => OnEvent(s, e).result # "text"
           /\ e = "text" => OnEvent(s, e).DIGITS_DONE /\ OnEvent(s, e).SPEECH_DONE
<1>1. CASE e = "text"
  BY <1>1 DEF OnEvent, InputStates
<1>2. CASE e = "no-text"
  BY <1>2 DEF OnEvent, InputStates
<1>3. CASE e = "closed"
  BY <1>3 DEF OnEvent, InputStates
<1>4. CASE e = "begin-speaking"
  BY <1>4 DEF OnEvent, InputStates
<1>5. CASE e \in {"partial", ""}
  BY <1>5 DEF OnEvent, InputStates
<1> QED
  BY <1>1, <1>2, <1>3, <1>4, <1>5 DEF EventKinds

\* One round: a text is new, and it breaks the prompt or the sleep.
LEMMA RoundKept ==
    ASSUME AskTypes, Kept(st, heard, max_digits), st.result # "text", TextKept,
           NEW d \in Dialled, NEW e \in Recognized, Round(d, e)
    PROVE  /\ st' \in InputStates /\ heard' \in Seq(Digits)
           /\ Kept(st', heard', max_digits)
           /\ TextKept'
           /\ st'.result = "text" =>
                  st'.DIGITS_DONE /\ st'.SPEECH_DONE /\ EventBreaks(e, TRUE)
                  /\ EventBreaks(e, FALSE)
<1> DEFINE s == AfterDigit(d)
<1>1. d \in Digits \cup {""} /\ e \in EventKinds \cup {""}
  BY CollectInputAssumption DEF Dialled, Recognized
<1>2. /\ s \in InputStates /\ s.result = st.result
      /\ heard' \in Seq(Digits) /\ Kept(s, heard', max_digits)
  <2>1. CASE d = ""
    BY <2>1 DEF AskTypes, AfterDigit, Round
  <2>2. CASE d # ""
    <3>1. s = OnDigit(st, d) /\ heard' = Append(heard, d) /\ d \in Digits
      BY <1>1, <2>2 DEF AfterDigit, Round
    <3>2. Append(heard, d) \in Seq(Digits)
      BY <3>1, AppendProperties DEF AskTypes
    <3>3. /\ OnDigit(st, d) \in InputStates /\ OnDigit(st, d).result = st.result
          /\ Kept(OnDigit(st, d), Append(heard, d), max_digits)
      BY <3>1, DigitKept DEF AskTypes
    <3> QED
      BY <3>1, <3>2, <3>3
  <2> QED
    BY <2>1, <2>2
<1>3. st' = OnEvent(s, e)
  BY DEF Round
<1> HIDE DEF s
<1>4. /\ st' \in InputStates /\ st'.digits = s.digits
      /\ s.DIGITS_DONE => st'.DIGITS_DONE
      /\ e # "text" /\ s.result # "text" => st'.result # "text"
      /\ e = "text" => st'.DIGITS_DONE /\ st'.SPEECH_DONE
  BY <1>1, <1>2, <1>3, EventKept
<1>5. Kept(st', heard', max_digits)
  BY <1>2, <1>4 DEF Kept
<1>6. TextKept'
  BY DEF Round, TextKept
<1>7. e = "text" => EventBreaks(e, TRUE) /\ EventBreaks(e, FALSE)
  BY DEF EventBreaks
<1> QED
  BY <1>2, <1>4, <1>5, <1>6, <1>7

-----------------------------------------------------------------------------
(* switch_ivr_play_and_collect_input                                       *)

\* What a step inside a collection has to show.
CollectStep ==
    /\ kpc' \in Collecting
    /\ st' \in InputStates /\ heard' \in Seq(Digits)
    /\ Kept(st', heard', max_digits)
    /\ UNCHANGED <<min_digits, max_digits>>
    /\ TextInv'

LEMMA CollectStepKeeps == AskInv /\ CollectStep => AskInv'
  BY DEF AskInv, AskTypes, KeptInv, Kept, ReadInv, AcceptedDigits, CollectStep,
         AskPlaces, Collecting, Reading

LEMMA PromptKeeps == AskInv /\ Prompt => AskInv'
<1> SUFFICES ASSUME AskInv, Prompt PROVE AskInv'
  OBVIOUS
<1>1. /\ AskTypes /\ Kept(st, heard, max_digits) /\ st.result # "text" /\ TextKept
      /\ st \in InputStates /\ heard \in Seq(Digits)
      /\ UNCHANGED <<min_digits, max_digits>>
  BY DEF Prompt, AskInv, AskTypes, KeptInv, TextInv, Collecting, Config
<1>2. CASE NoRound /\ kpc' \in {"wait", "failed"}
  <2>1. CollectStep
    BY <1>1, <1>2 DEF CollectStep, NoRound, Kept, TextInv, TextKept, Collecting
  <2> QED
    BY <2>1, CollectStepKeeps
<1>3. CASE \E d \in Dialled, e \in Recognized :
               /\ Round(d, e)
               /\ AGoto(IF RoundBreaks(d, e, TRUE) THEN "wait" ELSE "prompt")
  <2>1. PICK d \in Dialled, e \in Recognized :
            /\ Round(d, e)
            /\ AGoto(IF RoundBreaks(d, e, TRUE) THEN "wait" ELSE "prompt")
    BY <1>3
  <2>2. /\ st' \in InputStates /\ heard' \in Seq(Digits)
        /\ Kept(st', heard', max_digits) /\ TextKept'
        /\ st'.result = "text" =>
               st'.DIGITS_DONE /\ st'.SPEECH_DONE /\ EventBreaks(e, TRUE)
    BY <1>1, <2>1, RoundKept
  <2>3. kpc' \in {"wait", "prompt"} /\ (EventBreaks(e, TRUE) => kpc' = "wait")
    BY <2>1 DEF AGoto, RoundBreaks
  <2>4. CollectStep
    BY <1>1, <2>2, <2>3 DEF CollectStep, TextInv, Finished, Collecting
  <2> QED
    BY <2>4, CollectStepKeeps
<1> QED
  BY <1>2, <1>3 DEF Prompt, AGoto

LEMMA SleepKeeps == AskInv /\ Sleep => AskInv'
<1> SUFFICES ASSUME AskInv, Sleep PROVE AskInv'
  OBVIOUS
<1>1. /\ AskTypes /\ Kept(st, heard, max_digits) /\ st.result # "text" /\ TextKept
      /\ st \in InputStates /\ heard \in Seq(Digits)
      /\ UNCHANGED <<min_digits, max_digits>>
  BY DEF Sleep, AskInv, AskTypes, KeptInv, TextInv, Collecting, Config, Asking
<1>2. CASE UNCHANGED <<st, heard, lost>> /\ kpc' \in {"awake", "awake_gone"}
  <2>1. CollectStep
    BY <1>1, <1>2 DEF CollectStep, Kept, TextInv, TextKept, Collecting
  <2> QED
    BY <2>1, CollectStepKeeps
<1>3. CASE \E d \in Dialled, e \in Recognized :
               /\ Round(d, e)
               /\ AGoto(IF RoundBreaks(d, e, FALSE) THEN "awake" ELSE "sleep")
  <2>1. PICK d \in Dialled, e \in Recognized :
            /\ Round(d, e)
            /\ AGoto(IF RoundBreaks(d, e, FALSE) THEN "awake" ELSE "sleep")
    BY <1>3
  <2>2. /\ st' \in InputStates /\ heard' \in Seq(Digits)
        /\ Kept(st', heard', max_digits) /\ TextKept'
        /\ st'.result = "text" =>
               st'.DIGITS_DONE /\ st'.SPEECH_DONE /\ EventBreaks(e, FALSE)
    BY <1>1, <2>1, RoundKept
  <2>3. kpc' \in {"awake", "sleep"} /\ (EventBreaks(e, FALSE) => kpc' = "awake")
    BY <2>1 DEF AGoto, RoundBreaks
  <2>4. CollectStep
    BY <1>1, <2>2, <2>3 DEF CollectStep, TextInv, Finished, Collecting
  <2> QED
    BY <2>4, CollectStepKeeps
<1> QED
  BY <1>2, <1>3 DEF Sleep, AGoto, NoRound

LEMMA WaitKeeps == AskInv /\ (Wait \/ Awake) => AskInv'
<1> SUFFICES ASSUME AskInv, Wait \/ Awake PROVE AskInv'
  OBVIOUS
<1>1. /\ Kept(st, heard, max_digits) /\ TextKept
      /\ st.result = "text" => Finished
      /\ st \in InputStates /\ heard \in Seq(Digits)
      /\ UNCHANGED <<min_digits, max_digits, heard, lost>>
  BY DEF Wait, Awake, AskInv, AskTypes, KeptInv, TextInv, Collecting, Config, Asking
<1>2. CASE Wait
  <2>1. UNCHANGED st /\ kpc' \in {"collected", "sleep"} /\ (Finished => kpc' = "collected")
    BY <1>2 DEF Wait, AGoto
  <2>2. CollectStep
    BY <1>1, <2>1 DEF CollectStep, TextInv, TextKept, Collecting
  <2> QED
    BY <2>2, CollectStepKeeps
<1>3. CASE Awake
  <2>1. /\ st' \in InputStates /\ st'.digits = st.digits /\ st'.result = st.result
        /\ (st.DIGITS_DONE => st'.DIGITS_DONE) /\ (st.SPEECH_DONE => st'.SPEECH_DONE)
    BY <1>1, <1>3 DEF Awake, InputStates
  <2>2. /\ kpc' \in {"collected", "sleep", "failed"}
        /\ st'.DIGITS_DONE /\ st'.SPEECH_DONE => kpc' # "sleep"
    BY <1>3 DEF Awake
  <2>3. Kept(st', heard', max_digits)
    BY <1>1, <2>1 DEF Kept
  <2>4. CollectStep
    BY <1>1, <2>1, <2>2, <2>3 DEF CollectStep, TextInv, TextKept, Finished, Collecting
  <2> QED
    BY <2>4, CollectStepKeeps
<1> QED
  BY <1>2, <1>3

LEMMA CollectReturnKeeps == AskInv /\ CollectReturn => AskInv'
<1> SUFFICES ASSUME AskInv, CollectReturn PROVE AskInv'
  OBVIOUS
<1>1. /\ kpc \in Collecting /\ kpc' = "answer"
      /\ UNCHANGED <<st, heard, lost, min_digits, max_digits>>
      /\ \E s : out' = Answer(s)
  BY DEF CollectReturn, AGoto, NoRound, Config, Collecting
<1>2. PICK s : out' = Answer(s)
  BY <1>1
<1>3. Len(st.digits) <= max_digits /\ Len(st.digits) \in Nat /\ st.digits \in Seq(Digits)
  BY <1>1, LenProperties DEF AskInv, AskTypes, KeptInv, Kept, InputStates
<1>4. AcceptedDigits'
  <2>1. out'.of = "collect"
    BY <1>2 DEF Answer
  <2>2. CASE st.digits # <<>> /\ Len(st.digits) >= min_digits
    <3>1. out'.digits = st.digits /\ out'.result \in {"none", "deleted"}
      BY <1>2, <2>2 DEF Answer
    <3> QED
      BY <1>1, <1>3, <2>1, <2>2, <3>1 DEF AcceptedDigits, AskInv, AskTypes
  <2>3. CASE ~(st.digits # <<>> /\ Len(st.digits) >= min_digits)
    <3>1. out'.digits = <<>>
      BY <1>2, <2>3 DEF Answer
    <3> QED
      BY <3>1 DEF AcceptedDigits
  <2> QED
    BY <2>2, <2>3
<1> QED
  BY <1>1, <1>4 DEF AskInv, AskTypes, KeptInv, TextInv, TextKept, ReadInv,
                    AskPlaces, Collecting, Reading

\* A call starts or ends: nothing is kept.
LEMMA CallKeeps == AskInv /\ (Collect \/ AskReturns) => AskInv'
<1> SUFFICES ASSUME AskInv, Collect \/ AskReturns PROVE AskInv'
  OBVIOUS
<1>1. /\ kpc' \in {"prompt", "failed", "idle"}
      /\ min_digits' \in Nat /\ max_digits' \in Nat
      /\ heard' = <<>> /\ lost' = {}
      /\ \E d, s \in BOOLEAN : st' = State(d, s)
  <2>1. CASE Collect
    <3>1. /\ max_digits' \in 1..MaxDial /\ min_digits' \in 0..max_digits'
          /\ speech' \in BOOLEAN /\ st' = State(min_digits' > 0, speech')
      BY <2>1 DEF Collect
    <3>2. min_digits' \in Nat /\ max_digits' \in Nat
      BY <3>1, CollectInputAssumption
    <3>3. (min_digits' > 0) \in BOOLEAN
      OBVIOUS
    <3>4. \E d, s \in BOOLEAN : st' = State(d, s)
      BY <3>1, <3>3, Zenon
    <3>5. kpc' \in {"prompt", "failed"} /\ heard' = <<>> /\ lost' = {}
      BY <2>1 DEF Collect, AGoto
    <3> QED
      BY <3>2, <3>4, <3>5
  <2>2. CASE AskReturns
    BY <2>2 DEF AskReturns, AGoto
  <2> QED
    BY <2>1, <2>2
<1>2. /\ st' \in InputStates /\ Len(st'.digits) = 0 /\ st'.result = "none"
      /\ heard' \in Seq(Digits) /\ Len(heard') = 0
  BY <1>1, NewState, EmptySeq
<1>3. Kept(st', heard', max_digits')
  BY <1>1, <1>2 DEF Kept
<1> QED
  BY <1>1, <1>2, <1>3 DEF AskInv, AskTypes, KeptInv, TextInv, TextKept, ReadInv,
                    AcceptedDigits, AskPlaces, Collecting, Reading

-----------------------------------------------------------------------------
(* switch_play_and_get_digits and switch_ivr_read                          *)

\* What a step inside a try has to show.
ReadStep ==
    /\ kpc' \in Reading \cup {"pagd"}
    /\ st' \in InputStates
    /\ min_digits' \in Nat /\ max_digits' \in Nat \ {0}
    /\ kpc' \in Reading => Len(st'.digits) <= max_digits'
    /\ UNCHANGED <<heard, lost>>

LEMMA ReadStepKeeps == AskInv /\ ReadStep => AskInv'
  BY DEF AskInv, AskTypes, KeptInv, TextInv, TextKept, ReadInv, AcceptedDigits,
         ReadStep, AskPlaces, Collecting, Reading

LEMMA ReadKeeps == AskInv /\ (GetDigits \/ Try \/ ReadPrompt \/ ReadDigits) => AskInv'
<1> SUFFICES ASSUME AskInv, GetDigits \/ Try \/ ReadPrompt \/ ReadDigits PROVE AskInv'
  OBVIOUS
<1>0. st \in InputStates /\ st.digits \in Seq(Digits) /\ Len(st.digits) \in Nat
  BY LenProperties DEF AskInv, AskTypes, InputStates
<1>1. CASE GetDigits
  <2>1. ReadStep
    BY <1>0, <1>1, CollectInputAssumption DEF GetDigits, AGoto, ReadStep, Reading
  <2> QED
    BY <2>1, ReadStepKeeps
<1>2. ASSUME Try \/ ReadPrompt \/ ReadDigits
      PROVE  /\ UNCHANGED <<min_digits, max_digits, heard, lost>>
             /\ min_digits' \in Nat /\ max_digits' \in Nat \ {0}
             /\ max_digits' \in Nat
  <2>1. UNCHANGED <<min_digits, max_digits, heard, lost>>
    BY <1>2 DEF Try, ReadPrompt, ReadDigits, Read, Config
  <2>2. kpc \in Reading \cup {"pagd"}
    BY <1>2 DEF Try, ReadPrompt, ReadDigits, Reading
  <2>3. min_digits \in Nat /\ max_digits \in Nat \ {0}
    BY <2>2 DEF AskInv, AskTypes, ReadInv
  <2> QED
    BY <2>1, <2>3
<1>3. CASE Try
  <2>1. CASE hungup \/ tries = 0
    <3>0. kpc' = "answer" /\ UNCHANGED st /\ Pagds("FALSE", <<>>)
      BY <1>3, <2>1 DEF Try, AGoto
    <3>1. kpc' = "answer" /\ UNCHANGED st /\ out'.digits = <<>>
      BY <3>0 DEF Pagds
    <3> QED
      BY <1>2, <1>3, <3>1 DEF AskInv, AskTypes, KeptInv, TextInv, TextKept, ReadInv,
                    AcceptedDigits, AskPlaces, Collecting, Reading
  <2>2. CASE ~(hungup \/ tries = 0)
    <3>1. kpc' = "read_prompt" /\ st' = State(FALSE, FALSE)
      BY <1>3, <2>2 DEF Try, AGoto
    <3>2. st' \in InputStates /\ Len(st'.digits) = 0
      BY <3>1, NewState
    <3>3. /\ UNCHANGED <<heard, lost>>
          /\ min_digits' \in Nat /\ max_digits' \in Nat \ {0}
      BY <1>2, <1>3
    <3>4. Len(st'.digits) <= max_digits'
      BY <3>2, <3>3
    <3>5. ReadStep
      BY <3>1, <3>2, <3>3, <3>4 DEF ReadStep, Reading
    <3> QED
      BY <3>5, ReadStepKeeps
  <2> QED
    BY <2>1, <2>2
<1>4. CASE ReadPrompt
  <2>1. kpc' \in Reading /\ Len(st.digits) <= max_digits
    BY <1>4 DEF ReadPrompt, AGoto, AskInv, ReadInv, Reading
  <2>2. CASE UNCHANGED st
    <3>1. ReadStep
      BY <1>0, <1>2, <1>4, <2>1, <2>2 DEF ReadStep
    <3> QED
      BY <3>1, ReadStepKeeps
  <2>3. CASE \E d \in Digits : st' = [st EXCEPT !.digits = <<d>>]
    <3>1. PICK d \in Digits : st' = [st EXCEPT !.digits = <<d>>]
      BY <2>3
    <3>2. <<d>> \in Seq(Digits) /\ Len(<<d>>) = 1
      OBVIOUS
    <3>3. st' \in InputStates /\ Len(st'.digits) = 1
      BY <1>0, <3>1, <3>2 DEF InputStates
    <3>4. ReadStep
      BY <1>2, <1>4, <2>1, <3>3 DEF ReadStep
    <3> QED
      BY <3>4, ReadStepKeeps
  <2> QED
    BY <1>4, <2>2, <2>3 DEF ReadPrompt
<1>5. CASE ReadDigits
  <2>1. kpc' \in Reading /\ Len(st.digits) <= max_digits
    BY <1>5 DEF ReadDigits, AGoto, AskInv, ReadInv, Reading
  <2>2. CASE UNCHANGED st \/ st' = [st EXCEPT !.terminator = "#"]
    <3>1. st' \in InputStates /\ st'.digits = st.digits
      BY <1>0, <2>2 DEF InputStates, Terminators
    <3>2. ReadStep
      BY <1>2, <1>5, <2>1, <3>1 DEF ReadStep
    <3> QED
      BY <3>2, ReadStepKeeps
  <2>3. CASE st' = [st EXCEPT !.digits = <<>>, !.terminator = "#"]
    <3>1. st' \in InputStates /\ Len(st'.digits) = 0
      BY <1>0, <2>3, EmptySeq DEF InputStates, Terminators
    <3>2. ReadStep
      BY <1>2, <1>5, <2>1, <3>1 DEF ReadStep
    <3> QED
      BY <3>2, ReadStepKeeps
  <2>4. CASE ~(Len(st.digits) >= max_digits) /\ st' = [st EXCEPT !.digits = Append(@, "1")]
    <3>1. /\ Append(st.digits, "1") \in Seq(Digits)
          /\ Len(Append(st.digits, "1")) = Len(st.digits) + 1
      BY <1>0, AppendProperties DEF Digits
    <3>2. st' \in InputStates /\ Len(st'.digits) = Len(st.digits) + 1
      BY <1>0, <2>4, <3>1 DEF InputStates
    <3>3. Len(st'.digits) <= max_digits
      BY <1>0, <1>2, <1>5, <2>4, <3>2
    <3>4. ReadStep
      BY <1>2, <1>5, <2>1, <3>2, <3>3 DEF ReadStep
    <3> QED
      BY <3>4, ReadStepKeeps
  <2> QED
    BY <1>5, <2>2, <2>3, <2>4 DEF ReadDigits
<1> QED
  BY <1>1, <1>3, <1>4, <1>5

LEMMA ReadReturnsKeeps == AskInv /\ ReadReturns => AskInv'
<1> SUFFICES ASSUME AskInv, ReadReturns PROVE AskInv'
  OBVIOUS
<1>1. /\ st \in InputStates /\ st.digits \in Seq(Digits) /\ Len(st.digits) \in Nat
      /\ min_digits \in Nat /\ max_digits \in Nat \ {0}
      /\ Len(st.digits) <= max_digits
      /\ UNCHANGED <<st, min_digits, max_digits, heard, lost>>
  <2>1. st \in InputStates /\ st.digits \in Seq(Digits) /\ Len(st.digits) \in Nat
    BY LenProperties DEF AskInv, AskTypes, InputStates
  <2>2. kpc \in Reading
    BY DEF ReadReturns, Reading
  <2>3. UNCHANGED <<st, min_digits, max_digits, heard, lost>>
    BY DEF ReadReturns, Config
  <2>4. /\ min_digits \in Nat /\ max_digits \in Nat \ {0}
        /\ Len(st.digits) <= max_digits
    BY <2>2 DEF AskInv, AskTypes, ReadInv
  <2> QED
    BY <2>1, <2>3, <2>4
<1>2. CASE kpc' = "pagd"
  <2>1. ReadStep
    BY <1>1, <1>2 DEF ReadStep, Reading
  <2> QED
    BY <2>1, ReadStepKeeps
<1>3. CASE /\ kpc' = "answer"
           /\ out'.of = "pagd"
           /\ out'.digits # <<>> => /\ out'.status = "SUCCESS" /\ var_name' = out'.digits
                                    /\ out'.digits = ReadBuffer
                                    /\ Accepts(ReadStatus, ReadBuffer)
  <2>1. ReadBuffer # <<>> => Len(ReadBuffer) \in 1..max_digits
    <3>1. ReadBuffer = <<>> \/ ReadBuffer = st.digits
      BY DEF ReadBuffer
    <3> QED
      BY <1>1, <3>1, EmptySeq
  <2>2. ASSUME out'.digits # <<>>
        PROVE  Len(out'.digits) \in min_digits..max_digits
    <3>1. out'.digits = st.digits /\ Accepts(ReadStatus, st.digits)
      BY <1>3, <2>2 DEF ReadBuffer
    <3>2. Len(st.digits) >= min_digits
      BY <1>1, <3>1 DEF Accepts, ReadStatus
    <3> QED
      BY <1>1, <3>1, <3>2
  <2>3. AcceptedDigits'
    BY <1>1, <1>3, <2>2 DEF AcceptedDigits
  <2> QED
    BY <1>1, <1>3, <2>3 DEF AskInv, AskTypes, KeptInv, TextInv, TextKept, ReadInv,
                    AskPlaces, Collecting, Reading
<1>4. \/ kpc' = "answer" /\ Pagds("SUCCESS", <<>>)
      \/ /\ kpc' = "answer" /\ Pagds("SUCCESS", ReadBuffer)
         /\ var_name' = ReadBuffer /\ Accepts(ReadStatus, ReadBuffer)
      \/ kpc' = "pagd"
  BY DEF ReadReturns, AGoto
<1>5. CASE kpc' = "answer" /\ Pagds("SUCCESS", <<>>)
  BY <1>3, <1>5 DEF Pagds
<1>6. CASE /\ kpc' = "answer" /\ Pagds("SUCCESS", ReadBuffer)
           /\ var_name' = ReadBuffer /\ Accepts(ReadStatus, ReadBuffer)
  BY <1>3, <1>6 DEF Pagds
<1> QED
  BY <1>2, <1>4, <1>5, <1>6

LEMMA NextAsk == AskInv /\ [Ivr]_ivrVars => AskInv'
<1> SUFFICES ASSUME AskInv, [Ivr]_ivrVars PROVE AskInv'
  OBVIOUS
<1>1. CASE UNCHANGED askVars
  BY <1>1, Unasked
<1>2. CASE AskRuns \/ AskCalls
  BY <1>2, PromptKeeps, SleepKeeps, WaitKeeps, CollectReturnKeeps, CallKeeps,
     ReadKeeps, ReadReturnsKeeps DEF AskRuns, AskCalls
<1> QED
  BY <1>1, <1>2 DEF Ivr, ivrVars

-----------------------------------------------------------------------------
(* The theorems                                                            *)

LEMMA AskHolds == IvrSpec => []AskInv
  BY InitAsk, NextAsk, PTL DEF IvrSpec

\* The callback keeps the first digits dialled, in order and up to the limit,
\* whatever the recognizer reports between them and however often the prompt
\* and the sleeps are interrupted.
THEOREM DigitsCorrect == IvrSpec => []DigitsInOrder
<1>1. AskInv => DigitsInOrder
  <2> SUFFICES ASSUME AskInv, kpc \in Collecting PROVE DigitsInOrder
    BY DEF DigitsInOrder, AskInv, AskTypes, AskPlaces, Collecting, Reading
  <2>1. /\ Kept(st, heard, max_digits)
        /\ st.digits \in Seq(Digits) /\ heard \in Seq(Digits)
    BY DEF AskInv, AskTypes, KeptInv, InputStates
  <2> DEFINE n == Len(st.digits)
             p == SubSeq(heard, 1, n)
  <2>2. n \in Nat /\ Len(heard) \in Nat /\ n <= Len(heard)
    BY <2>1, LenProperties DEF Kept
  <2>3. p \in Seq(Digits) /\ Len(p) = n /\ \A i \in 1..n : p[i] = heard[i]
    <3>1. \A i \in 1..n : heard[i] \in Digits
      BY <2>1, <2>2, ElementOfSeq
    <3> QED
      BY <2>1, <2>2, <3>1, SubSeqProperties
  <2> HIDE DEF p
  <2>4. st.digits = p
    BY <2>1, <2>3, SeqEqual DEF Kept
  <2> QED
    BY <2>1, <2>4 DEF p, Kept, DigitsInOrder
<1> QED
  BY <1>1, AskHolds, PTL

\* A text of the recognizer ends prompt, sleep and collection, so that no later
\* event can overwrite it.
THEOREM TextCorrect == IvrSpec => []TextKept
<1>1. AskInv => TextKept
  BY DEF AskInv, TextInv
<1> QED
  BY <1>1, AskHolds, PTL

\* Whatever was dialled, timed out or hung up, digits handed back are between
\* the minimum and the maximum asked for, and agree with the variable.
THEOREM AcceptedCorrect == IvrSpec => []AcceptedDigits
<1>1. AskInv => AcceptedDigits
  BY DEF AskInv
<1> QED
  BY <1>1, AskHolds, PTL
=============================================================================
