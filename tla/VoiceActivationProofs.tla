----------------------- MODULE VoiceActivationProofs -----------------------
(***************************************************************************)
(* Machine-checked proofs about VoiceActivation, for every block length,    *)
(* threshold and amount of audio, and every interleaving of control().      *)
(***************************************************************************)
EXTENDS VoiceActivation, TLAPS

(* Where processfrm is tells what it may rely on.                             *)
StepInv ==
    /\ pc \in {"idle", "vad"} => frm.vad = {}
    /\ pc = "vad" /\ frm.word # "NONE" => ~vad_flag
    /\ pc \in {"start", "cancel"} => vad_flag
    /\ pc \in {"resume", "data"} => canceled \/ (vad_flag /\ data_output)
    /\ pc = "resume" /\ vad_enable => vad_flag /\ data_output

(* A segment is in progress while the detector has voice, or ended within     *)
(* this frame; with the local VAD only a segment outputs data.                *)
SegmentInv ==
    /\ vad_flag => has_vad \/ "off" \in frm.vad
    /\ vad_enable /\ data_output => vad_flag

(* The output position: nothing is sent before START, and a canceled session  *)
(* is rewound.                                                                *)
RewindInv ==
    /\ vad_flag /\ ~data_output => m_iLen_Out_Cur = 0 /\ ~canceled
    /\ canceled => m_iLen_Out_Cur = 0

(* With the local VAD a session the client sees as open is streaming.         *)
OpenInv == vad_enable /\ open => vad_flag /\ data_output /\ ~canceled

(* Once the change to SLEEP was complete both flags stay down, and a session  *)
(* is canceled before processfrm reaches its data.                            *)
QuietInv ==
    /\ mode = "SLEEP" => (awaked => "awaked" \in ctl) /\ (need_asr => "need_asr" \in ctl)
    /\ quiet => mode = "SLEEP" /\ ~awaked /\ ~need_asr
    /\ quiet /\ pc \in {"resume", "data"} => canceled

(* The inductive invariant.                                                   *)
IInv ==
    /\ TypeOK /\ PausedIffCanceled /\ NoGapNoRepeat
    /\ StepInv /\ SegmentInv /\ RewindInv /\ OpenInv /\ QuietInv

-----------------------------------------------------------------------------
(* The constructor establishes the invariant.                                 *)
LEMMA InitIInv == Init => IInv
  <1> SUFFICES ASSUME Init PROVE IInv
    OBVIOUS
  <1> USE DEF Init
  <1>1. TypeOK
    BY DEF TypeOK, NoFrame, VbvResults, WordTypes, Steps
  <1>2. PausedIffCanceled /\ NoGapNoRepeat
    BY DEF PausedIffCanceled, NoGapNoRepeat, Streaming
  <1>3. StepInv /\ SegmentInv /\ RewindInv /\ OpenInv /\ QuietInv
    BY DEF StepInv, SegmentInv, RewindInv, OpenInv, QuietInv, NoFrame
  <1> QED BY <1>1, <1>2, <1>3 DEF IInv

(* control(), at any moment of processfrm.                                    *)
LEMMA ControlIInv ==
    ASSUME IInv, Control \/ ControlStep
    PROVE  IInv'
  <1> USE DEF IInv, flags, shared, cod, client
  <1>1. CASE ControlAwake
    <2> USE <1>1 DEF ControlAwake
    <2>1. TypeOK' BY DEF TypeOK
    <2>2. PausedIffCanceled' /\ NoGapNoRepeat'
      BY DEF PausedIffCanceled, NoGapNoRepeat, Streaming
    <2>3. StepInv' /\ SegmentInv' /\ RewindInv' /\ OpenInv'
      BY DEF StepInv, SegmentInv, RewindInv, OpenInv
    <2>4. QuietInv' BY DEF QuietInv
    <2> QED BY <2>1, <2>2, <2>3, <2>4
  <1>2. CASE ControlSleep
    <2> USE <1>2 DEF ControlSleep
    <2>1. TypeOK' BY DEF TypeOK
    <2>2. PausedIffCanceled' /\ NoGapNoRepeat'
      BY DEF PausedIffCanceled, NoGapNoRepeat, Streaming
    <2>3. StepInv' /\ SegmentInv' /\ RewindInv' /\ OpenInv'
      BY DEF StepInv, SegmentInv, RewindInv, OpenInv
    <2>4. QuietInv' BY DEF QuietInv
    <2> QED BY <2>1, <2>2, <2>3, <2>4
  <1>3. ASSUME NEW f \in {"awaked", "need_asr"}, ControlStore(f)
        PROVE  IInv'
    <2> USE <1>3 DEF ControlStore
    <2>1. TypeOK' BY DEF TypeOK
    <2>2. PausedIffCanceled' /\ NoGapNoRepeat'
      BY DEF PausedIffCanceled, NoGapNoRepeat, Streaming
    <2>3. StepInv' /\ SegmentInv' /\ RewindInv' /\ OpenInv'
      BY DEF StepInv, SegmentInv, RewindInv, OpenInv
    <2>4. QuietInv' BY DEF QuietInv
    <2> QED BY <2>1, <2>2, <2>3, <2>4
  <1> QED BY <1>1, <1>2, <1>3 DEF Control, ControlStep

(* do_activation and reset_asr.                                               *)
LEMMA DetectIInv ==
    ASSUME IInv, NEW vbv \in VbvResults, NEW word \in WordTypes, Detect(vbv, word)
    PROVE  IInv'
  <1> USE DEF IInv
  <1>1. /\ pc = "idle" /\ pc' = "vad" /\ vad_enable' = vad_enable /\ ctl' = ctl
        /\ frm' = [vbv |-> vbv, word |-> word, vad |-> {}, len |-> 0]
        /\ vbv = "none" <=> word = "NONE"
        /\ quiet' = (mode = "SLEEP" /\ ctl = {})
        /\ mode' = IF word = "SLEEP" THEN "SLEEP" ELSE mode
    BY DEF Detect, NoFrame
  <1>2. CASE vbv = "none"
    <2>1. /\ vad_flag' = vad_flag /\ has_vad' = has_vad /\ data_output' = data_output
          /\ canceled' = canceled /\ minsil' = minsil /\ awaked' = awaked
          /\ need_asr' = need_asr /\ m_iLen_In' = m_iLen_In /\ m_iLen_Cod' = m_iLen_Cod
          /\ m_iLen_Out_Cur' = m_iLen_Out_Cur /\ m_iLen_Pause' = m_iLen_Pause
          /\ m_bPaused' = m_bPaused /\ ev' = "none" /\ open' = open /\ got' = got
      BY <1>2 DEF Detect, SendNone, flags, shared, cod, client
    <2>2. TypeOK'
      BY <1>1, <2>1 DEF TypeOK, Steps
    <2>3. PausedIffCanceled' /\ NoGapNoRepeat'
      BY <2>1 DEF PausedIffCanceled, NoGapNoRepeat, Streaming
    <2>4. StepInv' /\ SegmentInv' /\ RewindInv' /\ OpenInv'
      BY <1>1, <1>2, <2>1 DEF StepInv, SegmentInv, RewindInv, OpenInv
    <2>5. QuietInv'
      BY <1>1, <1>2, <2>1 DEF QuietInv
    <2> QED BY <2>2, <2>3, <2>4, <2>5
  <1>3. CASE vbv # "none"
    <2>1. /\ vad_flag' = FALSE /\ canceled' = FALSE /\ awaked' = FALSE
          /\ need_asr' = FALSE /\ has_vad' = FALSE /\ minsil' = minsil
          /\ m_iLen_In' = 0 /\ m_iLen_Cod' = 0 /\ m_iLen_Out_Cur' = 0
          /\ m_bPaused' = FALSE /\ m_iLen_Pause' = m_iLen_Pause
          /\ data_output' = (data_output /\ ~vad_enable)
          /\ data_output => ev' = "CANCEL" /\ open' = FALSE /\ got' = 0
          /\ ~data_output => ev' = "none" /\ open' = open /\ got' = got
      BY <1>3 DEF Detect, ResetAsr, CodReset, SendNone, SendCancel, client
    <2>2. TypeOK'
      <3>1. data_output' \in BOOLEAN /\ quiet' \in BOOLEAN
        BY <1>1, <2>1
      <3>3. open' \in BOOLEAN /\ got' \in Nat /\ ev' \in {"none", "CANCEL"}
        <4>1. open \in BOOLEAN /\ got \in Nat
          BY DEF TypeOK
        <4>2. CASE data_output
          <5>1. ev' = "CANCEL" /\ open' = FALSE /\ got' = 0
            BY <2>1, <4>2
          <5> QED BY <5>1
        <4>3. CASE ~data_output
          BY <2>1, <4>1, <4>3
        <4> QED BY <4>2, <4>3
      <3>2. frm' \in [vbv : VbvResults, word : WordTypes, vad : SUBSET {"on", "off"}, len : Nat]
        BY <1>1
      <3> QED BY <1>1, <2>1, <3>1, <3>2, <3>3 DEF TypeOK, Steps
    <2>3. PausedIffCanceled' /\ NoGapNoRepeat'
      BY <2>1 DEF PausedIffCanceled, NoGapNoRepeat, Streaming
    <2>4. StepInv' /\ SegmentInv' /\ RewindInv' /\ OpenInv'
      <3>1. ~(vad_enable /\ data_output')
        BY <2>1
      <3>2. ~(vad_enable /\ open')
        BY <2>1 DEF OpenInv, TypeOK
      <3>3. StepInv' /\ SegmentInv'
        BY <1>1, <2>1, <3>1 DEF StepInv, SegmentInv
      <3>4. RewindInv' /\ OpenInv'
        BY <1>1, <2>1, <3>2 DEF RewindInv, OpenInv
      <3> QED BY <3>3, <3>4
    <2>5. QuietInv'
      <3>1. quiet' => mode' = "SLEEP"
        BY <1>1
      <3> QED BY <1>1, <2>1, <3>1 DEF QuietInv
    <2> QED BY <2>2, <2>3, <2>4, <2>5
  <1> QED BY <1>2, <1>3

(* check_voice_activity and the VAD_ON block.                                 *)
LEMMA CheckVadIInv ==
    ASSUME IInv, NEW vad \in SUBSET {"on", "off"}, NEW len \in Lens, CheckVad(vad, len)
    PROVE  IInv'
  <1> USE DEF IInv
  <1>1. /\ pc = "vad" /\ vad_enable' = vad_enable /\ ctl' = ctl
        /\ frm' = [frm EXCEPT !.vad = vad, !.len = len]
        /\ has_vad' = ("off" \notin vad /\ (has_vad \/ "on" \in vad))
        /\ mode' = (IF Awake THEN "ACTIVE" ELSE mode) /\ quiet' = (quiet /\ ~Awake)
        /\ pc' = IF vad_flag' THEN "start" ELSE "off"
        /\ ev' = "none" /\ open' = open /\ got' = got
    BY DEF CheckVad, OpenAfter, SendNone, client
  <1>2. vad \in VadResults /\ len \in Nat
    BY ConstAssumption DEF CheckVad
  <1>3. minsil' \in {"normal", "long"}
    BY DEF CheckVad, OpenAfter, TypeOK
  <1>4. frm' \in [vbv : VbvResults, word : WordTypes, vad : SUBSET {"on", "off"}, len : Nat]
        /\ frm'.vad = vad
    BY <1>1, <1>2 DEF TypeOK
  <1>5. "on" \in vad => ~vad_flag
    BY <1>1, <1>2 DEF VadResults, CallResults, Awake, StepInv, SegmentInv
  <1>6. CASE "on" \in vad
    <2>1. /\ vad_flag' = TRUE /\ canceled' = FALSE /\ data_output' = FALSE
          /\ awaked' = Awake /\ need_asr' = (Awake \/ need_asr)
          /\ m_iLen_In' = 0 /\ m_iLen_Cod' = 0 /\ m_iLen_Out_Cur' = 0
          /\ m_bPaused' = FALSE /\ m_iLen_Pause' = m_iLen_Pause
      BY <1>6 DEF CheckVad, OpenAfter, CodReset
    <2>2. TypeOK'
      <3>1. awaked' \in BOOLEAN /\ need_asr' \in BOOLEAN /\ quiet' \in BOOLEAN
            /\ has_vad' \in BOOLEAN
        BY <1>1, <2>1 DEF Awake
      <3> QED BY <1>1, <1>3, <1>4, <2>1, <3>1 DEF TypeOK, Steps
    <2>3. PausedIffCanceled' /\ NoGapNoRepeat'
      BY <2>1 DEF PausedIffCanceled, NoGapNoRepeat, Streaming
    <2>4. StepInv' /\ SegmentInv' /\ RewindInv'
      BY <1>1, <1>4, <1>6, <2>1 DEF StepInv, SegmentInv, RewindInv
    <2>5. OpenInv'
      BY <1>1, <1>5, <1>6, <2>1 DEF OpenInv
    <2>6. QuietInv'
      BY <1>1, <2>1 DEF QuietInv
    <2> QED BY <2>2, <2>3, <2>4, <2>5, <2>6
  <1>7. CASE "on" \notin vad
    <2>1. /\ vad_flag' = vad_flag /\ canceled' = canceled /\ data_output' = data_output
          /\ awaked' = awaked /\ need_asr' = need_asr
          /\ m_iLen_In' = m_iLen_In /\ m_iLen_Cod' = m_iLen_Cod
          /\ m_iLen_Out_Cur' = m_iLen_Out_Cur
          /\ m_bPaused' = m_bPaused /\ m_iLen_Pause' = m_iLen_Pause
      BY <1>7 DEF CheckVad, OpenAfter, shared, cod
    <2>2. ~Awake
      BY <1>2, <1>7 DEF VadResults, CallResults
    <2>3. TypeOK'
      <3>1. quiet' \in BOOLEAN /\ has_vad' \in BOOLEAN
        BY <1>1
      <3> QED BY <1>1, <1>3, <1>4, <2>1, <3>1 DEF TypeOK, Steps
    <2>4. PausedIffCanceled' /\ NoGapNoRepeat'
      BY <1>1, <2>1 DEF PausedIffCanceled, NoGapNoRepeat, Streaming
    <2>5. StepInv' /\ SegmentInv' /\ RewindInv' /\ OpenInv'
      BY <1>1, <1>4, <2>1 DEF StepInv, SegmentInv, RewindInv, OpenInv
    <2>6. QuietInv'
      BY <1>1, <2>1, <2>2 DEF QuietInv
    <2> QED BY <2>3, <2>4, <2>5, <2>6
  <1> QED BY <1>6, <1>7

(* __cod->process and the decision to start.                                  *)
LEMMA StartSessionIInv ==
    ASSUME IInv, StartSession
    PROVE  IInv'
  <1> USE DEF IInv
  <1>1. /\ pc = "start" /\ pc' = "cancel" /\ vad_enable' = vad_enable
        /\ vad_flag' = vad_flag /\ has_vad' = has_vad /\ awaked' = awaked
        /\ need_asr' = need_asr /\ frm' = frm /\ ctl' = ctl /\ mode' = mode
        /\ quiet' = quiet /\ m_iLen_Cod' = m_iLen_Cod
    BY DEF StartSession, shared, CodProcess
  <1>2. frm.len \in Nat /\ vad_flag
    BY <1>1 DEF TypeOK, StepInv
  <1>3. m_iLen_In' \in Nat /\ minsil' \in {"normal", "long"}
    BY <1>2 DEF StartSession, CodProcess, TypeOK
  <1>4. CASE StartByWord /\ frm.vbv = "nocmd"
    <2>1. /\ data_output' = TRUE /\ canceled' = TRUE /\ m_iLen_Out_Cur' = 0
          /\ m_bPaused' = TRUE /\ m_iLen_Pause' = m_iLen_In' /\ ~data_output
          /\ ev' = "none" /\ open' = open /\ got' = got
      BY <1>4 DEF StartSession, SendNone, client, StartByWord
    <2>2. TypeOK'
      BY <1>1, <1>3, <2>1 DEF TypeOK, Steps
    <2>3. PausedIffCanceled' /\ NoGapNoRepeat' /\ StepInv' /\ SegmentInv' /\ RewindInv'
      BY <1>1, <1>2, <2>1
      DEF PausedIffCanceled, NoGapNoRepeat, Streaming, StepInv, SegmentInv, RewindInv
    <2>4. OpenInv' /\ QuietInv'
      BY <1>1, <2>1 DEF OpenInv, QuietInv
    <2> QED BY <2>2, <2>3, <2>4
  <1>5. CASE ~(StartByWord /\ frm.vbv = "nocmd")
    <2>1. /\ canceled' = canceled /\ m_iLen_Out_Cur' = m_iLen_Out_Cur
          /\ m_bPaused' = m_bPaused /\ m_iLen_Pause' = m_iLen_Pause
      BY <1>5 DEF StartSession, CodProcess
    <2>2. CASE StartByWord \/ StartByFlag
      <3>1. /\ data_output' = TRUE /\ ev' = "START" /\ open' = TRUE /\ got' = 0
            /\ ~data_output
        BY <1>5, <2>2 DEF StartSession, SendStart, StartByWord, StartByFlag
      <3>2. TypeOK'
        BY <1>1, <1>3, <2>1, <3>1 DEF TypeOK, Steps
      <3>3. PausedIffCanceled' /\ NoGapNoRepeat'
        BY <1>1, <1>2, <2>1, <3>1
        DEF PausedIffCanceled, NoGapNoRepeat, Streaming, RewindInv
      <3>4. StepInv' /\ SegmentInv' /\ RewindInv' /\ QuietInv'
        BY <1>1, <1>2, <2>1, <3>1 DEF StepInv, SegmentInv, RewindInv, QuietInv
      <3>5. OpenInv'
        BY <1>1, <1>2, <2>1, <3>1 DEF OpenInv, RewindInv
      <3> QED BY <3>2, <3>3, <3>4, <3>5
    <2>3. CASE ~(StartByWord \/ StartByFlag)
      <3>1. data_output' = data_output /\ ev' = "none" /\ open' = open /\ got' = got
        BY <1>5, <2>3 DEF StartSession, SendNone, client
      <3>2. TypeOK'
        BY <1>1, <1>3, <2>1, <3>1 DEF TypeOK, Steps
      <3>3. PausedIffCanceled' /\ NoGapNoRepeat'
        BY <1>1, <2>1, <3>1 DEF PausedIffCanceled, NoGapNoRepeat, Streaming
      <3>4. StepInv' /\ SegmentInv' /\ RewindInv' /\ QuietInv' /\ OpenInv'
        BY <1>1, <1>2, <2>1, <3>1 DEF StepInv, SegmentInv, RewindInv, QuietInv, OpenInv
      <3> QED BY <3>2, <3>3, <3>4
    <2> QED BY <2>2, <2>3
  <1> QED BY <1>4, <1>5

(* Too long, or the client has gone to sleep.                                 *)
LEMMA CancelSessionIInv ==
    ASSUME IInv, CancelSession
    PROVE  IInv'
  <1> USE DEF IInv
  <1>1. /\ pc = "cancel" /\ vad_enable' = vad_enable /\ has_vad' = has_vad
        /\ pc' = IF data_output THEN "resume" ELSE "off"
        /\ awaked' = awaked /\ need_asr' = need_asr /\ frm' = frm /\ ctl' = ctl
        /\ mode' = mode /\ quiet' = quiet /\ vad_flag
    BY DEF CancelSession, shared, flags, StepInv
  <1>2. CASE MustCancel
    <2>1. /\ canceled' = TRUE /\ m_iLen_Out_Cur' = 0 /\ m_bPaused' = TRUE
          /\ m_iLen_Pause' = m_iLen_In /\ m_iLen_In' = m_iLen_In
          /\ m_iLen_Cod' = m_iLen_Cod /\ ev' = "CANCEL" /\ open' = FALSE /\ got' = 0
          /\ vad_enable => vad_flag' = vad_flag /\ data_output' = data_output
                           /\ minsil' = minsil
          /\ ~vad_enable => vad_flag' = FALSE /\ data_output' = FALSE
                            /\ minsil' = "normal"
          /\ data_output
      BY <1>2 DEF CancelSession, CodPause, SendCancel, MustCancel
    <2>2. /\ vad_flag' \in BOOLEAN /\ data_output' \in BOOLEAN
          /\ minsil' \in {"normal", "long"}
      <3>1. CASE vad_enable
        BY <2>1, <3>1 DEF TypeOK
      <3>2. CASE ~vad_enable
        BY <2>1, <3>2
      <3> QED BY <3>1, <3>2
    <2>3. TypeOK'
      BY <1>1, <2>1, <2>2 DEF TypeOK, Steps
    <2>4. PausedIffCanceled' /\ NoGapNoRepeat' /\ OpenInv'
      BY <2>1 DEF PausedIffCanceled, NoGapNoRepeat, Streaming, OpenInv
    <2>5. StepInv' /\ SegmentInv' /\ RewindInv'
      BY <1>1, <2>1 DEF StepInv, SegmentInv, RewindInv
    <2>6. QuietInv'
      BY <1>1, <2>1 DEF QuietInv
    <2> QED BY <2>3, <2>4, <2>5, <2>6
  <1>3. CASE ~MustCancel
    <2>1. /\ vad_flag' = vad_flag /\ data_output' = data_output /\ canceled' = canceled
          /\ minsil' = minsil /\ m_iLen_In' = m_iLen_In /\ m_iLen_Cod' = m_iLen_Cod
          /\ m_iLen_Out_Cur' = m_iLen_Out_Cur /\ m_iLen_Pause' = m_iLen_Pause
          /\ m_bPaused' = m_bPaused /\ ev' = "none" /\ open' = open /\ got' = got
      BY <1>3 DEF CancelSession, flags, cod, SendNone, client
    <2>2. TypeOK'
      BY <1>1, <2>1 DEF TypeOK, Steps
    <2>3. PausedIffCanceled' /\ NoGapNoRepeat' /\ OpenInv'
      BY <1>1, <2>1 DEF PausedIffCanceled, NoGapNoRepeat, Streaming, OpenInv
    <2>4. StepInv' /\ SegmentInv' /\ RewindInv'
      BY <1>1, <2>1 DEF StepInv, SegmentInv, RewindInv
    <2>5. QuietInv'
      BY <1>1, <1>3, <2>1 DEF QuietInv, MustCancel
    <2> QED BY <2>2, <2>3, <2>4, <2>5
  <1> QED BY <1>2, <1>3

(* Speech went on after a word without command.                               *)
LEMMA ResumeSessionIInv ==
    ASSUME IInv, ResumeSession
    PROVE  IInv'
  <1> USE DEF IInv
  <1>1. /\ pc = "resume" /\ pc' = "data" /\ vad_enable' = vad_enable
        /\ vad_flag' = vad_flag /\ has_vad' = has_vad /\ data_output' = data_output
        /\ minsil' = minsil /\ awaked' = awaked /\ need_asr' = need_asr
        /\ frm' = frm /\ ctl' = ctl /\ mode' = mode /\ quiet' = quiet
        /\ m_iLen_In' = m_iLen_In /\ m_iLen_Cod' = m_iLen_Cod
        /\ m_iLen_Out_Cur' = m_iLen_Out_Cur /\ m_iLen_Pause' = m_iLen_Pause
    BY DEF ResumeSession, shared, cod, CodResume
  <1>2. CASE vad_enable /\ canceled /\ awaked /\ IsNeedResume
    <2>1. /\ canceled' = FALSE /\ m_bPaused' = FALSE
          /\ ev' = "START" /\ open' = TRUE /\ got' = 0
      BY <1>2 DEF ResumeSession, CodResume, SendStart
    <2>2. TypeOK'
      BY <1>1, <2>1 DEF TypeOK, Steps
    <2>3. vad_flag /\ data_output /\ m_iLen_Out_Cur = 0
      BY <1>1, <1>2 DEF StepInv, RewindInv
    <2>4. PausedIffCanceled' /\ NoGapNoRepeat' /\ OpenInv'
      BY <1>1, <2>1, <2>3 DEF PausedIffCanceled, NoGapNoRepeat, OpenInv
    <2>5. StepInv' /\ SegmentInv' /\ RewindInv'
      BY <1>1, <2>1, <2>3 DEF StepInv, SegmentInv, RewindInv
    <2>6. QuietInv'
      BY <1>1, <1>2, <2>1 DEF QuietInv
    <2> QED BY <2>2, <2>4, <2>5, <2>6
  <1>3. CASE ~(vad_enable /\ canceled /\ awaked /\ IsNeedResume)
    <2>1. /\ canceled' = canceled /\ m_bPaused' = m_bPaused
          /\ ev' = "none" /\ open' = open /\ got' = got
      BY <1>3 DEF ResumeSession, cod, SendNone, client
    <2>2. TypeOK'
      BY <1>1, <2>1 DEF TypeOK, Steps
    <2>3. PausedIffCanceled' /\ NoGapNoRepeat' /\ OpenInv'
      BY <1>1, <2>1 DEF PausedIffCanceled, NoGapNoRepeat, Streaming, OpenInv
    <2>4. StepInv' /\ SegmentInv' /\ RewindInv'
      BY <1>1, <2>1 DEF StepInv, SegmentInv, RewindInv
    <2>5. QuietInv'
      BY <1>1, <2>1 DEF QuietInv
    <2> QED BY <2>2, <2>3, <2>4, <2>5
  <1> QED BY <1>2, <1>3

(* processdata codes whole blocks: its result is a length.                    *)
LEMMA CodedType == TypeOK => Coded \in Nat
  <1> SUFFICES ASSUME TypeOK PROVE Coded \in Nat
    OBVIOUS
  <1>1. m_iLen_In \in Nat /\ m_iLen_Cod \in Nat /\ Frm \in Nat /\ Frm > 0
    BY ConstAssumption DEF TypeOK
  <1>2. CASE m_iLen_In > m_iLen_Cod
    <2> DEFINE x == m_iLen_In - m_iLen_Cod - 1
    <2>1. x \in Nat
      BY <1>1, <1>2
    <2> HIDE DEF x
    <2>2. x \div Frm \in Nat
      BY <1>1, <2>1
    <2> DEFINE q == x \div Frm
    <2>3. Coded = m_iLen_Cod + Frm * q
      BY <1>2 DEF Coded, x
    <2> HIDE DEF q
    <2>4. q \in Nat
      BY <2>2 DEF q
    <2>5. Frm * q \in Nat
      BY <1>1, <2>4
    <2> QED BY <1>1, <2>3, <2>5
  <1>3. CASE ~(m_iLen_In > m_iLen_Cod)
    BY <1>1, <1>3 DEF Coded
  <1> QED BY <1>2, <1>3

(* getdatalen, and VAD_DATA with what it coded.                               *)
LEMMA StreamDataIInv ==
    ASSUME IInv, StreamData
    PROVE  IInv'
  <1> USE DEF IInv
  <1>1. /\ pc = "data" /\ pc' = "off" /\ vad_enable' = vad_enable
        /\ vad_flag' = vad_flag /\ has_vad' = has_vad /\ data_output' = data_output
        /\ canceled' = canceled /\ minsil' = minsil /\ awaked' = awaked
        /\ need_asr' = need_asr /\ frm' = frm /\ ctl' = ctl /\ mode' = mode
        /\ quiet' = quiet
    BY DEF StreamData, shared, flags
  <1>2. /\ m_iLen_In' = m_iLen_In /\ m_iLen_Pause' = m_iLen_Pause
        /\ m_bPaused' = m_bPaused /\ open' = open
    BY DEF StreamData, cod, SendNone, SendData, client
  <1>3. m_iLen_Cod' \in Nat
    BY CodedType DEF StreamData, cod, TypeOK
  <1>4. \/ /\ ev' = "none" /\ got' = got /\ m_iLen_Out_Cur' = m_iLen_Out_Cur
        \/ /\ ~canceled /\ ev' = "DATA" /\ m_iLen_Cod' > m_iLen_Out_Cur
           /\ got' = got + (m_iLen_Cod' - m_iLen_Out_Cur) /\ m_iLen_Out_Cur' = m_iLen_Cod'
    BY DEF StreamData, SendNone, SendData, cod, client
  <1>5. TypeOK'
    <2>1. got' \in Nat /\ m_iLen_Out_Cur' \in Nat /\ ev' \in {"none", "DATA"}
      BY <1>3, <1>4 DEF TypeOK
    <2> QED BY <1>1, <1>2, <1>3, <2>1 DEF TypeOK, Steps
  <1>6. PausedIffCanceled' /\ OpenInv'
    BY <1>1, <1>2 DEF PausedIffCanceled, OpenInv
  <1>7. NoGapNoRepeat'
    BY <1>1, <1>2, <1>3, <1>4 DEF NoGapNoRepeat, Streaming, TypeOK
  <1>8. StepInv' /\ SegmentInv' /\ QuietInv'
    BY <1>1 DEF StepInv, SegmentInv, QuietInv
  <1>9. RewindInv'
    BY <1>1, <1>4 DEF RewindInv, StepInv
  <1> QED BY <1>5, <1>6, <1>7, <1>8, <1>9

(* The VAD_OFF block.                                                         *)
LEMMA VadOffIInv ==
    ASSUME IInv, VadOff
    PROVE  IInv'
  <1> USE DEF IInv
  <1>1. /\ pc = "off" /\ pc' = "idle" /\ vad_enable' = vad_enable
        /\ has_vad' = has_vad /\ canceled' = canceled /\ minsil' = minsil
        /\ awaked' = awaked /\ ctl' = ctl /\ mode' = mode /\ quiet' = quiet
        /\ m_iLen_In' = m_iLen_In /\ m_iLen_Cod' = m_iLen_Cod
        /\ m_iLen_Out_Cur' = m_iLen_Out_Cur /\ m_iLen_Pause' = m_iLen_Pause
        /\ m_bPaused' = m_bPaused
        /\ frm' = [vbv |-> "none", word |-> "NONE", vad |-> {}, len |-> 0]
    BY DEF VadOff, cod, NoFrame
  <1>2. CASE "off" \in frm.vad
    <2>1. /\ vad_flag' = FALSE /\ data_output' = FALSE
          /\ need_asr' = (need_asr /\ ~vad_enable)
      BY <1>2 DEF VadOff
    <2>2. CASE vad_enable /\ data_output /\ ~canceled
      <3>1. ev' = "END" /\ open' = FALSE /\ got' = 0
        BY <1>2, <2>2 DEF VadOff, SendEnd
      <3>2. TypeOK'
        BY <1>1, <2>1, <3>1 DEF TypeOK, Steps, VbvResults, WordTypes
      <3>3. PausedIffCanceled' /\ NoGapNoRepeat' /\ OpenInv'
        BY <1>1, <2>1, <3>1 DEF PausedIffCanceled, NoGapNoRepeat, Streaming, OpenInv
      <3>4. StepInv' /\ SegmentInv' /\ RewindInv' /\ QuietInv'
        BY <1>1, <2>1 DEF StepInv, SegmentInv, RewindInv, QuietInv
      <3> QED BY <3>2, <3>3, <3>4
    <2>3. CASE ~(vad_enable /\ data_output /\ ~canceled)
      <3>1. ev' = "none" /\ open' = open /\ got' = got
        BY <1>2, <2>3 DEF VadOff, SendNone, client
      <3>2. TypeOK'
        BY <1>1, <2>1, <3>1 DEF TypeOK, Steps, VbvResults, WordTypes
      <3>3. PausedIffCanceled' /\ NoGapNoRepeat' /\ OpenInv'
        BY <1>1, <2>1, <2>3, <3>1
        DEF PausedIffCanceled, NoGapNoRepeat, Streaming, OpenInv
      <3>4. StepInv' /\ SegmentInv' /\ RewindInv' /\ QuietInv'
        BY <1>1, <2>1 DEF StepInv, SegmentInv, RewindInv, QuietInv
      <3> QED BY <3>2, <3>3, <3>4
    <2> QED BY <2>2, <2>3
  <1>3. CASE "off" \notin frm.vad
    <2>1. /\ vad_flag' = vad_flag /\ data_output' = data_output /\ need_asr' = need_asr
          /\ ev' = "none" /\ open' = open /\ got' = got
      BY <1>3 DEF VadOff, SendNone, client
    <2>2. TypeOK'
      BY <1>1, <2>1 DEF TypeOK, Steps, VbvResults, WordTypes
    <2>3. PausedIffCanceled' /\ NoGapNoRepeat' /\ OpenInv'
      BY <1>1, <2>1 DEF PausedIffCanceled, NoGapNoRepeat, Streaming, OpenInv
    <2>4. StepInv' /\ SegmentInv' /\ RewindInv' /\ QuietInv'
      BY <1>1, <1>3, <2>1 DEF StepInv, SegmentInv, RewindInv, QuietInv
    <2> QED BY <2>2, <2>3, <2>4
  <1> QED BY <1>2, <1>3

(* Every step of processfrm and of control() preserves the invariant.         *)
LEMMA NextIInv == IInv /\ [Next]_vars => IInv'
  <1> SUFFICES ASSUME IInv, [Next]_vars PROVE IInv'
    OBVIOUS
  <1>1. CASE Control \/ ControlStep
    BY <1>1, ControlIInv
  <1>2. CASE Process
    BY <1>2, DetectIInv, CheckVadIInv, StartSessionIInv, CancelSessionIInv,
       ResumeSessionIInv, StreamDataIInv, VadOffIInv DEF Process
  <1>3. CASE UNCHANGED vars
    <2> USE <1>3 DEF vars, flags, shared, cod, client, IInv
    <2>1. TypeOK' BY DEF TypeOK
    <2>2. PausedIffCanceled' /\ NoGapNoRepeat' /\ OpenInv'
      BY DEF PausedIffCanceled, NoGapNoRepeat, Streaming, OpenInv
    <2>3. StepInv' /\ SegmentInv' /\ RewindInv' /\ QuietInv'
      BY DEF StepInv, SegmentInv, RewindInv, QuietInv
    <2> QED BY <2>1, <2>2, <2>3
  <1> QED BY <1>1, <1>2, <1>3 DEF Next

-----------------------------------------------------------------------------
(* The inductive invariant holds in every reachable state.                    *)
THEOREM Invariance == Spec => []IInv
  BY InitIInv, NextIInv, PTL DEF Spec

(* The members of VoiceActivation and of r2mem_cod keep their types: the      *)
(* coder's positions never become negative.                                   *)
THEOREM TypeCorrect == Spec => []TypeOK
  <1>1. IInv => TypeOK BY DEF IInv
  <1> QED BY <1>1, Invariance, PTL

(* r2mem_cod's assertions on m_bPaused never fail, whatever control() does.   *)
THEOREM CoderFollowsSession == Spec => []PausedIffCanceled
  <1>1. IInv => PausedIffCanceled BY DEF IInv
  <1> QED BY <1>1, Invariance, PTL

(* The client of a streaming session has got exactly the audio up to the      *)
(* coder's output position.                                                   *)
THEOREM StreamIsGapless == Spec => []NoGapNoRepeat
  <1>1. IInv => NoGapNoRepeat BY DEF IInv
  <1> QED BY <1>1, Invariance, PTL

(* No audio is called back for a frame that began after the change to SLEEP   *)
(* was complete.                                                              *)
THEOREM SleepIsSilent == Spec => SleepSilences
  <1>1. IInv /\ [Next]_vars => [ev' = "DATA" => ~quiet]_vars
    <2> SUFFICES ASSUME IInv, Next, ev' = "DATA" PROVE ~quiet
      OBVIOUS
    <2>1. CASE StreamData
      <3>1. pc = "data" /\ ~canceled
        BY <2>1 DEF StreamData, SendNone, SendData
      <3> QED BY <3>1 DEF IInv, QuietInv
    <2>2. CASE Control \/ ControlStep
      BY <2>2 DEF Control, ControlStep, ControlAwake, ControlSleep, ControlStore
    <2>3. ASSUME NEW vbv \in VbvResults, NEW word \in WordTypes, Detect(vbv, word)
          PROVE  FALSE
      BY <2>3 DEF Detect, ResetAsr, SendNone, SendCancel
    <2>4. ASSUME NEW vad \in SUBSET {"on", "off"}, NEW len \in Lens, CheckVad(vad, len)
          PROVE  FALSE
      BY <2>4 DEF CheckVad, SendNone
    <2>5. CASE StartSession \/ CancelSession \/ ResumeSession \/ VadOff
      BY <2>5 DEF StartSession, CancelSession, ResumeSession, VadOff,
         SendNone, SendStart, SendCancel, SendEnd
    <2> QED BY <2>1, <2>2, <2>3, <2>4, <2>5 DEF Next, Process
  <1> QED BY <1>1, Invariance, PTL DEF Spec, SleepSilences

-----------------------------------------------------------------------------
(* Whatever control() interleaves, the event stream is a sequence of          *)
(* well-formed sessions.                                                      *)
THEOREM WellFormedSessions == Spec => ImplementsSession
  <1>1. Init => Session!Init
    BY DEF Init, Session!Init
  <1>2. IInv /\ [Next]_vars => [Session!Next]_Session!vars
    <2> SUFFICES ASSUME IInv, [Next]_vars PROVE [Session!Next]_Session!vars
      OBVIOUS
    <2> USE DEF IInv, Session!Next, Session!vars, Session!Start, Session!Data,
            Session!End, Session!Cancel, Session!Quiet
    <2>1. CASE Control \/ ControlStep
      BY <2>1 DEF Control, ControlStep, ControlAwake, ControlSleep, ControlStore, client
    <2>2. ASSUME NEW vbv \in VbvResults, NEW word \in WordTypes, Detect(vbv, word)
          PROVE  Session!Next
      BY <2>2 DEF Detect, ResetAsr, SendNone, SendCancel, client
    <2>3. ASSUME NEW vad \in SUBSET {"on", "off"}, NEW len \in Lens, CheckVad(vad, len)
          PROVE  Session!Next
      BY <2>3 DEF CheckVad, SendNone, client
    <2>4. CASE StartSession
      <3>1. ev' = "START" => ~data_output
        BY <2>4 DEF StartSession, StartByWord, StartByFlag, SendNone, SendStart
      <3>2. ev' = "START" /\ vad_enable => ~open
        BY <3>1 DEF OpenInv
      <3>3. /\ vad_enable' = vad_enable
            /\ (ev' = "START" /\ open' = TRUE) \/ (ev' = "none" /\ open' = open)
        BY <2>4 DEF StartSession, SendNone, SendStart, client
      <3> QED BY <3>2, <3>3
    <2>5. CASE CancelSession
      BY <2>5 DEF CancelSession, SendNone, SendCancel, client, flags
    <2>6. CASE ResumeSession
      <3>1. ev' = "START" => canceled
        BY <2>6 DEF ResumeSession, SendNone, SendStart
      <3>2. ev' = "START" /\ vad_enable => ~open
        BY <3>1 DEF OpenInv
      <3>3. /\ vad_enable' = vad_enable
            /\ (ev' = "START" /\ open' = TRUE) \/ (ev' = "none" /\ open' = open)
        BY <2>6 DEF ResumeSession, SendNone, SendStart, client
      <3> QED BY <3>2, <3>3
    <2>7. CASE StreamData
      <3>1. ev' = "DATA" => ~canceled /\ pc = "data"
        BY <2>7 DEF StreamData, SendNone, SendData
      <3>2. ev' = "DATA" => open
        BY <3>1 DEF StepInv, NoGapNoRepeat, Streaming
      <3>3. /\ vad_enable' = vad_enable /\ open' = open
            /\ (ev' = "DATA" \/ ev' = "none")
        BY <2>7 DEF StreamData, SendNone, SendData, client, flags
      <3> QED BY <3>2, <3>3
    <2>8. CASE VadOff
      <3>1. ev' = "END" => vad_enable /\ data_output /\ ~canceled
        BY <2>8 DEF VadOff, SendNone, SendEnd
      <3>2. ev' = "END" => vad_enable /\ open
        BY <3>1 DEF SegmentInv, NoGapNoRepeat, Streaming
      <3>3. /\ vad_enable' = vad_enable
            /\ (ev' = "END" /\ open' = FALSE) \/ (ev' = "none" /\ open' = open)
        BY <2>8 DEF VadOff, SendNone, SendEnd, client
      <3> QED BY <3>2, <3>3
    <2>9. CASE UNCHANGED vars
      BY <2>9 DEF vars, client
    <2> QED
      BY <2>1, <2>2, <2>3, <2>4, <2>5, <2>6, <2>7, <2>8, <2>9 DEF Next, Process
  <1> QED BY <1>1, <1>2, Invariance, PTL DEF Spec, ImplementsSession, Session!Spec

-----------------------------------------------------------------------------
(* At the end of a segment everything codable has been coded and sent.        *)
CompleteInv ==
    /\ m_iLen_Out_Cur <= m_iLen_Cod
    /\ pc = "off" /\ "off" \in frm.vad /\ vad_enable /\ data_output /\ ~canceled =>
          m_iLen_Out_Cur = m_iLen_Cod /\ m_iLen_In - m_iLen_Cod <= Frm

(* processdata leaves at most one block uncoded, and never goes back.         *)
LEMMA CodedBound ==
    TypeOK => m_iLen_Cod <= Coded /\ m_iLen_In - Coded <= Frm
  <1> SUFFICES ASSUME TypeOK PROVE m_iLen_Cod <= Coded /\ m_iLen_In - Coded <= Frm
    OBVIOUS
  <1>1. m_iLen_In \in Nat /\ m_iLen_Cod \in Nat /\ Frm \in Nat /\ Frm > 0
    BY ConstAssumption DEF TypeOK
  <1>2. CASE m_iLen_In > m_iLen_Cod
    <2> DEFINE x == m_iLen_In - m_iLen_Cod - 1
               q == x \div Frm
               r == x % Frm
    <2>1. x \in Nat
      BY <1>1, <1>2
    <2> HIDE DEF x
    <2>2. q \in Nat /\ r \in 0..(Frm - 1) /\ x = Frm * q + r
      BY <1>1, <2>1
    <2>3. Coded = m_iLen_Cod + Frm * q
      BY <1>2 DEF Coded, x
    <2> HIDE DEF q, r
    <2>4. Frm * q \in Nat
      BY <1>1, <2>2
    <2>5. x - Frm * q <= Frm - 1
      BY <1>1, <2>1, <2>2, <2>4
    <2> QED BY <1>1, <2>3, <2>4, <2>5 DEF x
  <1>3. CASE ~(m_iLen_In > m_iLen_Cod)
    BY <1>1, <1>3 DEF Coded
  <1> QED BY <1>2, <1>3

(* Every step preserves it.                                                   *)
LEMMA NextCompleteInv == IInv /\ IInv' /\ CompleteInv /\ [Next]_vars => CompleteInv'
  <1> SUFFICES ASSUME IInv, IInv', CompleteInv, [Next]_vars PROVE CompleteInv'
    OBVIOUS
  <1>0. /\ m_iLen_In \in Nat /\ m_iLen_Cod \in Nat /\ m_iLen_Out_Cur \in Nat
        /\ m_iLen_Cod' \in Nat /\ m_iLen_Out_Cur' \in Nat
    BY DEF IInv, TypeOK
  <1>1. CASE Control \/ ControlStep \/ UNCHANGED vars
    BY <1>1 DEF Control, ControlStep, ControlAwake, ControlSleep, ControlStore,
       vars, flags, cod, CompleteInv
  <1>2. ASSUME NEW vbv \in VbvResults, NEW word \in WordTypes, Detect(vbv, word)
        PROVE  CompleteInv'
    <2>1. pc' = "vad"
      BY <1>2 DEF Detect
    <2>2. m_iLen_Out_Cur' <= m_iLen_Cod'
      BY <1>0, <1>2 DEF Detect, ResetAsr, CodReset, cod, CompleteInv
    <2> QED BY <2>1, <2>2 DEF CompleteInv
  <1>3. ASSUME NEW vad \in SUBSET {"on", "off"}, NEW len \in Lens, CheckVad(vad, len)
        PROVE  CompleteInv'
    <2>1. m_iLen_Out_Cur' <= m_iLen_Cod'
      BY <1>0, <1>3 DEF CheckVad, CodReset, cod, CompleteInv
    <2>2. pc' = "off" => ~vad_flag'
      BY <1>3 DEF CheckVad
    <2>3. pc' = "off" => ~(vad_enable' /\ data_output')
      BY <2>2 DEF IInv, SegmentInv
    <2> QED BY <2>1, <2>3 DEF CompleteInv
  <1>4. CASE StartSession
    <2>1. pc' = "cancel" /\ m_iLen_Cod' = m_iLen_Cod
          /\ (m_iLen_Out_Cur' = 0 \/ m_iLen_Out_Cur' = m_iLen_Out_Cur)
      BY <1>4 DEF StartSession, CodProcess
    <2> QED BY <1>0, <2>1 DEF CompleteInv
  <1>5. CASE CancelSession
    <2>1. /\ m_iLen_Cod' = m_iLen_Cod
          /\ (m_iLen_Out_Cur' = 0 \/ m_iLen_Out_Cur' = m_iLen_Out_Cur)
      BY <1>5 DEF CancelSession, CodPause, cod
    <2>2. pc' = "off" => ~data_output'
      BY <1>5 DEF CancelSession, MustCancel, flags
    <2> QED BY <1>0, <2>1, <2>2 DEF CompleteInv
  <1>6. CASE ResumeSession
    BY <1>6 DEF ResumeSession, CodResume, cod, CompleteInv
  <1>7. CASE StreamData
    <2>1. /\ frm' = frm /\ vad_enable' = vad_enable /\ data_output' = data_output
          /\ canceled' = canceled /\ m_iLen_In' = m_iLen_In
      BY <1>7 DEF StreamData, flags, cod
    <2>2. m_iLen_Cod <= Coded /\ m_iLen_In - Coded <= Frm /\ Coded \in Nat
      BY CodedBound, CodedType DEF IInv
    <2>3. CASE canceled
      <3>1. m_iLen_Cod' = m_iLen_Cod /\ m_iLen_Out_Cur' = m_iLen_Out_Cur
        BY <1>7, <2>3 DEF StreamData, cod
      <3> QED BY <2>1, <2>3, <3>1 DEF CompleteInv
    <2>4. CASE ~canceled /\ "off" \in frm.vad
      <3>1. /\ m_iLen_Cod' = Coded
            /\ m_iLen_Out_Cur' = IF Coded > m_iLen_Out_Cur THEN Coded ELSE m_iLen_Out_Cur
        BY <1>7, <2>4 DEF StreamData, SendData
      <3>2. m_iLen_Out_Cur' = Coded
        BY <1>0, <2>2, <3>1 DEF CompleteInv
      <3> QED BY <2>1, <2>2, <3>1, <3>2 DEF CompleteInv
    <2>5. CASE ~canceled /\ "off" \notin frm.vad
      <3>1. \/ m_iLen_Cod' = m_iLen_Cod /\ m_iLen_Out_Cur' = m_iLen_Out_Cur
            \/ m_iLen_Cod' = Coded /\ m_iLen_Out_Cur' \in {Coded, m_iLen_Out_Cur}
        BY <1>7, <2>5 DEF StreamData, SendData
      <3>2. m_iLen_Out_Cur' <= m_iLen_Cod'
        BY <1>0, <2>2, <3>1 DEF CompleteInv
      <3> QED BY <2>1, <2>5, <3>2 DEF CompleteInv
    <2> QED BY <2>3, <2>4, <2>5
  <1>8. CASE VadOff
    BY <1>8 DEF VadOff, cod, CompleteInv
  <1> QED
    BY <1>1, <1>2, <1>3, <1>4, <1>5, <1>6, <1>7, <1>8 DEF Next, Process

(* When VAD_END is sent the client has got all that was coded, and at most    *)
(* one block of the segment was left uncoded.                                 *)
THEOREM EndComplete == Spec => EndIsComplete
  <1>1. Init => CompleteInv
    BY DEF Init, CompleteInv
  <1>2. IInv /\ CompleteInv /\ [Next]_vars =>
          [ev' = "END" => got = m_iLen_Cod /\ m_iLen_In - m_iLen_Cod <= Frm]_vars
    <2> SUFFICES ASSUME IInv, CompleteInv, Next, ev' = "END"
                 PROVE  got = m_iLen_Cod /\ m_iLen_In - m_iLen_Cod <= Frm
      OBVIOUS
    <2>1. CASE VadOff
      <3>1. pc = "off" /\ "off" \in frm.vad /\ vad_enable /\ data_output /\ ~canceled
        BY <2>1 DEF VadOff, SendNone, SendEnd
      <3>2. got = m_iLen_Out_Cur
        BY <3>1 DEF IInv, SegmentInv, NoGapNoRepeat, Streaming
      <3> QED BY <3>1, <3>2 DEF CompleteInv
    <2>2. CASE Control \/ ControlStep
      BY <2>2 DEF Control, ControlStep, ControlAwake, ControlSleep, ControlStore
    <2>3. ASSUME NEW vbv \in VbvResults, NEW word \in WordTypes, Detect(vbv, word)
          PROVE  FALSE
      BY <2>3 DEF Detect, ResetAsr, SendNone, SendCancel
    <2>4. ASSUME NEW vad \in SUBSET {"on", "off"}, NEW len \in Lens, CheckVad(vad, len)
          PROVE  FALSE
      BY <2>4 DEF CheckVad, SendNone
    <2>5. CASE StartSession \/ CancelSession \/ ResumeSession \/ StreamData
      BY <2>5 DEF StartSession, CancelSession, ResumeSession, StreamData,
         SendNone, SendStart, SendCancel, SendData
    <2> QED BY <2>1, <2>2, <2>3, <2>4, <2>5 DEF Next, Process
  <1> QED
    BY <1>1, <1>2, NextCompleteInv, Invariance, PTL DEF Spec, EndIsComplete
-----------------------------------------------------------------------------
(* Why SleepClosesSession holds, and how soon: with the local VAD no session  *)
(* is open any more when processfrm leaves the cancellation of the first      *)
(* frame that began after the change to SLEEP was complete.                   *)
ClosedByFirstFrame ==
    vad_enable /\ quiet /\ pc \in {"resume", "data", "off", "idle"} => ~open

(* What is left of the current frame. *)
StepsLeft ==
    CASE pc = "vad" -> 6 [] pc = "start" -> 5 [] pc = "cancel" -> 4
      [] pc = "resume" -> 3 [] pc = "data" -> 2 [] pc = "off" -> 1 [] OTHER -> 0

(* A frame is a bounded number of steps: each step of processfrm but the one  *)
(* that begins a frame leaves fewer, and control() leaves as many.            *)
FrameAdvances ==
    /\ Process => pc = "idle" \/ StepsLeft' < StepsLeft
    /\ Control \/ ControlStep => StepsLeft' = StepsLeft

(* Every step preserves the closing. *)
LEMMA NextClosed ==
    ASSUME IInv, IInv', ClosedByFirstFrame, [Next]_vars
    PROVE  ClosedByFirstFrame'
  <1> SUFFICES ASSUME vad_enable', quiet', pc' \in {"resume", "data", "off", "idle"}, open'
               PROVE  FALSE
    BY DEF ClosedByFirstFrame
  <1>0. vad_flag' /\ data_output' /\ ~canceled'
    BY DEF IInv, OpenInv
  <1>1. CASE Control \/ ControlStep
    BY <1>1 DEF Control, ControlStep, ControlAwake, ControlSleep, ControlStore, client,
       ClosedByFirstFrame
  <1>2. ASSUME NEW vbv \in VbvResults, NEW word \in WordTypes, Detect(vbv, word)
        PROVE  FALSE
    BY <1>2 DEF Detect
  <1>3. ASSUME NEW vad \in SUBSET {"on", "off"}, NEW len \in Lens, CheckVad(vad, len)
        PROVE  FALSE
    BY <1>0, <1>3 DEF CheckVad
  <1>4. CASE StartSession
    BY <1>4 DEF StartSession
  <1>5. CASE CancelSession
    <2>1. quiet /\ vad_enable /\ ~awaked /\ ~need_asr
      BY <1>5 DEF CancelSession, IInv, QuietInv
    <2>2. CASE MustCancel
      BY <1>5, <2>2 DEF CancelSession, SendCancel
    <2>3. CASE ~MustCancel
      <3>1. open /\ data_output /\ ~canceled
        BY <1>0, <1>5, <2>3 DEF CancelSession, SendNone, client, flags
      <3> QED BY <2>1, <2>3, <3>1 DEF MustCancel
    <2> QED BY <2>2, <2>3
  <1>6. CASE ResumeSession
    <2>1. quiet /\ vad_enable /\ ~awaked /\ pc = "resume"
      BY <1>6 DEF ResumeSession, IInv, QuietInv
    <2>2. open' = open
      BY <1>6, <2>1 DEF ResumeSession, SendNone, client
    <2> QED BY <2>1, <2>2 DEF ClosedByFirstFrame
  <1>7. CASE StreamData
    <2>1. quiet /\ vad_enable /\ pc = "data" /\ open' = open
      BY <1>7 DEF StreamData, SendNone, SendData, client
    <2> QED BY <2>1 DEF ClosedByFirstFrame
  <1>8. CASE VadOff
    <2>1. quiet /\ vad_enable /\ pc = "off" /\ (open' => open)
      BY <1>8 DEF VadOff, SendNone, SendEnd, client
    <2> QED BY <2>1 DEF ClosedByFirstFrame
  <1>9. CASE UNCHANGED vars
    BY <1>9 DEF vars, client, ClosedByFirstFrame
  <1> QED BY <1>1, <1>2, <1>3, <1>4, <1>5, <1>6, <1>7, <1>8, <1>9 DEF Next, Process

(* The sleep of the client closes its session within one frame.               *)
THEOREM SleepClosesByFirstFrame == Spec => []ClosedByFirstFrame
  <1>1. Init => ClosedByFirstFrame
    BY DEF Init, ClosedByFirstFrame
  <1> QED BY <1>1, NextClosed, Invariance, PTL DEF Spec

(* And that frame comes to its end.                                           *)
THEOREM FramesAdvance == Spec => [][FrameAdvances]_vars
  <1>1. ASSUME IInv, Next PROVE FrameAdvances
    <2>1. CASE Control \/ ControlStep
      BY <2>1 DEF Control, ControlStep, ControlAwake, ControlSleep, ControlStore,
         Process, Detect, CheckVad, StartSession, CancelSession, ResumeSession,
         StreamData, VadOff, FrameAdvances, StepsLeft
    <2>2. CASE Process
      <3>1. \/ pc = "idle" /\ pc' = "vad"
            \/ pc = "vad" /\ pc' \in {"start", "off"}
            \/ pc = "start" /\ pc' = "cancel"
            \/ pc = "cancel" /\ pc' \in {"resume", "off"}
            \/ pc = "resume" /\ pc' = "data"
            \/ pc = "data" /\ pc' = "off"
            \/ pc = "off" /\ pc' = "idle"
        BY <2>2 DEF Process, Detect, CheckVad, StartSession, CancelSession,
           ResumeSession, StreamData, VadOff
      <3>2. ~(Control \/ ControlStep)
        BY <3>1 DEF Control, ControlStep, ControlAwake, ControlSleep, ControlStore
      <3>3. pc = "idle" \/ StepsLeft' < StepsLeft
        BY <3>1 DEF StepsLeft
      <3> QED BY <3>2, <3>3 DEF FrameAdvances
    <2> QED BY <1>1, <2>1, <2>2 DEF Next
  <1> QED BY <1>1, Invariance, PTL DEF Spec
=============================================================================
