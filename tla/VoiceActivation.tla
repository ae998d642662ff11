--------------------------- MODULE VoiceActivation ---------------------------
(***************************************************************************)
(* voice_activation.cpp: the session state machine of processfrm, with the  *)
(* coder r2mem_cod it drives, interleaved with VsysActivation_Control       *)
(* called from another thread.                                              *)
(*                                                                          *)
(* One call of processfrm is a sequence of steps (pc) cut where it reads    *)
(* need_asr or awaked, the two plain bools control() writes.  What the      *)
(* wake-word engine (r2_vbv_process) and the voice detector (ztvad) report  *)
(* is an input of the steps.  Lengths are in frames of frame_size samples.  *)
(***************************************************************************)
EXTENDS Integers, FiniteSets, VadInterface

CONSTANTS
    Frm,        \* m_iLen_Frm_Cod: the coder works on blocks of Frm
    TooLong,    \* m_iShield_TooLong
    Resume,     \* m_iShield_Resume
    Lens,       \* lengths the voice detector may return for one call
    MaxIn       \* bound on m_iLen_In

ASSUME ConstAssumption ==
    /\ Frm \in Nat \ {0} /\ TooLong \in Nat /\ Resume \in Nat /\ MaxIn \in Nat
    /\ Lens \subseteq Nat /\ 0 \in Lens

VARIABLES
    vad_enable, vad_flag, has_vad, data_output, awaked, canceled, need_asr,
    minsil,     \* VD_PARAM_MINSILFRAMENUM: "normal" (frame_num) or "long" (2000)
    m_iLen_In, m_iLen_Cod, m_iLen_Out_Cur, m_iLen_Pause, m_bPaused,
    pc,         \* where processfrm is; "idle": between two frames
    frm,        \* results of the engine and of the detector for this frame
    ctl,        \* fields a control(SLEEP) in progress has still to clear
    open, ev,   \* history: a session is open for the client; event of this step
    got,        \* history: audio received by the client since the last START
    mode,       \* history: "ACTIVE" or "SLEEP" as VoiceActivation.java defines
                \* them: the last control() call or wake or sleep word
    quiet       \* history: the change to SLEEP was complete when this frame began

flags   == <<vad_flag, has_vad, data_output, canceled, minsil>>
shared  == <<awaked, need_asr>>
cod     == <<m_iLen_In, m_iLen_Cod, m_iLen_Out_Cur, m_iLen_Pause, m_bPaused>>
client  == <<open, got>>
vars == <<vad_enable, flags, shared, cod, pc, frm, ctl, client, ev, mode, quiet>>

WordTypes == {"AWAKE", "SLEEP", "HOTWORD", "NONE"}
VbvResults == {"none", "pre", "cmd", "nocmd"}
Steps == {"idle", "vad", "start", "cancel", "resume", "data", "off"}
NoFrame == [vbv |-> "none", word |-> "NONE", vad |-> {}, len |-> 0]

(* The member initialisers of the constructor, and init()'s vad_enable. *)
Init ==
    /\ vad_enable \in BOOLEAN
    /\ vad_flag = FALSE /\ has_vad = FALSE /\ data_output = FALSE
    /\ awaked = FALSE /\ canceled = FALSE /\ need_asr = FALSE
    /\ minsil = "normal"
    /\ m_iLen_In = 0 /\ m_iLen_Cod = 0 /\ m_iLen_Out_Cur = 0
    /\ m_iLen_Pause = 0 /\ m_bPaused = FALSE
    /\ pc = "idle" /\ frm = NoFrame /\ ctl = {}
    /\ open = FALSE /\ ev = "none" /\ got = 0
    /\ mode = "SLEEP" /\ quiet = FALSE

-----------------------------------------------------------------------------
(* r2mem_cod *)

CodResetMutant ==
    /\ m_iLen_In' = 0 /\ m_iLen_Cod' = 0
    /\ m_bPaused' = FALSE
    /\ UNCHANGED <<m_iLen_Pause, m_iLen_Out_Cur>>

CodReset ==
    /\ m_iLen_In' = 0 /\ m_iLen_Cod' = 0 /\ m_iLen_Out_Cur' = 0
    /\ m_bPaused' = FALSE
    /\ UNCHANGED m_iLen_Pause

CodPauseMutant ==
    /\ m_iLen_Out_Cur' = m_iLen_Out_Cur - Frm
    /\ m_bPaused' = TRUE
    /\ m_iLen_Pause' = m_iLen_In
    /\ UNCHANGED <<m_iLen_In, m_iLen_Cod>>

(* pause rewinds the output: after resume the client gets all of it again. *)
CodPause ==
    /\ m_iLen_Out_Cur' = 0
    /\ m_bPaused' = TRUE
    /\ m_iLen_Pause' = m_iLen_In
    /\ UNCHANGED <<m_iLen_In, m_iLen_Cod>>

CodResume ==
    /\ m_bPaused' = FALSE
    /\ UNCHANGED <<m_iLen_In, m_iLen_Cod, m_iLen_Out_Cur, m_iLen_Pause>>

CodProcess(n) ==
    /\ m_iLen_In' = m_iLen_In + n
    /\ UNCHANGED <<m_iLen_Cod, m_iLen_Out_Cur, m_iLen_Pause, m_bPaused>>

(* processdata: while (m_iLen_Cod + m_iLen_Frm_Cod < m_iLen_In) code a block. *)
(* Two output bytes per coded sample: m_iLen_Out is m_iLen_Cod in samples.    *)
Coded == IF m_iLen_In > m_iLen_Cod
         THEN m_iLen_Cod + Frm * ((m_iLen_In - m_iLen_Cod - 1) \div Frm)
         ELSE m_iLen_Cod

IsTooLong == m_iLen_In > TooLong

IsNeedResume ==
    /\ m_bPaused
    /\ m_iLen_In < TooLong
    /\ m_iLen_In - m_iLen_Pause > Resume

-----------------------------------------------------------------------------
(* control(), called by another thread.  SLEEP clears two fields with plain   *)
(* stores that the compiler may order either way.                             *)

ControlAwake ==
    /\ ctl = {}
    /\ need_asr' = TRUE
    /\ mode' = "ACTIVE" /\ quiet' = FALSE
    /\ ev' = "none"
    /\ UNCHANGED <<vad_enable, flags, awaked, cod, pc, frm, ctl, client>>

ControlSleep ==
    /\ ctl = {}
    /\ ctl' = {"awaked", "need_asr"}
    /\ mode' = "SLEEP"
    /\ ev' = "none"
    /\ UNCHANGED <<vad_enable, flags, shared, cod, pc, frm, client, quiet>>

ControlStoreMutant(f) ==
    /\ f \in ctl
    /\ ctl' = ctl \ {f}
    /\ need_asr' = (f # "need_asr" /\ need_asr)
    /\ UNCHANGED awaked
    /\ ev' = "none"
    /\ UNCHANGED <<vad_enable, flags, cod, pc, frm, client, mode, quiet>>

ControlStore(f) ==
    /\ f \in ctl
    /\ ctl' = ctl \ {f}
    /\ awaked' = (f # "awaked" /\ awaked)
    /\ need_asr' = (f # "need_asr" /\ need_asr)
    /\ ev' = "none"
    /\ UNCHANGED <<vad_enable, flags, cod, pc, frm, client, mode, quiet>>

-----------------------------------------------------------------------------
(* Events.  A step sends at most one event of the START/DATA/END/CANCEL       *)
(* protocol; COMING, VT_INFO and the word events do not belong to it.         *)

SendStart  == ev' = "START"  /\ open' = TRUE  /\ got' = 0
SendCancel == ev' = "CANCEL" /\ open' = FALSE /\ got' = 0
SendEnd    == ev' = "END"    /\ open' = FALSE /\ got' = 0
SendNone   == ev' = "none"   /\ UNCHANGED client
(* VAD_DATA carries everything coded and not yet sent (getdata2). *)
SendData   ==
    /\ ev' = "DATA" /\ UNCHANGED open
    /\ got' = got + (m_iLen_Cod' - m_iLen_Out_Cur)
    /\ m_iLen_Out_Cur' = m_iLen_Cod'

(* reset_asr.  canceled is cleared before it is tested, so CANCEL is sent     *)
(* whenever data_output is set.                                               *)
ResetAsrMutant ==
    /\ vad_flag' = FALSE /\ canceled' = FALSE
    /\ awaked' = FALSE /\ need_asr' = FALSE
    /\ has_vad' = FALSE
    /\ UNCHANGED cod
    /\ IF data_output THEN SendCancel ELSE SendNone
    /\ data_output' = (data_output /\ ~vad_enable)
    /\ UNCHANGED minsil

ResetAsr ==
    /\ vad_flag' = FALSE /\ canceled' = FALSE
    /\ awaked' = FALSE /\ need_asr' = FALSE
    /\ has_vad' = FALSE
    /\ CodReset
    /\ IF data_output THEN SendCancel ELSE SendNone
    /\ data_output' = (data_output /\ ~vad_enable)
    /\ UNCHANGED minsil

(* do_activation and, on a detected word, reset_asr. *)
Detect(vbv, word) ==
    /\ pc = "idle" /\ (vbv = "none" <=> word = "NONE")
    /\ pc' = "vad"
    /\ frm' = [NoFrame EXCEPT !.vbv = vbv, !.word = word]
    /\ IF vbv = "none" THEN SendNone /\ UNCHANGED <<flags, shared, cod>>
                       ELSE ResetAsr
    /\ quiet' = (mode = "SLEEP" /\ ctl = {})
    /\ mode' = IF word = "SLEEP" THEN "SLEEP" ELSE mode
    /\ UNCHANGED <<vad_enable, ctl>>

Awake == frm.word = "AWAKE"

(* What check_voice_activity may return; force_start is Awake.                *)
VadResults == CallResults(has_vad, Awake)

(* The detector's result, the VAD_ON block and the word events with their     *)
(* set_vad_frame_num.                                                         *)
CheckVad(vad, len) ==
    /\ pc = "vad" /\ vad \in VadResults
    /\ has_vad \/ vad # {} \/ len = 0
    /\ len + (IF "on" \in vad THEN 0 ELSE m_iLen_In) <= MaxIn
    /\ frm' = [frm EXCEPT !.vad = vad, !.len = len]
    /\ has_vad' = OpenAfter(has_vad, vad)
    /\ IF "on" \in vad
       THEN /\ vad_flag' = TRUE /\ canceled' = FALSE /\ data_output' = FALSE
            /\ awaked' = Awake
            /\ need_asr' = (Awake \/ need_asr)
            /\ CodReset
       ELSE UNCHANGED <<vad_flag, canceled, data_output, shared, cod>>
    /\ minsil' = CASE frm.vbv = "cmd" \/ (frm.vbv = "nocmd" /\ frm.word # "SLEEP")
                        -> (IF vad_enable THEN "normal" ELSE "long")
                   [] Awake /\ frm.vbv = "pre" -> "long"
                   [] OTHER -> minsil
    /\ mode' = (IF Awake THEN "ACTIVE" ELSE mode) /\ quiet' = (quiet /\ ~Awake)
    /\ pc' = IF vad_flag' THEN "start" ELSE "off"
    /\ SendNone
    /\ UNCHANGED <<vad_enable, ctl>>

-----------------------------------------------------------------------------
(* The VAD_ON(vad_flag) block. *)

StartByWord == ~data_output /\ frm.vbv \in {"cmd", "nocmd"}
StartByFlag == ~data_output /\ ~StartByWord /\ need_asr /\ ~awaked

(* __cod->process and the decision to start: a command starts a session, a    *)
(* word without command is held back (canceled), the client's AWAKE starts    *)
(* one too.                                                                   *)
StartSession ==
    /\ pc = "start"
    /\ pc' = "cancel"
    /\ IF StartByWord /\ frm.vbv = "nocmd"
       THEN /\ data_output' = TRUE /\ canceled' = TRUE
            /\ m_iLen_In' = m_iLen_In + frm.len
            /\ m_iLen_Out_Cur' = 0 /\ m_bPaused' = TRUE
            /\ m_iLen_Pause' = m_iLen_In'
            /\ SendNone
            /\ UNCHANGED <<m_iLen_Cod, minsil>>
       ELSE /\ CodProcess(frm.len)
            /\ IF StartByWord \/ StartByFlag
               THEN data_output' = TRUE /\ SendStart
               ELSE UNCHANGED data_output /\ SendNone
            /\ minsil' = IF StartByFlag /\ ~vad_enable THEN "long" ELSE minsil
            /\ UNCHANGED canceled
    /\ UNCHANGED <<vad_enable, vad_flag, has_vad, shared, frm, ctl, mode, quiet>>

CancelMutant == data_output /\ ~canceled /\ vad_enable /\ IsTooLong

MustCancel ==
    /\ data_output /\ ~canceled
    /\ (vad_enable /\ IsTooLong) \/ (~awaked /\ ~need_asr)

(* Too long, or the client has gone to sleep. *)
CancelSession ==
    /\ pc = "cancel"
    /\ IF MustCancel
       THEN /\ canceled' = TRUE
            /\ CodPause
            /\ SendCancel
            /\ IF vad_enable
               THEN UNCHANGED <<vad_flag, data_output, minsil>>
               ELSE vad_flag' = FALSE /\ data_output' = FALSE /\ minsil' = "normal"
       ELSE UNCHANGED <<flags, cod>> /\ SendNone
    /\ pc' = IF data_output THEN "resume" ELSE "off"
    /\ UNCHANGED <<vad_enable, has_vad, shared, frm, ctl, mode, quiet>>

(* Speech went on after a word without command. *)
ResumeSession ==
    /\ pc = "resume"
    /\ pc' = "data"
    /\ IF vad_enable /\ canceled /\ awaked /\ IsNeedResume
       THEN canceled' = FALSE /\ CodResume /\ SendStart
       ELSE UNCHANGED <<canceled, cod>> /\ SendNone
    /\ UNCHANGED <<vad_enable, vad_flag, has_vad, data_output, minsil, shared,
                   frm, ctl, mode, quiet>>

(* The audio left at the end of a segment is not flushed when the frame also  *)
(* brought a word.                                                            *)
StreamDataMutant ==
    /\ pc = "data"
    /\ pc' = "off"
    /\ IF canceled \/ frm.vbv # "none"
       THEN SendNone /\ UNCHANGED cod
       ELSE /\ m_iLen_Cod' = Coded
            /\ IF m_iLen_Cod' > m_iLen_Out_Cur
               THEN SendData
               ELSE SendNone /\ UNCHANGED m_iLen_Out_Cur
            /\ UNCHANGED <<m_iLen_In, m_iLen_Pause, m_bPaused>>
    /\ UNCHANGED <<vad_enable, flags, shared, frm, ctl, mode, quiet>>

(* getdatalen() codes what it can before it answers; a coded block is more    *)
(* than 100 bytes, so both conditions ask for a block that is not sent yet.   *)
StreamData ==
    /\ pc = "data"
    /\ pc' = "off"
    /\ IF canceled
       THEN SendNone /\ UNCHANGED cod
       ELSE /\ m_iLen_Cod' = IF frm.vbv = "none" \/ "off" \in frm.vad
                             THEN Coded ELSE m_iLen_Cod
            /\ IF m_iLen_Cod' > m_iLen_Out_Cur
                  /\ (frm.vbv = "none" \/ "off" \in frm.vad)
               THEN SendData
               ELSE SendNone /\ UNCHANGED m_iLen_Out_Cur
            /\ UNCHANGED <<m_iLen_In, m_iLen_Pause, m_bPaused>>
    /\ UNCHANGED <<vad_enable, flags, shared, frm, ctl, mode, quiet>>

(* The VAD_OFF block. *)
VadOffMutant ==
    /\ pc = "off"
    /\ pc' = "idle"
    /\ IF "off" \in frm.vad
       THEN /\ vad_flag' = FALSE
            /\ need_asr' = (need_asr /\ ~vad_enable)
            /\ IF vad_enable /\ data_output THEN SendEnd ELSE SendNone
            /\ data_output' = FALSE
       ELSE UNCHANGED <<vad_flag, need_asr, data_output>> /\ SendNone
    /\ frm' = NoFrame
    /\ UNCHANGED <<vad_enable, has_vad, canceled, minsil, awaked, cod, ctl,
                   mode, quiet>>

VadOff ==
    /\ pc = "off"
    /\ pc' = "idle"
    /\ IF "off" \in frm.vad
       THEN /\ vad_flag' = FALSE
            /\ need_asr' = (need_asr /\ ~vad_enable)
            /\ IF vad_enable /\ data_output /\ ~canceled THEN SendEnd ELSE SendNone
            /\ data_output' = FALSE
       ELSE UNCHANGED <<vad_flag, need_asr, data_output>> /\ SendNone
    /\ frm' = NoFrame
    /\ UNCHANGED <<vad_enable, has_vad, canceled, minsil, awaked, cod, ctl,
                   mode, quiet>>

-----------------------------------------------------------------------------
Control == ControlAwake \/ ControlSleep
ControlStep == \E f \in {"awaked", "need_asr"} : ControlStore(f)

Process ==
    \/ \E vbv \in VbvResults, word \in WordTypes : Detect(vbv, word)
    \/ \E vad \in SUBSET {"on", "off"}, len \in Lens : CheckVad(vad, len)
    \/ StartSession \/ CancelSession \/ ResumeSession \/ StreamData \/ VadOff

Next == Control \/ ControlStep \/ Process

(* Audio keeps arriving and a control call in progress finishes. *)
Fairness == WF_vars(Process) /\ WF_vars(ControlStep)

Spec == Init /\ [][Next]_vars /\ Fairness

-----------------------------------------------------------------------------
(* Types of the members and of the steps. *)
TypeOK ==
    /\ vad_enable \in BOOLEAN /\ vad_flag \in BOOLEAN /\ has_vad \in BOOLEAN
    /\ data_output \in BOOLEAN /\ canceled \in BOOLEAN
    /\ awaked \in BOOLEAN /\ need_asr \in BOOLEAN
    /\ minsil \in {"normal", "long"}
    /\ m_iLen_In \in Nat /\ m_iLen_Cod \in Nat /\ m_iLen_Out_Cur \in Nat
    /\ m_iLen_Pause \in Nat /\ m_bPaused \in BOOLEAN
    /\ pc \in Steps /\ ctl \subseteq {"awaked", "need_asr"}
    /\ frm \in [vbv : VbvResults, word : WordTypes, vad : SUBSET {"on", "off"}, len : Nat]
    /\ open \in BOOLEAN /\ ev \in {"none", "START", "DATA", "END", "CANCEL"}
    /\ got \in Nat /\ mode \in {"ACTIVE", "SLEEP"} /\ quiet \in BOOLEAN

(* processfrm calls the coder as r2mem_cod asserts: it is paused exactly     *)
(* while the session is canceled, so resume() finds it paused (line 93) and   *)
(* processdata() does not (line 119), whatever control() does meanwhile.      *)
PausedIffCanceled == m_bPaused <=> canceled

(* While a session streams, the client has received exactly the coded audio   *)
(* up to m_iLen_Out_Cur since its last START: no gap, nothing twice, also     *)
(* when a canceled session is resumed from its beginning.                     *)
Streaming == vad_flag /\ data_output /\ ~canceled
NoGapNoRepeat == Streaming => open /\ got = m_iLen_Out_Cur

(* When END is sent everything coded has been sent, and less than a block,    *)
(* or exactly one (the loop of processdata is strict), is left uncoded.       *)
EndIsComplete ==
    [][ev' = "END" => /\ got = m_iLen_Cod
                      /\ m_iLen_In - m_iLen_Cod <= Frm]_vars

(* VoiceActivation.java, State.SLEEP: once control(SLEEP) has returned or a   *)
(* sleep word was found, no audio is called back for the frames that follow,  *)
(* until control(ACTIVE) or a wake word.                                      *)
SleepSilences == [][ev' = "DATA" => ~quiet]_vars

(* A session open when the client goes to sleep is closed.                    *)
SleepClosesSession ==
    (vad_enable /\ mode = "SLEEP" /\ open) ~> (~open \/ mode = "ACTIVE")

(* The event stream is a sequence of well-formed sessions.                    *)
Session == INSTANCE AsrSession WITH localVad <- vad_enable
ImplementsSession == Session!Spec
=============================================================================
