---------------------------- MODULE VoiceDetector ---------------------------
(***************************************************************************)
(* The voice detector of ztvad (VoiceDetector, energy mode) and the loop    *)
(* that drives it, VoiceActivation::check_voice_activity.                   *)
(*                                                                          *)
(* The unit is the frame: every VD_InputFloatWave gives the detector one.   *)
(* A frame is its number since the last Restart.  Whether the energy says   *)
(* that it is voice (m_bprobs) is an input; so is the pitch, which only     *)
(* decides whether a beginning that the energies allow is accepted.         *)
(***************************************************************************)
EXTENDS Integers, Sequences, FiniteSets

CONSTANTS
    MaxFrames,   \* VAD_MAX_FRAME_NUM, also the capacity of the wave buffer
    PreFrames,   \* m_nPreFrameNum
    MinVoc,      \* m_nMinVocFrameNum
    VocPct,      \* m_fMinVoiceRatio, in percent
    MinSpeech,   \* m_nMinSpeechFrameNum
    MaxSpeech,   \* m_nMaxSpeechFrameNum
    ShortSil,    \* frame_num of VoiceActivation, the usual silence at the end
    LongSil,     \* the silence set while speech must not end
    SilPct,      \* m_fMinSilRatio, in percent
    Keep,        \* silence kept when silence is removed, for the pitch
    PitchLag,    \* frames by which the pitch extractor is behind
    MaxInput,    \* longest history a word gives to one call
    MaxSilence   \* bound on the frames before speech begins

(* The relations between the values the constructors set: 6000, 10, 30, 0.5,  *)
(* 90, 1000, 45, 2000, 0.9, 100, 4 and 500.                                   *)
ASSUME DetectorAssumption ==
    /\ {MaxFrames, PreFrames, MinVoc, MinSpeech, MaxSpeech, ShortSil, LongSil,
        Keep, PitchLag, MaxInput, MaxSilence} \subseteq Nat
    /\ {VocPct, SilPct} \subseteq 0..100
    /\ MinVoc > 0 /\ ShortSil > 0 /\ MaxInput > 0
    /\ PitchLag + MinVoc + PreFrames + 1 < MinSpeech
    /\ ShortSil <= MinSpeech /\ MinSpeech <= MaxSpeech
    /\ MaxSpeech + 1 < LongSil /\ MaxSpeech + 1 < MaxFrames
    /\ Keep <= MaxFrames \div 2
    /\ MaxFrames \div 2 + MinVoc + PreFrames + 1 < MaxFrames
    /\ MaxInput <= MaxSpeech /\ MaxInput <= MaxSilence

VARIABLES
    vd,                  \* the members of VoiceDetector, see Restarted
    m_nMinSilFrameNum,
    has_vad, last_frame,
    vad_input,           \* frames in vad_input, given and not yet examined
    force_start, awake,  \* the argument; awake is kept for the whole call
    ret,                 \* the VAD_ON_MASK and VAD_OFF_MASK of the call
    segment,             \* history: the frames handed out of this segment
    pc                   \* "idle", or "loop" while a call runs

vars == <<vd, m_nMinSilFrameNum, has_vad, last_frame, vad_input, force_start,
          awake, ret, segment, pc>>

(* Restart.  m_nCurProbFrameNum is the length of probs. *)
Restarted == [wave |-> <<>>, probs |-> <<>>, start |-> -1, stop |-> -1,
              offset |-> 0, startOffset |-> 0, end |-> FALSE]
Cur(d) == Len(d.probs)

Init ==
    /\ vd = Restarted /\ m_nMinSilFrameNum = ShortSil
    /\ has_vad = FALSE /\ last_frame = 0 /\ vad_input = 0
    /\ force_start = FALSE /\ awake = FALSE /\ ret = {}
    /\ segment = <<>> /\ pc = "idle"

-----------------------------------------------------------------------------
(* Drops the first n frames of every buffer. *)
OffsetWaveFrame(d, n) ==
    IF n <= 0 \/ n > Cur(d) THEN d
    ELSE [d EXCEPT !.wave = SubSeq(@, n + 1, Len(@)),
                   !.probs = SubSeq(@, n + 1, Len(@)),
                   !.offset = @ + n]

MarkStartMutant(d, s, o) == [d EXCEPT !.start = IF s < 0 THEN 0 ELSE s, !.startOffset = o]

(* Speech begins at frame s; what comes before it is removed. *)
MarkStart(d, s, o) ==
    LET first == IF s < 0 THEN 0 ELSE s
    IN  IF ~d.end /\ first > 0
        THEN [OffsetWaveFrame(d, first) EXCEPT !.start = 0, !.startOffset = o - first]
        ELSE [d EXCEPT !.start = first, !.startOffset = o]

SetStart(d) ==
    IF d.start >= 0 THEN d ELSE MarkStart(d, Cur(d) - 1, Cur(d) - 1)

(* How many of the frames lo..hi, counted from 0, are voice, or silence.      *)
(* (lo is never negative: EndWindowInBuffer.)                                 *)
Count(d, lo, hi, voc) == Cardinality({k \in lo..hi : k >= 0 /\ d.probs[k + 1] = voc})

(* JudgeVoiceBegin: the frames at which the energies see a beginning.  The    *)
(* pitch may refuse any of them, and again as long as it is still arriving;   *)
(* frames that it has refused for good are further back.                      *)
Begins(d) ==
    {i \in MinVoc..(Cur(d) - 1) :
        /\ d.probs[i + 1]
        /\ Count(d, i - MinVoc, i - 1, TRUE) >= (MinVoc * VocPct) \div 100
        /\ i >= Cur(d) - 1 - PitchLag}
JudgeVoiceBegin(d, i) == MarkStart(d, i - MinVoc - PreFrames, i)

TrimMutant(d) == d

(* Too much silence before speech: remove it. *)
TrimSilence(d) ==
    LET nSilFrames == Cur(d) - MinVoc - PreFrames
    IN  IF nSilFrames >= MaxFrames \div 2 /\ ~d.end
        THEN OffsetWaveFrame(d, nSilFrames - Keep) ELSE d

EndFromMutant(d, sil) == IF d.startOffset < 0 THEN 0 ELSE d.startOffset

EndFrom(d, sil) == LET pos == d.start + MinSpeech - sil
                   IN  IF pos < d.startOffset THEN d.startOffset ELSE pos
EndJudged(d, sil) == Cur(d) >= d.start + MinSpeech /\ Cur(d) > d.startOffset + sil

(* JudgeVoiceEnd: the possible stop frames, -1 for none.  Besides the number  *)
(* of silent frames the sums of the probabilities count: they say silence for *)
(* sure only if every frame is silent.  JudgePitchVoiceEnd never holds.       *)
Ends(d, sil) ==
    LET from == EndFrom(d, sil)
        Silent(i) == Count(d, i - sil, i - 1, FALSE)
        may == {i \in (from + sil)..(Cur(d) - 1) :
                   ~d.probs[i + 1] /\ 100 * Silent(i) >= SilPct * sil}
        must == {i \in may : Silent(i) = sil}
    IN  IF ~EndJudged(d, sil) THEN {-1}
        ELSE {i \in may : \A j \in must : i <= j}
             \cup (IF must = {} THEN {-1} ELSE {})

GetVoiceFrameNum(d) ==
    IF d.start < 0 THEN 0
    ELSE (IF d.stop >= 0 THEN d.stop ELSE Cur(d)) - d.start

JudgeEndMutant(d, sil, fin) ==
    IF d.start < 0 \/ d.stop # -1 THEN {d}
    ELSE {IF e >= 0 THEN [d EXCEPT !.stop = e, !.end = TRUE] ELSE d : e \in Ends(d, sil)}

JudgeEnd(d, sil, fin) ==
    IF d.start < 0 \/ d.stop # -1 THEN {d}
    ELSE {IF e >= 0 THEN [d EXCEPT !.stop = e, !.end = TRUE]
          ELSE IF fin THEN [d EXCEPT !.stop = Cur(d)] ELSE d : e \in Ends(d, sil)}

MustEndMutant(d) == Len(d.wave) + 1 = MaxFrames

(* The buffer is full with the new frame, or speech was already too long.     *)
MustEnd(d) == Len(d.wave) + 1 = MaxFrames \/ GetVoiceFrameNum(d) >= MaxSpeech

IgnoreMutant(d, sil, voc) ==
    IF d.end \/ MustEnd(d) THEN {d}
    ELSE LET fed == [d EXCEPT !.wave = Append(@, d.offset + Len(@) + 1),
                              !.probs = Append(@, voc)]
             begun == IF fed.start # -1 THEN {fed}
                      ELSE {TrimSilence(fed)} \cup
                           {JudgeVoiceBegin(fed, i) : i \in Begins(fed)}
         IN  UNION {JudgeEnd(b, sil, FALSE) : b \in begun}

(* InternalInputWave with one frame: what the detector may be afterwards.     *)
InputWave(d, sil, voc) ==
    IF d.end THEN {d}
    ELSE LET fin == MustEnd(d)
             fed == [d EXCEPT !.wave = Append(@, d.offset + Len(@) + 1),
                              !.probs = Append(@, voc), !.end = fin]
             begun == IF fed.start # -1 THEN {fed}
                      ELSE {TrimSilence(fed)} \cup
                           {JudgeVoiceBegin(fed, i) : i \in Begins(fed)}
         IN  UNION {JudgeEnd(b, sil, fin) : b \in begun}

-----------------------------------------------------------------------------
(* check_voice_activity. *)

vad_reset == vd' = Restarted /\ has_vad' = FALSE /\ last_frame' = 0

(* processfrm calls it with the frame, or with a detected word's history, in  *)
(* which case reset_asr has called vad_reset.  The engine reports a word at    *)
(* most once in a batch of frames, and the frames that one history left       *)
(* behind have been examined before the next.                                 *)
Call(n, word, wake) ==
    /\ pc = "idle" /\ n \in 1..(IF word THEN MaxInput ELSE 1) /\ (wake => word)
    /\ word => vad_input = 0
    /\ \/ word \/ has_vad
       \/ vd.offset + Cur(vd) + vad_input + n <= MaxSilence
    /\ IF word THEN vad_reset
               ELSE UNCHANGED <<vd, has_vad, last_frame>>
    /\ vad_input' = vad_input + n
    /\ force_start' = wake /\ awake' = wake /\ ret' = {}
    /\ pc' = "loop"
    /\ UNCHANGED <<m_nMinSilFrameNum, segment>>

(* VD_GetVoiceStopFrame > 0 *)
Stopped(d) == d.stop >= 0 /\ d.stop + d.offset > 0

(* The frames after last_frame.  GetFloatVoice gives the beginning of the     *)
(* buffer, wherever the speech starts.                                        *)
HandOut(d) == SubSeq(d.wave, last_frame + 1, GetVoiceFrameNum(d))

LoopDoneMutant(off) == vad_input = 1

(* The end of a segment breaks the loop. *)
LoopDone(off) == off \/ vad_input = 1

(* The loop body, after VD_InputFloatWave has left the detector as d. *)
Examine(d) ==
    LET on   == ~has_vad /\ d.start >= 0
        off  == has_vad /\ Stopped(d)
        curr == GetVoiceFrameNum(d)
    IN  /\ ret' = ret \cup (IF on THEN {"on"} ELSE {}) \cup (IF off THEN {"off"} ELSE {})
        /\ segment' = (IF on THEN <<>> ELSE segment) \o
                      (IF (has_vad \/ on) /\ curr > last_frame THEN HandOut(d) ELSE <<>>)
        /\ IF off THEN vad_reset
           ELSE /\ vd' = d /\ has_vad' = (has_vad \/ on)
                /\ last_frame' = IF (has_vad \/ on) /\ curr > last_frame
                                 THEN curr ELSE last_frame
        /\ pc' = IF LoopDone(off) THEN "idle" ELSE "loop"

(* One pass of the loop. *)
Frame ==
    /\ pc = "loop"
    /\ LET d == IF force_start THEN SetStart(vd) ELSE vd
           sil == IF force_start THEN LongSil ELSE m_nMinSilFrameNum
       IN  /\ \E voc \in BOOLEAN : \E e \in InputWave(d, sil, voc) : Examine(e)
           /\ m_nMinSilFrameNum' = sil
    /\ force_start' = FALSE
    /\ vad_input' = vad_input - 1
    /\ UNCHANGED awake

(* set_vad_frame_num, from processfrm after the call. *)
SetVadFrameNum(n) ==
    /\ pc = "idle" /\ m_nMinSilFrameNum' = n
    /\ UNCHANGED <<vd, has_vad, last_frame, vad_input, force_start, awake, ret,
                   segment, pc>>

Next ==
    \/ \E n \in 1..MaxInput, word, wake \in BOOLEAN : Call(n, word, wake)
    \/ Frame
    \/ \E n \in {ShortSil, LongSil} : SetVadFrameNum(n)

(* The audio keeps coming. *)
Fairness == WF_vars(Frame) /\ WF_vars(Call(1, FALSE, FALSE))

Spec == Init /\ [][Next]_vars /\ Fairness

-----------------------------------------------------------------------------
Detectors == [wave : Seq(Nat), probs : Seq(BOOLEAN), start : {-1} \cup Nat,
              stop : {-1} \cup Nat, offset : Nat, startOffset : {-1} \cup Nat,
              end : BOOLEAN]

(* Types of the members. *)
TypeOK ==
    /\ vd \in Detectors /\ m_nMinSilFrameNum \in {ShortSil, LongSil}
    /\ has_vad \in BOOLEAN /\ last_frame \in Nat /\ vad_input \in Nat
    /\ force_start \in BOOLEAN /\ awake \in BOOLEAN
    /\ ret \subseteq {"on", "off"} /\ segment \in Seq(Nat)
    /\ pc \in {"idle", "loop"}

(* The detector never goes deaf: one that ignores its input (m_bIsEnd) has    *)
(* been seen to stop and was restarted in the same pass of the loop, though   *)
(* only has_vad makes the loop look for the stop.                             *)
NeverDeaf == ~vd.end /\ vd.stop = -1 /\ (has_vad <=> vd.start >= 0)

(* GetFloatVoice gives the beginning of the buffer and the loop counts from   *)
(* last_frame: what has been handed out of the segment is exactly its first   *)
(* last_frame frames, consecutive and each once.                              *)
SegmentIntact ==
    has_vad => /\ vd.start = 0 /\ Len(segment) = last_frame
               /\ \A k \in 1..last_frame : segment[k] = vd.offset + k

(* The wave buffer never fills up: neither endless silence nor speech that    *)
(* never ends loses a frame in ByteBuffer::Feed.                              *)
NeverFull == Len(vd.wave) = Len(vd.probs) /\ Len(vd.wave) < MaxFrames

(* JudgeVoiceEnd never reads before the beginning of m_probs, although        *)
(* SetStart on an empty detector leaves m_nVocStartOffset at -1.              *)
EndWindowInBuffer ==
    vd.start >= 0 /\ EndJudged(vd, m_nMinSilFrameNum)
        => EndFrom(vd, m_nMinSilFrameNum) >= 0

(* When a segment ends, what was handed out of it is consecutive, at least    *)
(* the shortest speech and at most one frame more than the longest.           *)
SegmentComplete ==
    [][has_vad /\ ~has_vad' /\ pc = "loop" =>
         /\ Len(segment') \in MinSpeech..(MaxSpeech + 1)
         /\ \A k \in 1..Len(segment') : segment'[k] = vd.offset + k]_vars

(* Every segment ends, even while the end of speech is put off (LongSil).     *)
SegmentEnds == has_vad ~> ~has_vad

(* check_voice_activity keeps what VadReport promises processfrm.             *)
Report == INSTANCE VadReport WITH open <- has_vad, busy <- pc = "loop", report <- ret
ImplementsReport == Report!Spec
=============================================================================
