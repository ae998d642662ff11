----------------------------- MODULE WakeEngine -----------------------------
(***************************************************************************)
(* The wake-word engine r2vt4: ZVtMem with one detector (ZVtDet) per word,  *)
(* the beam-former buffer of ZVbvMem that a detection keeps working, and    *)
(* the thread of VoiceActivation::processfrm that runs it.                  *)
(*                                                                          *)
(* r2_vbv_process and r2_vbv_setwords run under the spin lock of            *)
(* VoiceActivation, so each is one step; r2_vbv_getdetwordinfo is called    *)
(* without it.  Whether a detector finds its word, and whether the          *)
(* classifier, direction, energy and silence checks accept it, is an input. *)
(*                                                                          *)
(* SetWords deletes the ZVtWord objects the existing detectors point to.    *)
(* A detector that reads one of them before the detectors are replaced      *)
(* works on freed memory: from then on the engine may do anything its       *)
(* control flow allows, or stop (no step is owed any more).                 *)
(***************************************************************************)
EXTENDS Integers, Sequences

CONSTANTS
    Words,        \* the WordInfo values a program configures
    RightSil,     \* those with bRightSilDet
    Default,      \* the word enter_vbv configures
    NoWord,       \* no word
    Wait,         \* batches from the best frame to the right-silence check
    MaxLen        \* bound on the length of a word list

ASSUME EngineAssumption ==
    /\ RightSil \subseteq Words /\ Default \in Words \ RightSil
    /\ NoWord \notin Words
    /\ Wait \in Nat \ {0} /\ MaxLen \in Nat \ {0}

VARIABLES
    m_pWordLst,         \* the configured words (m_pVtWordLst follows it)
    m_bNeedChangeWord,
    m_VtDetLst,         \* the detectors: word, m_iVtDetStatus, batches to wait
    m_iCurVtDetId,      \* position of the detector that reports, 0 for -1
    m_bWorking,         \* of m_pAudBuff_Vt_Ns
    asserts,            \* assertions of zvbvmem.cpp that failed, by line
    dangling,           \* the words the detectors point to are deleted
    wild,               \* history: a deleted word has been read
    hasty,              \* history: words were deleted during a detection, or
                        \* the detectors reset before their replacement
    found,              \* word whose PRE processfrm has to look up, or NoWord
    lookup              \* history: <<word found, word looked up>> of that PRE

engine == <<m_pWordLst, m_bNeedChangeWord, m_VtDetLst, m_iCurVtDetId,
            m_bWorking, asserts, dangling, wild, hasty>>
engineVars == <<engine, found, lookup>>

Det(w) == [word |-> w, status |-> "ready", wait |-> 0]
NoLookup == <<NoWord, NoWord>>
Detectors == [word : Words, status : {"ready", "process", "finish"}, wait : 0..Wait]

(* Flags a detector returns for one batch. *)
Flags == {"PRE", "CMD", "NOCMD"}

(* The constructors, and enter_vbv's sync_vt_word of the default word. *)
EngineInit ==
    /\ m_pWordLst = <<Default>> /\ m_bNeedChangeWord = TRUE
    /\ m_VtDetLst = <<>> /\ m_iCurVtDetId = 0
    /\ m_bWorking = FALSE /\ asserts = {}
    /\ dangling = FALSE /\ wild = FALSE /\ hasty = FALSE
    /\ found = NoWord /\ lookup = NoLookup

-----------------------------------------------------------------------------
(* The old words are deleted under the detectors that use them.               *)
DeleteWords ==
    /\ dangling' = (m_VtDetLst # <<>>)
    /\ hasty' = (hasty \/ m_iCurVtDetId # 0)

SetWordsMutantEmpty(ws) ==
    /\ m_bNeedChangeWord' = TRUE /\ m_pWordLst' = ws /\ DeleteWords
    /\ UNCHANGED <<m_VtDetLst, m_iCurVtDetId, m_bWorking, asserts, wild>>

SetWordsMutantSilent(ws) ==
    /\ m_pWordLst' = IF ws # <<>> THEN ws ELSE m_pWordLst
    /\ UNCHANGED <<m_bNeedChangeWord, m_VtDetLst, m_iCurVtDetId, m_bWorking, asserts,
                   dangling, wild, hasty>>

(* ZVtMem::SetWords.  An empty list changes nothing; every word parses.       *)
SetWords(ws) ==
    /\ IF ws # <<>>
       THEN m_bNeedChangeWord' = TRUE /\ m_pWordLst' = ws /\ DeleteWords
       ELSE UNCHANGED <<m_bNeedChangeWord, m_pWordLst, dangling, hasty>>
    /\ UNCHANGED <<m_VtDetLst, m_iCurVtDetId, m_bWorking, asserts, wild>>

(* CheckWordsChanged: the detectors, given when no detection is current.      *)
ChangeNowMutant == m_bNeedChangeWord /\ m_VtDetLst = <<>>
ChangeNow == m_iCurVtDetId = 0 /\ m_bNeedChangeWord

CheckWordsChanged ==
    IF ChangeNow THEN [i \in 1..Len(m_pWordLst) |-> Det(m_pWordLst[i])]
                 ELSE m_VtDetLst

(* The detectors stay, and the words they point to are deleted.               *)
Stale == dangling /\ ~ChangeNow

(* Fewer than a batch of frames: only the words are looked at.                *)
DetectNothing ==
    /\ found = NoWord
    /\ m_VtDetLst' = CheckWordsChanged
    /\ m_bNeedChangeWord' = (m_bNeedChangeWord /\ ~ChangeNow)
    /\ dangling' = Stale
    /\ lookup' = NoLookup
    /\ UNCHANGED <<m_pWordLst, m_iCurVtDetId, m_bWorking, asserts, wild, hasty, found>>

-----------------------------------------------------------------------------
(* A batch.  Finished detectors are reset, and with them the current one.     *)
RestartMutant(d) == Det(d.word)
Restart(d) == IF d.status = "finish" THEN Det(d.word) ELSE d

(* A batch reads the word of a detector that listens for it or has just been  *)
(* reset (DynamicProgramming), and of one at its right-silence frame.         *)
Reads(d) == d.status = "ready" \/ d.wait <= 1
Garbled(d) == wild \/ (Stale /\ Reads(d))

(* What one detector may do in a batch: CheckStatus at the frame where its    *)
(* word ends (Pre, Best, CfCheck, Energy, LeftSil, RightSil), or at the later *)
(* frame where the silence after the word is tested.  Scores, checks and the  *)
(* right-silence frame read from a deleted word are arbitrary.                *)
Outcomes(d) ==
    IF d.status = "ready"
    THEN {"none", "reject"}
         \cup (IF d.word \in RightSil \/ Garbled(d) THEN {"pre"} ELSE {})
         \cup (IF d.word \notin RightSil \/ Garbled(d) THEN {"cmd", "nocmd"} ELSE {})
    ELSE (IF d.wait > 1 \/ Garbled(d) THEN {"none"} ELSE {})
         \cup (IF d.wait <= 1 \/ Garbled(d) THEN {"cmd", "nocmd"} ELSE {})

AfterMutantMissed(d, o) ==
    CASE o = "pre"  -> [d EXCEPT !.status = "process", !.wait = Wait]
      [] o = "none" -> d
      [] OTHER      -> [d EXCEPT !.status = "finish", !.wait = 0]

After(d, o) ==
    CASE o = "pre" -> [d EXCEPT !.status = "process", !.wait = Wait]
      [] o = "none" /\ (d.status = "ready" \/ d.wait <= 1) -> d
      [] o = "none" /\ d.status # "ready" /\ d.wait > 1 -> [d EXCEPT !.wait = d.wait - 1]
      [] OTHER -> [d EXCEPT !.status = "finish", !.wait = 0]

(* The flags of ProcessScore; DET always comes with PRE and is left out.      *)
Returned(d, o) ==
    (IF d.status = "ready" /\ o \in {"pre", "cmd", "nocmd"} THEN {"PRE"} ELSE {})
    \cup (CASE o = "cmd" -> {"CMD"} [] o = "nocmd" -> {"NOCMD"} [] OTHER -> {})

(* The detectors of a batch, after CheckWordsChanged and the resets. *)
BatchDets == LET dets == CheckWordsChanged
             IN  [i \in 1..Len(dets) |-> Restart(dets[i])]
BatchCur == IF m_iCurVtDetId # 0 /\ m_VtDetLst[m_iCurVtDetId].status = "finish"
            THEN 0 ELSE m_iCurVtDetId
BatchOuts(dets) ==
    {outs \in [1..Len(dets) -> {"none", "reject", "pre", "cmd", "nocmd"}] :
        \A i \in 1..Len(dets) : outs[i] \in Outcomes(dets[i])}

ReporterMutant(dets, outs) ==
    LET some == {i \in 1..Len(dets) : Returned(dets[i], outs[i]) # {}}
    IN  IF BatchCur # 0 THEN BatchCur
        ELSE IF some = {} THEN 0
        ELSE CHOOSE i \in some : \A j \in some : i <= j

(* The detector that reports: the current one until it has finished, else     *)
(* the first that reports PRE.                                                *)
Reporter(dets, outs) ==
    LET pre == {i \in 1..Len(dets) : "PRE" \in Returned(dets[i], outs[i])}
    IN  IF BatchCur # 0 THEN BatchCur
        ELSE IF pre = {} THEN 0
        ELSE CHOOSE i \in pre : \A j \in pre : i <= j

(* my_dosecsl_callback runs when a detector's word ends, whatever the checks  *)
(* say later; it asserts that the buffer is idle and resets it.               *)
Fired(dets, outs) ==
    \E i \in 1..Len(dets) : dets[i].status = "ready" /\ outs[i] # "none"

(* ZVbvMem::Process around ZVtMem::Detect. *)
DetectBatch(dets, outs) ==
    LET rep  == Reporter(dets, outs)
        rt   == IF rep = 0 THEN {} ELSE Returned(dets[rep], outs[rep])
        busy == m_bWorking /\ ~Fired(dets, outs)
        done == "CMD" \in rt \/ "NOCMD" \in rt
    IN  /\ found = NoWord
        /\ m_VtDetLst' = [i \in 1..Len(dets) |-> After(dets[i], outs[i])]
        /\ m_bNeedChangeWord' = (m_bNeedChangeWord /\ ~ChangeNow)
        /\ m_iCurVtDetId' = rep
        /\ m_bWorking' = ((busy \/ "PRE" \in rt) /\ ~done)
        /\ asserts' = asserts
             \cup (IF m_bWorking /\ Fired(dets, outs) THEN {314} ELSE {})
             \cup (IF busy /\ "PRE" \in rt THEN {202} ELSE {})
             \cup (IF done /\ ~busy /\ "PRE" \notin rt THEN {224} ELSE {})
        /\ dangling' = Stale
        /\ wild' = (wild \/ \E i \in 1..Len(dets) : Garbled(dets[i]))
        /\ found' = IF "PRE" \in rt THEN dets[rep].word ELSE NoWord
        /\ lookup' = NoLookup
        /\ UNCHANGED <<m_pWordLst, hasty>>

GetDetWordInfoMutant ==
    /\ found # NoWord
    /\ lookup' = <<found, m_pWordLst[1]>>
    /\ found' = NoWord
    /\ UNCHANGED engine

(* r2_vbv_getdetwordinfo, after processfrm has released the lock: the current *)
(* detector's position in the configured list.                                *)
GetDetWordInfo ==
    /\ found # NoWord
    /\ lookup' = <<found, IF m_iCurVtDetId \in 1..Len(m_pWordLst)
                          THEN m_pWordLst[m_iCurVtDetId] ELSE NoWord>>
    /\ found' = NoWord
    /\ UNCHANGED engine

(* r2_vbv_reset, by the thread that processes.  Every detector reads its word.*)
Reset ==
    /\ found = NoWord
    /\ m_iCurVtDetId' = 0 /\ m_bWorking' = FALSE
    /\ m_VtDetLst' = [i \in 1..Len(m_VtDetLst) |-> Det(m_VtDetLst[i].word)]
    /\ wild' = (wild \/ dangling) /\ hasty' = (hasty \/ dangling)
    /\ UNCHANGED <<m_pWordLst, m_bNeedChangeWord, asserts, dangling, found, lookup>>

Detect ==
    LET dets == BatchDets
    IN  \E outs \in BatchOuts(dets) : DetectBatch(dets, outs)
EngineStep == DetectNothing \/ Detect \/ GetDetWordInfo

(* The engine alone, with lists that come from anywhere. *)
WordLists == UNION {[1..n -> Words] : n \in 0..MaxLen}
EngineNext ==
    \/ EngineStep
    \/ \E ws \in WordLists : SetWords(ws) /\ UNCHANGED <<found, lookup>>
    \/ Reset

(* Audio keeps arriving, as long as the process has not read freed memory.    *)
EngineFairness ==
    /\ WF_engineVars(~wild /\ Detect)
    /\ WF_engineVars(~wild /\ GetDetWordInfo)

EngineSpec == EngineInit /\ [][EngineNext]_engineVars /\ EngineFairness

-----------------------------------------------------------------------------
(* Types of the engine's members. *)
EngineTypeOK ==
    /\ m_pWordLst \in Seq(Words) /\ m_bNeedChangeWord \in BOOLEAN
    /\ m_VtDetLst \in Seq(Detectors) /\ m_iCurVtDetId \in 0..Len(m_VtDetLst)
    /\ m_bWorking \in BOOLEAN /\ asserts \subseteq {202, 224, 314}
    /\ dangling \in BOOLEAN /\ wild \in BOOLEAN /\ hasty \in BOOLEAN
    /\ found \in Words \cup {NoWord}
    /\ lookup \in (Words \cup {NoWord}) \X (Words \cup {NoWord})

(* assert(m_iWordNum > 0), zvtmem.cpp line 145: whatever lists the clients    *)
(* configure, the engine is never left without a word to listen for.          *)
NeverWordless == m_pWordLst # <<>>

(* Unless a change is pending, the detectors are those of the configured      *)
(* words, position by position (GetDetWordInfo indexes one list with the      *)
(* other's position), and none of them points to a deleted word.              *)
FreshUnlessPending ==
    ~m_bNeedChangeWord =>
        /\ ~dangling
        /\ Len(m_VtDetLst) = Len(m_pWordLst)
        /\ \A i \in 1..Len(m_pWordLst) : m_VtDetLst[i].word = m_pWordLst[i]

(* The buffer works exactly while the current detection waits for its right   *)
(* silence, as the assertions of lines 202, 224 and 233 of zvbvmem.cpp need,  *)
(* until the assertion of line 314 has failed.                                *)
WorkingMatchesCurrent ==
    314 \notin asserts =>
        (m_bWorking <=> /\ m_iCurVtDetId # 0
                        /\ m_VtDetLst[m_iCurVtDetId].status = "process")

(* No assertion of zvbvmem.cpp fails unless the one of line 314 has.          *)
SecSlFailsFirst == asserts # {} => 314 \in asserts

(* assert(!m_pAudBuff_Vt_Ns->m_bWorking), zvbvmem.cpp line 314.               *)
SecSlFindsIdleBuffer == 314 \notin asserts

(* The word looked up after a detection is the word that was detected, unless *)
(* the words were changed before the lookup.                                  *)
LookupRightUnlessPending ==
    [][lookup' # lookup /\ ~m_bNeedChangeWord => lookup'[1] = lookup'[2]]_engineVars

(* A deleted word is read only when a list was configured while a detection   *)
(* was current, or the engine was reset between a list and the next call: a   *)
(* list configured while no detection is current replaces the detectors       *)
(* before any of them touches its word, whatever the calls around it.         *)
OnlyHastyChangesHarm == wild => hasty

(* The detection that keeps the beam-former buffer working ends: its          *)
(* right-silence frame, tested for equality, is not missed (unless a deleted  *)
(* word has been read).                                                       *)
BufferIsReleased == m_bWorking ~> ~m_bWorking \/ wild
=============================================================================
