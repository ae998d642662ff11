-------------------------- MODULE WakeEngineProofs --------------------------
(***************************************************************************)
(* Machine-checked proofs about WakeEngine, for any words and lists of any  *)
(* length.                                                                  *)
(***************************************************************************)
EXTENDS WakeEngine, WellFoundedInduction, TLAPS

(* A detector that reports is past its word's end.                            *)
CurrentInv == m_iCurVtDetId # 0 => m_VtDetLst[m_iCurVtDetId].status # "ready"

(* A word still to be looked up is the current detector's.                    *)
FoundIsCurrent ==
    found # NoWord =>
        m_iCurVtDetId # 0 /\ found = m_VtDetLst[m_iCurVtDetId].word

(* A working buffer has a current detection that waits, also after the        *)
(* assertion of line 314 has failed.                                          *)
WorkingHasCurrent ==
    m_bWorking => /\ m_iCurVtDetId # 0
                  /\ m_VtDetLst[m_iCurVtDetId].status = "process"

(* The inductive invariant.                                                   *)
EngineInv ==
    /\ EngineTypeOK /\ NeverWordless /\ FreshUnlessPending
    /\ CurrentInv /\ FoundIsCurrent /\ WorkingHasCurrent
    /\ WorkingMatchesCurrent /\ SecSlFailsFirst

-----------------------------------------------------------------------------
(* A function on 1..n is a sequence of length n.                              *)
LEMMA FcnIsSeq ==
    ASSUME NEW S, NEW n \in Nat, NEW f \in [1..n -> S]
    PROVE  f \in Seq(S) /\ Len(f) = n
  OBVIOUS

(* The constructors and enter_vbv establish the invariant.                    *)
LEMMA InitEngineInv == EngineInit => EngineInv
  <1> SUFFICES ASSUME EngineInit PROVE EngineInv
    OBVIOUS
  <1> USE EngineAssumption DEF EngineInit
  <1>1. m_pWordLst \in Seq(Words) /\ m_VtDetLst \in Seq(Detectors) /\ Len(m_VtDetLst) = 0
    OBVIOUS
  <1>2. EngineTypeOK
    <2>1. lookup \in (Words \cup {NoWord}) \X (Words \cup {NoWord})
      BY DEF NoLookup
    <2>2. m_iCurVtDetId \in 0..Len(m_VtDetLst)
      BY <1>1
    <2>3. asserts \subseteq {202, 224, 314}
      OBVIOUS
    <2> QED BY <1>1, <2>1, <2>2, <2>3 DEF EngineTypeOK
  <1> QED
    BY <1>1, <1>2
    DEF EngineInv, NeverWordless, FreshUnlessPending, CurrentInv, FoundIsCurrent,
        WorkingHasCurrent, WorkingMatchesCurrent, SecSlFailsFirst

(* Configuring a list from WordLists.                                         *)
LEMMA SetWordsEngineInv ==
    ASSUME EngineInv, NEW ws \in Seq(Words), SetWords(ws), UNCHANGED <<found, lookup>>
    PROVE  EngineInv'
  <1>1. /\ m_VtDetLst' = m_VtDetLst /\ m_iCurVtDetId' = m_iCurVtDetId
        /\ m_bWorking' = m_bWorking /\ asserts' = asserts
        /\ found' = found /\ lookup' = lookup
    BY DEF SetWords
  <1>2. /\ m_bNeedChangeWord' \in BOOLEAN /\ m_pWordLst' \in Seq(Words)
        /\ m_pWordLst' # <<>>
        /\ \/ m_bNeedChangeWord'
           \/ ~m_bNeedChangeWord /\ m_pWordLst' = m_pWordLst /\ dangling' = dangling
    BY DEF SetWords, EngineInv, EngineTypeOK, NeverWordless
  <1>0. dangling' \in BOOLEAN /\ wild' \in BOOLEAN /\ hasty' \in BOOLEAN
    <2>1. wild' = wild
      BY DEF SetWords
    <2>2. CASE ws # <<>>
      BY <2>1, <2>2 DEF SetWords, DeleteWords, EngineInv, EngineTypeOK
    <2>3. CASE ws = <<>>
      BY <2>1, <2>3 DEF SetWords, EngineInv, EngineTypeOK
    <2> QED BY <2>2, <2>3
  <1>3. EngineTypeOK'
    BY <1>0, <1>1, <1>2 DEF EngineInv, EngineTypeOK
  <1>4. NeverWordless' /\ FreshUnlessPending'
    BY <1>1, <1>2 DEF EngineInv, NeverWordless, FreshUnlessPending
  <1>5. /\ CurrentInv' /\ FoundIsCurrent' /\ WorkingHasCurrent'
        /\ WorkingMatchesCurrent' /\ SecSlFailsFirst'
    BY <1>1
    DEF EngineInv, CurrentInv, FoundIsCurrent, WorkingHasCurrent,
        WorkingMatchesCurrent, SecSlFailsFirst
  <1> QED BY <1>3, <1>4, <1>5 DEF EngineInv

(* CheckWordsChanged gives a list of detectors for the list of words.         *)
LEMMA CheckWordsChangedType ==
    ASSUME EngineInv
    PROVE  /\ CheckWordsChanged \in Seq(Detectors)
           /\ ~(m_bNeedChangeWord /\ ~ChangeNow) =>
                 /\ Len(CheckWordsChanged) = Len(m_pWordLst)
                 /\ \A i \in 1..Len(m_pWordLst) :
                       CheckWordsChanged[i].word = m_pWordLst[i]
           /\ m_iCurVtDetId # 0 => CheckWordsChanged = m_VtDetLst
  <1> USE EngineAssumption DEF EngineInv
  <1>1. CASE ChangeNow
    <2> DEFINE f == [i \in 1..Len(m_pWordLst) |-> Det(m_pWordLst[i])]
    <2>1. m_pWordLst \in Seq(Words) /\ Len(m_pWordLst) \in Nat
      BY DEF EngineTypeOK
    <2>2. \A i \in 1..Len(m_pWordLst) : Det(m_pWordLst[i]) \in Detectors
      BY <2>1 DEF Det, Detectors
    <2>3. f \in [1..Len(m_pWordLst) -> Detectors]
      BY <2>2
    <2>4. f \in Seq(Detectors) /\ Len(f) = Len(m_pWordLst)
      BY <2>1, <2>3, FcnIsSeq
    <2>5. \A i \in 1..Len(m_pWordLst) : f[i] = Det(m_pWordLst[i])
      OBVIOUS
    <2>6. CheckWordsChanged = f
      BY <1>1 DEF CheckWordsChanged
    <2>7. m_iCurVtDetId = 0
      BY <1>1 DEF ChangeNow
    <2> HIDE DEF f
    <2>8. \A i \in 1..Len(m_pWordLst) : f[i].word = m_pWordLst[i]
      <3>1. \A w : Det(w).word = w
        BY DEF Det
      <3> QED BY <2>5, <3>1
    <2> QED BY <2>4, <2>6, <2>7, <2>8
  <1>2. CASE ~ChangeNow
    <2>1. CheckWordsChanged = m_VtDetLst
      BY <1>2 DEF CheckWordsChanged
    <2>2. m_VtDetLst \in Seq(Detectors)
      BY DEF EngineTypeOK
    <2> QED BY <1>2, <2>1, <2>2 DEF FreshUnlessPending
  <1> QED BY <1>1, <1>2

(* Detectors whose words are deleted stay only while a detection is current.  *)
LEMMA StaleFacts ==
    ASSUME EngineInv
    PROVE  /\ Stale \in BOOLEAN
           /\ ~(m_bNeedChangeWord /\ ~ChangeNow) => ~Stale
           /\ Stale => dangling /\ m_iCurVtDetId # 0
  BY DEF Stale, ChangeNow, EngineInv, EngineTypeOK, FreshUnlessPending

(* A call with less than a batch of frames.                                   *)
LEMMA DetectNothingInv ==
    ASSUME EngineInv, DetectNothing
    PROVE  EngineInv'
  <1> DEFINE c == CheckWordsChanged
  <1>1. /\ found' = NoWord /\ lookup' = NoLookup /\ m_pWordLst' = m_pWordLst
        /\ m_iCurVtDetId' = m_iCurVtDetId /\ m_bWorking' = m_bWorking
        /\ asserts' = asserts /\ m_VtDetLst' = c
        /\ m_bNeedChangeWord' = (m_bNeedChangeWord /\ ~ChangeNow)
        /\ dangling' = Stale /\ wild' = wild /\ hasty' = hasty
    BY DEF DetectNothing
  <1>2. /\ c \in Seq(Detectors)
        /\ ~(m_bNeedChangeWord /\ ~ChangeNow) =>
              /\ Len(c) = Len(m_pWordLst)
              /\ \A i \in 1..Len(m_pWordLst) : c[i].word = m_pWordLst[i]
        /\ m_iCurVtDetId # 0 => c = m_VtDetLst
    BY CheckWordsChangedType
  <1> HIDE DEF c
  <1>3. EngineTypeOK'
    BY <1>1, <1>2, StaleFacts DEF EngineInv, EngineTypeOK, NoLookup
  <1>4. /\ NeverWordless' /\ FreshUnlessPending' /\ CurrentInv' /\ FoundIsCurrent'
        /\ SecSlFailsFirst'
    BY <1>1, <1>2, StaleFacts
    DEF EngineInv, NeverWordless, FreshUnlessPending, CurrentInv, FoundIsCurrent,
        SecSlFailsFirst
  <1>5. WorkingHasCurrent' /\ WorkingMatchesCurrent'
    BY <1>1, <1>2 DEF EngineInv, WorkingHasCurrent, WorkingMatchesCurrent
  <1> QED BY <1>3, <1>4, <1>5 DEF EngineInv

-----------------------------------------------------------------------------
(* Every non-empty set of positions has a first one.                          *)
LEMMA FirstExists ==
    ASSUME NEW T \in SUBSET Nat, T # {}
    PROVE  \E i \in T : \A j \in T : i <= j
  <1> DEFINE R == {ss \in Nat \X Nat : ss[1] < ss[2]}
  <1>1. IsWellFoundedOn(R, Nat)
    BY NatLessThanWellFounded DEF OpToRel
  <1>2. \A i, j \in T : j < i => <<j, i>> \in R
    OBVIOUS
  <1> HIDE DEF R
  <1>3. PICK i \in T : \A j \in T : ~(<<j, i>> \in R)
    BY <1>1, WFMin
  <1>4. \A j \in T : ~(j < i)
    BY <1>2, <1>3
  <1>5. \A j \in T : i <= j
    BY <1>4
  <1> QED BY <1>5

(* What a batch does to one detector: it stays a detector of its word, and    *)
(* its flags tell its status.                                                 *)
LEMMA AfterFacts ==
    ASSUME NEW d \in Detectors, d.status # "finish", NEW o \in Outcomes(d)
    PROVE  /\ After(d, o) \in Detectors /\ After(d, o).word = d.word
           /\ d.status = "process" =>
                 /\ "PRE" \notin Returned(d, o) /\ After(d, o).status # "ready"
                 /\ (o # "none" <=> "CMD" \in Returned(d, o) \/ "NOCMD" \in Returned(d, o))
                 /\ (o # "none" <=> After(d, o).status = "finish")
           /\ "PRE" \in Returned(d, o) =>
                 /\ After(d, o).status # "ready"
                 /\ ("CMD" \in Returned(d, o) \/ "NOCMD" \in Returned(d, o))
                       <=> After(d, o).status = "finish"
  <1> USE EngineAssumption
  <1>1. /\ d.word \in Words /\ d.status \in {"ready", "process"} /\ d.wait \in 0..Wait
        /\ d = [word |-> d.word, status |-> d.status, wait |-> d.wait]
    BY DEF Detectors
  <1>2. \/ o \in {"cmd", "nocmd"}
        \/ d.status = "ready" /\ o \in {"none", "reject", "pre"}
        \/ d.status = "process" /\ o = "none"
    BY <1>1 DEF Outcomes
  <1>3. CASE o = "pre"
    <2>1. After(d, o) = [word |-> d.word, status |-> "process", wait |-> Wait]
      BY <1>1, <1>3 DEF After
    <2> QED BY <1>1, <1>2, <1>3, <2>1 DEF Returned, Detectors
  <1>4. CASE o = "none" /\ (d.status = "ready" \/ d.wait <= 1)
    <2>1. After(d, o) = d
      BY <1>1, <1>4 DEF After
    <2>2. Returned(d, o) = {}
      BY <1>4 DEF Returned
    <2> QED BY <1>1, <1>4, <2>1, <2>2
  <1>5. CASE o = "none" /\ d.status = "process" /\ d.wait > 1
    <2>1. After(d, o) = [word |-> d.word, status |-> "process", wait |-> d.wait - 1]
      BY <1>1, <1>5 DEF After
    <2>2. d.wait - 1 \in 0..Wait
      BY <1>1, <1>5
    <2> QED BY <1>1, <1>5, <2>1, <2>2 DEF Returned, Detectors
  <1>6. CASE o \in {"cmd", "nocmd", "reject"}
    <2>1. After(d, o) = [word |-> d.word, status |-> "finish", wait |-> 0]
      BY <1>1, <1>6 DEF After
    <2> QED BY <1>1, <1>2, <1>6, <2>1 DEF Returned, Detectors
  <1>7. d.wait <= 1 \/ d.wait > 1
    BY <1>1
  <1> QED BY <1>1, <1>2, <1>3, <1>4, <1>5, <1>6, <1>7

(* The detectors a batch starts with, and the current one among them.         *)
LEMMA BatchFacts ==
    ASSUME EngineInv
    PROVE  /\ BatchDets \in Seq(Detectors)
           /\ \A i \in 1..Len(BatchDets) : BatchDets[i].status # "finish"
           /\ ~(m_bNeedChangeWord /\ ~ChangeNow) =>
                 /\ Len(BatchDets) = Len(m_pWordLst)
                 /\ \A i \in 1..Len(m_pWordLst) : BatchDets[i].word = m_pWordLst[i]
           /\ BatchCur # 0 =>
                 /\ BatchCur = m_iCurVtDetId /\ BatchCur \in 1..Len(BatchDets)
                 /\ BatchDets[BatchCur].status = "process"
                 /\ BatchDets[BatchCur] = m_VtDetLst[m_iCurVtDetId]
                 /\ m_VtDetLst[m_iCurVtDetId].status = "process"
           /\ BatchCur = 0 =>
                 m_iCurVtDetId = 0 \/ m_VtDetLst[m_iCurVtDetId].status = "finish"
  <1> DEFINE c == CheckWordsChanged
             n == Len(c)
             f == [i \in 1..n |-> Restart(c[i])]
  <1>1. /\ c \in Seq(Detectors)
        /\ ~(m_bNeedChangeWord /\ ~ChangeNow) =>
              /\ Len(c) = Len(m_pWordLst)
              /\ \A i \in 1..Len(m_pWordLst) : c[i].word = m_pWordLst[i]
        /\ m_iCurVtDetId # 0 => c = m_VtDetLst
    BY CheckWordsChangedType
  <1>2. BatchDets = f
    BY DEF BatchDets
  <1> HIDE DEF c
  <1>3. \A d \in Detectors :
           /\ Restart(d) \in Detectors /\ Restart(d).word = d.word
           /\ Restart(d).status # "finish"
           /\ d.status # "finish" => Restart(d) = d
    BY EngineAssumption DEF Restart, Det, Detectors
  <1>4. n \in Nat /\ \A i \in 1..n : c[i] \in Detectors
    BY <1>1
  <1>5. f \in [1..n -> Detectors]
    BY <1>3, <1>4
  <1>6. f \in Seq(Detectors) /\ Len(f) = n
    BY <1>4, <1>5, FcnIsSeq
  <1>7. \A i \in 1..n : /\ f[i] = Restart(c[i]) /\ f[i].word = c[i].word
                        /\ f[i].status # "finish"
                        /\ c[i].status # "finish" => f[i] = c[i]
    BY <1>3, <1>4
  <1> HIDE DEF f
  <1>8. ASSUME BatchCur # 0
        PROVE  /\ BatchCur = m_iCurVtDetId /\ BatchCur \in 1..n
               /\ c[BatchCur].status = "process"
               /\ c[BatchCur] = m_VtDetLst[m_iCurVtDetId]
               /\ m_VtDetLst[m_iCurVtDetId].status = "process"
    <2>1. /\ BatchCur = m_iCurVtDetId /\ m_iCurVtDetId # 0
          /\ m_VtDetLst[m_iCurVtDetId].status # "finish"
      BY <1>8 DEF BatchCur
    <2>2. m_iCurVtDetId \in 1..n /\ c = m_VtDetLst
      BY <1>1, <2>1 DEF EngineInv, EngineTypeOK
    <2>3. c[m_iCurVtDetId].status \in {"ready", "process", "finish"}
      BY <1>4, <2>2 DEF Detectors
    <2>4. m_VtDetLst[m_iCurVtDetId].status # "ready"
      BY <2>1 DEF EngineInv, CurrentInv
    <2> QED BY <2>1, <2>2, <2>3, <2>4
  <1>9. BatchCur = 0 =>
          m_iCurVtDetId = 0 \/ m_VtDetLst[m_iCurVtDetId].status = "finish"
    BY DEF BatchCur
  <1>10. BatchCur # 0 => f[BatchCur] = c[BatchCur]
    BY <1>7, <1>8
  <1> QED BY <1>1, <1>2, <1>6, <1>7, <1>8, <1>9, <1>10

(* The detector that reports is the current one, or one that reports PRE.     *)
LEMMA ReporterFacts ==
    ASSUME NEW dets \in Seq(Detectors), NEW outs,
           BatchCur # 0 => BatchCur \in 1..Len(dets)
    PROVE  /\ Reporter(dets, outs) \in 0..Len(dets)
           /\ BatchCur # 0 => Reporter(dets, outs) = BatchCur
           /\ BatchCur = 0 /\ Reporter(dets, outs) # 0 =>
                 "PRE" \in Returned(dets[Reporter(dets, outs)], outs[Reporter(dets, outs)])
  <1> DEFINE pre == {i \in 1..Len(dets) : "PRE" \in Returned(dets[i], outs[i])}
             first == CHOOSE i \in pre : \A j \in pre : i <= j
  <1>1. Reporter(dets, outs) = IF BatchCur # 0 THEN BatchCur
                               ELSE IF pre = {} THEN 0 ELSE first
    BY DEF Reporter
  <1>2. pre \in SUBSET Nat
    OBVIOUS
  <1>3. pre # {} => first \in pre
    <2> HIDE DEF pre
    <2>1. pre # {} => \E i \in pre : \A j \in pre : i <= j
      BY <1>2, FirstExists
    <2> QED BY <2>1
  <1>4. first \in pre => first \in 1..Len(dets) /\ "PRE" \in Returned(dets[first], outs[first])
    <2> HIDE DEF first
    <2> QED OBVIOUS
  <1> HIDE DEF pre, first
  <1> QED BY <1>1, <1>3, <1>4

(* One batch of frames, whatever the detectors find.                          *)
LEMMA DetectBatchInv ==
    ASSUME EngineInv, NEW outs \in BatchOuts(BatchDets), DetectBatch(BatchDets, outs)
    PROVE  EngineInv'
  <1> DEFINE D == BatchDets
             rep == Reporter(D, outs)
             rt == IF rep = 0 THEN {} ELSE Returned(D[rep], outs[rep])
             busy == m_bWorking /\ ~Fired(D, outs)
             done == "CMD" \in rt \/ "NOCMD" \in rt
             new == [i \in 1..Len(D) |-> After(D[i], outs[i])]
  <1>1. /\ m_VtDetLst' = new /\ m_iCurVtDetId' = rep /\ m_pWordLst' = m_pWordLst
        /\ m_bNeedChangeWord' = (m_bNeedChangeWord /\ ~ChangeNow)
        /\ m_bWorking' = ((busy \/ "PRE" \in rt) /\ ~done)
        /\ found' = IF "PRE" \in rt THEN D[rep].word ELSE NoWord
        /\ lookup' = NoLookup
        /\ dangling' = Stale /\ wild' \in BOOLEAN /\ hasty' = hasty
    BY DEF DetectBatch
  <1>2. asserts' = asserts \cup (IF m_bWorking /\ Fired(D, outs) THEN {314} ELSE {})
                           \cup (IF busy /\ "PRE" \in rt THEN {202} ELSE {})
                           \cup (IF done /\ ~busy /\ "PRE" \notin rt THEN {224} ELSE {})
    BY DEF DetectBatch
  <1>3. /\ D \in Seq(Detectors)
        /\ \A i \in 1..Len(D) : D[i].status # "finish"
        /\ ~(m_bNeedChangeWord /\ ~ChangeNow) =>
              /\ Len(D) = Len(m_pWordLst)
              /\ \A i \in 1..Len(m_pWordLst) : D[i].word = m_pWordLst[i]
        /\ BatchCur # 0 =>
              /\ BatchCur = m_iCurVtDetId /\ BatchCur \in 1..Len(D)
              /\ D[BatchCur].status = "process"
              /\ m_VtDetLst[m_iCurVtDetId].status = "process"
        /\ BatchCur = 0 =>
              m_iCurVtDetId = 0 \/ m_VtDetLst[m_iCurVtDetId].status = "finish"
    BY BatchFacts
  <1>4. \A i \in 1..Len(D) : outs[i] \in Outcomes(D[i])
    BY DEF BatchOuts
  <1> HIDE DEF D
  <1>5. \A i \in 1..Len(D) : D[i] \in Detectors
    BY <1>3
  <1>6. ASSUME NEW i \in 1..Len(D)
        PROVE  /\ new[i] = After(D[i], outs[i])
               /\ new[i] \in Detectors /\ new[i].word = D[i].word
               /\ D[i].status = "process" =>
                     /\ "PRE" \notin Returned(D[i], outs[i]) /\ new[i].status # "ready"
                     /\ (outs[i] # "none" <=>
                           "CMD" \in Returned(D[i], outs[i]) \/ "NOCMD" \in Returned(D[i], outs[i]))
                     /\ (outs[i] # "none" <=> new[i].status = "finish")
               /\ "PRE" \in Returned(D[i], outs[i]) =>
                     /\ new[i].status # "ready"
                     /\ ("CMD" \in Returned(D[i], outs[i]) \/ "NOCMD" \in Returned(D[i], outs[i]))
                           <=> new[i].status = "finish"
    <2>1. new[i] = After(D[i], outs[i])
      OBVIOUS
    <2>2. D[i] \in Detectors /\ D[i].status # "finish" /\ outs[i] \in Outcomes(D[i])
      BY <1>3, <1>4, <1>5
    <2> HIDE DEF new
    <2> QED BY <2>1, <2>2, AfterFacts
  <1>7. new \in Seq(Detectors) /\ Len(new) = Len(D)
    <2>1. new \in [1..Len(D) -> Detectors] /\ Len(D) \in Nat
      BY <1>3, <1>6
    <2> HIDE DEF new
    <2> QED BY <2>1, FcnIsSeq
  <1> HIDE DEF new
  <1>8. /\ rep \in 0..Len(D)
        /\ BatchCur # 0 => rep = BatchCur
        /\ BatchCur = 0 /\ rep # 0 => "PRE" \in Returned(D[rep], outs[rep])
    BY <1>3, ReporterFacts
  <1> HIDE DEF rep
  <1>9. rep # 0 => rep \in 1..Len(D) /\ rt = Returned(D[rep], outs[rep])
    BY <1>3, <1>8
  <1>10. rep = 0 => rt = {}
    OBVIOUS
  <1>11. BatchCur # 0 => D[rep].status = "process" /\ rep # 0
    BY <1>3, <1>8
  <1> HIDE DEF rt
  <1>12. EngineTypeOK'
    <2>1. found' \in Words \cup {NoWord}
      BY <1>1, <1>5, <1>9, <1>10 DEF Detectors
    <2>2. asserts' \subseteq {202, 224, 314}
      BY <1>2 DEF EngineInv, EngineTypeOK
    <2>3. m_VtDetLst' \in Seq(Detectors) /\ m_iCurVtDetId' \in 0..Len(m_VtDetLst')
      BY <1>1, <1>7, <1>8
    <2>4. m_pWordLst' \in Seq(Words)
      BY <1>1 DEF EngineInv, EngineTypeOK
    <2>5. m_bNeedChangeWord' \in BOOLEAN /\ m_bWorking' \in BOOLEAN
      BY <1>1
    <2>6. lookup' \in (Words \cup {NoWord}) \X (Words \cup {NoWord})
      BY <1>1 DEF NoLookup
    <2>7. dangling' \in BOOLEAN /\ wild' \in BOOLEAN /\ hasty' \in BOOLEAN
      BY <1>1, StaleFacts DEF EngineInv, EngineTypeOK
    <2> QED BY <2>1, <2>2, <2>3, <2>4, <2>5, <2>6, <2>7 DEF EngineTypeOK
  <1>13. NeverWordless' /\ FreshUnlessPending'
    <2>1. ~m_bNeedChangeWord' =>
             /\ Len(new) = Len(m_pWordLst)
             /\ \A i \in 1..Len(m_pWordLst) : new[i].word = m_pWordLst[i]
      <3>1. \A i \in 1..Len(D) : new[i].word = D[i].word
        BY <1>6
      <3>2. ~m_bNeedChangeWord' => ~(m_bNeedChangeWord /\ ~ChangeNow)
        BY <1>1
      <3> QED BY <1>3, <1>7, <3>1, <3>2
    <2>2. ~m_bNeedChangeWord' => ~dangling'
      BY <1>1, StaleFacts
    <2> QED BY <1>1, <2>1, <2>2 DEF EngineInv, NeverWordless, FreshUnlessPending
  <1>14. CurrentInv' /\ FoundIsCurrent'
    <2>1. rep # 0 => new[rep].status # "ready"
      BY <1>6, <1>8, <1>9, <1>11
    <2>2. "PRE" \in rt => rep # 0 /\ D[rep].word = new[rep].word
      BY <1>6, <1>9, <1>10
    <2> QED BY <1>1, <2>1, <2>2 DEF CurrentInv, FoundIsCurrent
  <1>15. 314 \notin asserts => m_bWorking = (BatchCur # 0)
    BY <1>3 DEF EngineInv, WorkingMatchesCurrent, EngineTypeOK
  <1>16. m_bWorking /\ Fired(D, outs) => 314 \in asserts'
    BY <1>2
  <1>17. 314 \in asserts => 314 \in asserts'
    BY <1>2
  <1>18. ASSUME 314 \notin asserts'
         PROVE  /\ asserts' = {}
                /\ m_bWorking' <=> rep # 0 /\ new[rep].status = "process"
    <2>1. 314 \notin asserts /\ asserts = {} /\ ~(m_bWorking /\ Fired(D, outs))
      BY <1>16, <1>17, <1>18 DEF EngineInv, SecSlFailsFirst
    <2>2. busy <=> BatchCur # 0
      BY <1>15, <2>1
    <2>3. new[rep].status \in {"ready", "process", "finish"} \/ rep = 0
      BY <1>6, <1>9 DEF Detectors
    <2>4. CASE BatchCur # 0
      <3>1. /\ "PRE" \notin rt /\ new[rep].status # "ready"
            /\ done <=> new[rep].status = "finish"
        BY <1>6, <1>9, <1>11, <2>4
      <3> HIDE DEF busy, done
      <3> QED BY <1>1, <1>2, <1>11, <2>1, <2>2, <2>3, <2>4, <3>1
    <2>5. CASE BatchCur = 0 /\ rep # 0
      <3>1. /\ "PRE" \in rt /\ new[rep].status # "ready"
            /\ done <=> new[rep].status = "finish"
        BY <1>6, <1>8, <1>9, <2>5
      <3> HIDE DEF busy, done
      <3> QED BY <1>1, <1>2, <2>1, <2>2, <2>3, <2>5, <3>1
    <2>6. CASE BatchCur = 0 /\ rep = 0
      <3>1. "PRE" \notin rt /\ ~done
        BY <1>10, <2>6
      <3> HIDE DEF busy, done
      <3> QED BY <1>1, <1>2, <2>1, <2>2, <2>6, <3>1
    <2> QED BY <2>4, <2>5, <2>6
  <1>19. WorkingMatchesCurrent' /\ SecSlFailsFirst'
    BY <1>1, <1>18 DEF WorkingMatchesCurrent, SecSlFailsFirst
  <1>20. WorkingHasCurrent'
    <2> SUFFICES ASSUME m_bWorking' PROVE rep # 0 /\ new[rep].status = "process"
      BY <1>1 DEF WorkingHasCurrent
    <2>1. (busy \/ "PRE" \in rt) /\ ~done
      BY <1>1
    <2>2. busy => BatchCur # 0
      BY DEF BatchCur, EngineInv, WorkingHasCurrent
    <2>3. rep # 0
      BY <1>10, <1>11, <2>1, <2>2
    <2>4. new[rep].status # "ready" /\ new[rep].status # "finish"
      BY <1>6, <1>8, <1>9, <1>11, <2>1, <2>2, <2>3
    <2>5. new[rep].status \in {"ready", "process", "finish"}
      BY <1>6, <1>9, <2>3 DEF Detectors
    <2> QED BY <2>3, <2>4, <2>5
  <1> QED BY <1>12, <1>13, <1>14, <1>19, <1>20 DEF EngineInv

(* processfrm's lookup and a reset leave the detectors' words alone.          *)
LEMMA LookupResetInv ==
    ASSUME EngineInv, GetDetWordInfo \/ Reset
    PROVE  EngineInv'
  <1>1. CASE GetDetWordInfo
    <2>1. /\ m_pWordLst' = m_pWordLst /\ m_bNeedChangeWord' = m_bNeedChangeWord
          /\ m_VtDetLst' = m_VtDetLst /\ m_iCurVtDetId' = m_iCurVtDetId
          /\ m_bWorking' = m_bWorking /\ asserts' = asserts /\ found' = NoWord
          /\ dangling' = dangling /\ wild' = wild /\ hasty' = hasty
      BY <1>1 DEF GetDetWordInfo, engine
    <2>2. lookup' \in (Words \cup {NoWord}) \X (Words \cup {NoWord})
      BY <1>1 DEF GetDetWordInfo, EngineInv, EngineTypeOK
    <2>3. EngineTypeOK'
      BY <2>1, <2>2 DEF EngineInv, EngineTypeOK
    <2> QED
      BY <2>1, <2>3 DEF EngineInv, NeverWordless, FreshUnlessPending, CurrentInv,
         FoundIsCurrent, WorkingHasCurrent, WorkingMatchesCurrent, SecSlFailsFirst
  <1>2. CASE Reset
    <2> DEFINE new == [i \in 1..Len(m_VtDetLst) |-> Det(m_VtDetLst[i].word)]
    <2>1. /\ m_pWordLst' = m_pWordLst /\ m_bNeedChangeWord' = m_bNeedChangeWord
          /\ m_VtDetLst' = new /\ m_iCurVtDetId' = 0
          /\ m_bWorking' = FALSE /\ asserts' = asserts
          /\ found' = NoWord /\ lookup' = lookup /\ dangling' = dangling
          /\ wild' \in BOOLEAN /\ hasty' \in BOOLEAN
      BY <1>2 DEF Reset
    <2>2. \A w : w \in Words => Det(w) \in Detectors
      BY EngineAssumption DEF Det, Detectors
    <2>3. \A i \in 1..Len(m_VtDetLst) : m_VtDetLst[i].word \in Words
      <3>1. m_VtDetLst \in Seq(Detectors)
        BY DEF EngineInv, EngineTypeOK
      <3>2. \A i \in 1..Len(m_VtDetLst) : m_VtDetLst[i] \in Detectors
        BY <3>1
      <3>3. \A d \in Detectors : d.word \in Words
        BY DEF Detectors
      <3> QED BY <3>2, <3>3
    <2>4. new \in [1..Len(m_VtDetLst) -> Detectors] /\ Len(m_VtDetLst) \in Nat
      BY <2>2, <2>3 DEF EngineInv, EngineTypeOK
    <2>5. \A i \in 1..Len(m_VtDetLst) : new[i].word = m_VtDetLst[i].word
      BY DEF Det
    <2> HIDE DEF new
    <2>6. new \in Seq(Detectors) /\ Len(new) = Len(m_VtDetLst)
      BY <2>4, FcnIsSeq
    <2>7. EngineTypeOK'
      <3>1. m_VtDetLst' \in Seq(Detectors) /\ m_iCurVtDetId' \in 0..Len(m_VtDetLst')
        BY <2>1, <2>4, <2>6
      <3> QED BY <2>1, <3>1 DEF EngineInv, EngineTypeOK
    <2> QED
      BY <2>1, <2>5, <2>6, <2>7 DEF EngineInv, NeverWordless, FreshUnlessPending,
         CurrentInv, FoundIsCurrent, WorkingHasCurrent, WorkingMatchesCurrent,
         SecSlFailsFirst
  <1> QED BY <1>1, <1>2

(* The lists clients configure are lists of words.                            *)
LEMMA WordListsSeq == WordLists \subseteq Seq(Words)
  <1> SUFFICES ASSUME NEW n \in 0..MaxLen, NEW ws \in [1..n -> Words]
               PROVE  ws \in Seq(Words)
    BY DEF WordLists
  <1>1. n \in Nat
    BY EngineAssumption
  <1> QED BY <1>1, FcnIsSeq

(* Every step of the engine and of its clients preserves the invariant.       *)
LEMMA NextEngineInv == EngineInv /\ [EngineNext]_engineVars => EngineInv'
  <1> SUFFICES ASSUME EngineInv, [EngineNext]_engineVars PROVE EngineInv'
    OBVIOUS
  <1>1. CASE DetectNothing
    BY <1>1, DetectNothingInv
  <1>2. CASE Detect
    BY <1>2, DetectBatchInv DEF Detect
  <1>3. CASE GetDetWordInfo \/ Reset
    BY <1>3, LookupResetInv
  <1>4. ASSUME NEW ws \in WordLists, SetWords(ws), UNCHANGED <<found, lookup>>
        PROVE  EngineInv'
    BY <1>4, WordListsSeq, SetWordsEngineInv
  <1>5. CASE UNCHANGED engineVars
    BY <1>5 DEF engineVars, engine, EngineInv, EngineTypeOK, NeverWordless,
       FreshUnlessPending, CurrentInv, FoundIsCurrent, WorkingHasCurrent,
       WorkingMatchesCurrent, SecSlFailsFirst
  <1> QED BY <1>1, <1>2, <1>3, <1>4, <1>5 DEF EngineNext, EngineStep

-----------------------------------------------------------------------------
(* The inductive invariant holds in every reachable state.                    *)
THEOREM EngineInvariance == EngineSpec => []EngineInv
  BY InitEngineInv, NextEngineInv, PTL DEF EngineSpec

(* The members of ZVtMem and ZVbvMem keep their types; in particular the      *)
(* current detector's position is one of the list, also after SetWords.       *)
THEOREM EngineTypeCorrect == EngineSpec => []EngineTypeOK
  <1>1. EngineInv => EngineTypeOK BY DEF EngineInv
  <1> QED BY <1>1, EngineInvariance, PTL

(* assert(m_iWordNum > 0) of CheckWordsChanged never fails.                   *)
THEOREM AlwaysSomeWord == EngineSpec => []NeverWordless
  <1>1. EngineInv => NeverWordless BY DEF EngineInv
  <1> QED BY <1>1, EngineInvariance, PTL

(* Detectors and configured words correspond unless a change is pending.      *)
THEOREM DetectorsFresh == EngineSpec => []FreshUnlessPending
  <1>1. EngineInv => FreshUnlessPending BY DEF EngineInv
  <1> QED BY <1>1, EngineInvariance, PTL

(* The beam-former buffer works exactly while the current detection waits,    *)
(* until the assertion of line 314 fails.                                     *)
THEOREM WorkingFollowsCurrent == EngineSpec => []WorkingMatchesCurrent
  <1>1. EngineInv => WorkingMatchesCurrent BY DEF EngineInv
  <1> QED BY <1>1, EngineInvariance, PTL

(* The assertion of line 314 of zvbvmem.cpp is the first to fail.             *)
THEOREM OnlySecSlFails == EngineSpec => []SecSlFailsFirst
  <1>1. EngineInv => SecSlFailsFirst BY DEF EngineInv
  <1> QED BY <1>1, EngineInvariance, PTL

(* One step of the engine looks a word up rightly.                            *)
LEMMA LookupStep ==
    EngineInv /\ [EngineNext]_engineVars =>
        [lookup' # lookup /\ ~m_bNeedChangeWord => lookup'[1] = lookup'[2]]_engineVars
  <1> SUFFICES ASSUME EngineInv, [EngineNext]_engineVars, lookup' # lookup,
                      ~m_bNeedChangeWord
               PROVE  lookup'[1] = lookup'[2]
    OBVIOUS
  <1>1. CASE GetDetWordInfo
    <2>1. /\ m_iCurVtDetId \in 1..Len(m_VtDetLst)
          /\ found = m_VtDetLst[m_iCurVtDetId].word
      BY <1>1 DEF GetDetWordInfo, EngineInv, EngineTypeOK, FoundIsCurrent
    <2>2. /\ m_iCurVtDetId \in 1..Len(m_pWordLst)
          /\ m_VtDetLst[m_iCurVtDetId].word = m_pWordLst[m_iCurVtDetId]
      BY <2>1 DEF EngineInv, FreshUnlessPending
    <2> QED BY <1>1, <2>1, <2>2 DEF GetDetWordInfo
  <1>2. CASE DetectNothing \/ Detect
    <2>1. lookup' = NoLookup
      BY <1>2 DEF DetectNothing, Detect, DetectBatch
    <2> QED BY <2>1 DEF NoLookup
  <1>3. CASE Reset \/ UNCHANGED engineVars
    BY <1>3 DEF Reset, engineVars
  <1>4. ASSUME NEW ws \in WordLists, SetWords(ws), UNCHANGED <<found, lookup>>
        PROVE  FALSE
    BY <1>4
  <1> QED BY <1>1, <1>2, <1>3, <1>4 DEF EngineNext, EngineStep

(* The word looked up outside the lock is the detected one unless the list    *)
(* was replaced in between.                                                   *)
THEOREM LookupRight == EngineSpec => LookupRightUnlessPending
  BY LookupStep, EngineInvariance, PTL DEF EngineSpec, LookupRightUnlessPending

-----------------------------------------------------------------------------
(* Unless a deleted word has been read, no detector waits for a silence after *)
(* its word, and the assertion of line 314 has not failed.                    *)
IdleInv ==
    ~wild =>
        /\ 314 \notin asserts
        /\ \A i \in 1..Len(m_VtDetLst) : m_VtDetLst[i].status # "process"

(* Without words that ask for right-silence detection a batch leaves no       *)
(* detector waiting.                                                          *)
LEMMA DetectBatchIdle ==
    ASSUME RightSil = {}, EngineInv, IdleInv,
           NEW outs \in BatchOuts(BatchDets), DetectBatch(BatchDets, outs)
    PROVE  IdleInv'
  <1> SUFFICES ASSUME ~wild' PROVE IdleInv'
    BY DEF IdleInv
  <1>0. ~wild /\ \A i \in 1..Len(BatchDets) : ~Garbled(BatchDets[i])
    BY DEF DetectBatch
  <1> DEFINE D == BatchDets
             c == CheckWordsChanged
             new == [i \in 1..Len(D) |-> After(D[i], outs[i])]
  <1>1. /\ c \in Seq(Detectors) /\ D \in Seq(Detectors)
        /\ \A i \in 1..Len(D) : D[i].status # "finish"
    BY CheckWordsChangedType, BatchFacts
  <1>2. \A i \in 1..Len(c) : c[i].status # "process"
    <2>1. CASE ChangeNow
      <3>1. Len(m_pWordLst) \in Nat
        BY DEF EngineInv, EngineTypeOK
      <3>2. c = [i \in 1..Len(m_pWordLst) |-> Det(m_pWordLst[i])]
        BY <2>1 DEF CheckWordsChanged
      <3>3. Len(c) = Len(m_pWordLst)
        BY <3>1, <3>2, <1>1
      <3>4. \A i \in 1..Len(c) : c[i] = Det(m_pWordLst[i])
        BY <3>2, <3>3
      <3>5. \A w : Det(w).status = "ready"
        BY DEF Det
      <3> QED BY <3>4, <3>5
    <2>2. CASE ~ChangeNow
      BY <1>0, <2>2 DEF CheckWordsChanged, IdleInv
    <2> QED BY <2>1, <2>2
  <1>3. D = [i \in 1..Len(c) |-> Restart(c[i])]
    BY DEF BatchDets
  <1> HIDE DEF c, D
  <1>4. Len(D) = Len(c) /\ \A i \in 1..Len(D) : D[i] = Restart(c[i])
    BY <1>1, <1>3
  <1>5. \A i \in 1..Len(D) : D[i] \in Detectors /\ D[i].status = "ready"
    <2> TAKE i \in 1..Len(D)
    <2>1. c[i] \in Detectors /\ c[i].status # "process" /\ D[i] \in Detectors
      BY <1>1, <1>2, <1>4
    <2>2. c[i].status \in {"ready", "finish"}
      BY <2>1 DEF Detectors
    <2>3. CASE c[i].status = "ready"
      BY <1>4, <2>1, <2>3 DEF Restart
    <2>4. CASE c[i].status = "finish"
      <3>1. D[i] = [word |-> c[i].word, status |-> "ready", wait |-> 0]
        BY <1>4, <2>4 DEF Restart, Det
      <3> QED BY <2>1, <3>1
    <2> QED BY <2>2, <2>3, <2>4
  <1>6. \A i \in 1..Len(D) : outs[i] \in Outcomes(D[i]) /\ ~Garbled(D[i])
    BY <1>0 DEF BatchOuts, D
  <1>7. \A i \in 1..Len(D) : outs[i] \in {"none", "reject", "cmd", "nocmd"}
    BY <1>5, <1>6 DEF Outcomes
  <1>8. \A i \in 1..Len(D) : After(D[i], outs[i]).status # "process"
    <2> TAKE i \in 1..Len(D)
    <2>1. CASE outs[i] = "none"
      <3>1. After(D[i], outs[i]) = D[i]
        BY <1>5, <2>1 DEF After
      <3> QED BY <1>5, <3>1
    <2>2. CASE outs[i] \in {"reject", "cmd", "nocmd"}
      <3>1. After(D[i], outs[i]) = [D[i] EXCEPT !.status = "finish", !.wait = 0]
        BY <2>2 DEF After
      <3> QED BY <1>5, <3>1 DEF Detectors
    <2> QED BY <1>7, <2>1, <2>2
  <1>9. Len(new) = Len(D) /\ \A i \in 1..Len(D) : new[i] = After(D[i], outs[i])
    BY <1>1
  <1>10. m_VtDetLst' = new
    BY DEF DetectBatch, D
  <1>11. m_bWorking = FALSE
    <2>1. m_iCurVtDetId # 0 => m_iCurVtDetId \in 1..Len(m_VtDetLst)
      BY DEF EngineInv, EngineTypeOK
    <2> QED BY <1>0, <2>1 DEF IdleInv, EngineInv, EngineTypeOK, WorkingMatchesCurrent
  <1>12. 314 \notin asserts'
    BY <1>0, <1>11 DEF DetectBatch, IdleInv
  <1> HIDE DEF new
  <1> QED BY <1>8, <1>9, <1>10, <1>12 DEF IdleInv

(* Nor does any other step.                                                   *)
LEMMA NextIdle ==
    ASSUME RightSil = {}
    PROVE  EngineInv /\ IdleInv /\ [EngineNext]_engineVars => IdleInv'
  <1> SUFFICES ASSUME EngineInv, IdleInv, [EngineNext]_engineVars PROVE IdleInv'
    OBVIOUS
  <1>1. CASE DetectNothing
    <2>1. CASE ChangeNow
      <3>1. /\ m_VtDetLst' = [i \in 1..Len(m_pWordLst) |-> Det(m_pWordLst[i])]
            /\ asserts' = asserts /\ wild' = wild
        BY <1>1, <2>1 DEF DetectNothing, CheckWordsChanged
      <3>2. Len(m_pWordLst) \in Nat
        BY DEF EngineInv, EngineTypeOK
      <3>3. /\ Len(m_VtDetLst') = Len(m_pWordLst)
            /\ \A i \in 1..Len(m_VtDetLst') : m_VtDetLst'[i] = Det(m_pWordLst[i])
        BY <3>1, <3>2
      <3>4. \A w : Det(w).status = "ready"
        BY DEF Det
      <3> QED BY <3>1, <3>3, <3>4 DEF IdleInv
    <2>2. CASE ~ChangeNow
      BY <1>1, <2>2 DEF DetectNothing, CheckWordsChanged, IdleInv
    <2> QED BY <2>1, <2>2
  <1>2. CASE Detect
    BY <1>2, DetectBatchIdle DEF Detect
  <1>3. CASE GetDetWordInfo \/ UNCHANGED engineVars
    BY <1>3 DEF GetDetWordInfo, engineVars, engine, IdleInv
  <1>4. CASE Reset
    <2>1. /\ m_VtDetLst' = [i \in 1..Len(m_VtDetLst) |-> Det(m_VtDetLst[i].word)]
          /\ asserts' = asserts /\ Len(m_VtDetLst) \in Nat /\ (~wild' => ~wild)
      BY <1>4 DEF Reset, EngineInv, EngineTypeOK
    <2>2. /\ Len(m_VtDetLst') = Len(m_VtDetLst)
          /\ \A i \in 1..Len(m_VtDetLst') : m_VtDetLst'[i] = Det(m_VtDetLst[i].word)
      BY <2>1
    <2>3. \A w : Det(w).status = "ready"
      BY DEF Det
    <2> QED BY <2>1, <2>2, <2>3 DEF IdleInv
  <1>5. ASSUME NEW ws \in WordLists, SetWords(ws)
        PROVE  IdleInv'
    BY <1>5 DEF SetWords, IdleInv
  <1> QED BY <1>1, <1>2, <1>3, <1>4, <1>5 DEF EngineNext, EngineStep

(* If no configured word asks for right-silence detection, no assertion of    *)
(* zvbvmem.cpp ever fails: the failure of line 314 needs such a word, or a    *)
(* deleted one that was read.                                                 *)
THEOREM NoRightSilenceNoFailure ==
    ASSUME RightSil = {} PROVE EngineSpec => [](wild \/ SecSlFindsIdleBuffer)
  <1>1. EngineInit => IdleInv
    BY DEF EngineInit, IdleInv
  <1>2. EngineInv /\ IdleInv /\ [EngineNext]_engineVars => IdleInv'
    BY NextIdle
  <1>3. IdleInv => wild \/ SecSlFindsIdleBuffer
    BY DEF IdleInv, SecSlFindsIdleBuffer
  <1> QED BY <1>1, <1>2, <1>3, EngineInvariance, PTL DEF EngineSpec

(* With one word at a time no other detector is there to find its word while  *)
(* the current one waits.                                                     *)
OneInv == /\ 314 \notin asserts
          /\ Len(m_VtDetLst) <= 1 /\ Len(m_pWordLst) <= 1

(* Every step of an engine with one word at a time.                           *)
LEMMA NextOne ==
    ASSUME MaxLen = 1
    PROVE  EngineInv /\ OneInv /\ [EngineNext]_engineVars => OneInv'
  <1> SUFFICES ASSUME EngineInv, OneInv, [EngineNext]_engineVars PROVE OneInv'
    OBVIOUS
  <1> DEFINE c == CheckWordsChanged
             D == BatchDets
  <1>1. m_pWordLst \in Seq(Words) /\ m_VtDetLst \in Seq(Detectors)
    BY DEF EngineInv, EngineTypeOK
  <1>2. c \in Seq(Detectors) /\ Len(c) <= 1
    <2>1. c \in Seq(Detectors)
      BY CheckWordsChangedType
    <2>2. CASE ChangeNow
      <3>1. Len(c) = Len(m_pWordLst)
        BY <2>2, CheckWordsChangedType
      <3> QED BY <2>1, <3>1 DEF OneInv
    <2>3. CASE ~ChangeNow
      BY <2>1, <2>3 DEF CheckWordsChanged, OneInv
    <2> QED BY <2>1, <2>2, <2>3
  <1>3. CASE DetectNothing
    BY <1>2, <1>3 DEF DetectNothing, OneInv
  <1>4. ASSUME NEW outs \in BatchOuts(D), DetectBatch(D, outs) PROVE OneInv'
    <2>1. /\ D \in Seq(Detectors)
          /\ BatchCur # 0 => BatchCur \in 1..Len(D) /\ D[BatchCur].status = "process"
          /\ BatchCur = 0 =>
                m_iCurVtDetId = 0 \/ m_VtDetLst[m_iCurVtDetId].status = "finish"
      BY BatchFacts
    <2>2. Len(D) = Len(c)
      <3>1. D = [i \in 1..Len(c) |-> Restart(c[i])]
        BY DEF BatchDets
      <3> HIDE DEF c, D
      <3> QED BY <1>2, <2>1, <3>1
    <2>3. /\ m_VtDetLst' = [i \in 1..Len(D) |-> After(D[i], outs[i])]
          /\ m_pWordLst' = m_pWordLst
          /\ ~(m_bWorking /\ Fired(D, outs)) => (314 \in asserts' <=> 314 \in asserts)
      BY <1>4 DEF DetectBatch
    <2> HIDE DEF c, D
    <2>4. Len(m_VtDetLst') <= 1
      <3>1. Len(D) \in Nat /\ Len(D) <= 1
        BY <1>2, <2>2
      <3> QED BY <2>3, <3>1
    <2>5. ~(m_bWorking /\ Fired(D, outs))
      <3> SUFFICES ASSUME m_bWorking PROVE ~Fired(D, outs)
        OBVIOUS
      <3>1. BatchCur # 0
        BY <2>1 DEF EngineInv, WorkingMatchesCurrent, OneInv
      <3>2. Len(D) \in Nat /\ Len(D) <= 1 /\ BatchCur \in 1..Len(D)
        BY <1>2, <2>1, <2>2, <3>1
      <3>3. \A i \in 1..Len(D) : i = BatchCur
        BY <3>2
      <3> QED BY <2>1, <3>1, <3>3 DEF Fired
    <2> QED BY <2>3, <2>4, <2>5 DEF OneInv
  <1>5. CASE GetDetWordInfo \/ UNCHANGED engineVars
    BY <1>5 DEF GetDetWordInfo, engineVars, engine, OneInv
  <1>6. CASE Reset
    <2>1. /\ m_VtDetLst' = [i \in 1..Len(m_VtDetLst) |-> Det(m_VtDetLst[i].word)]
          /\ m_pWordLst' = m_pWordLst /\ asserts' = asserts
      BY <1>6 DEF Reset
    <2>2. Len(m_VtDetLst') = Len(m_VtDetLst)
      BY <1>1, <2>1
    <2> QED BY <2>1, <2>2 DEF OneInv
  <1>7. ASSUME NEW ws \in WordLists, SetWords(ws) PROVE OneInv'
    <2>1. Len(ws) <= 1
      <3>1. PICK n \in 0..MaxLen : ws \in [1..n -> Words]
        BY DEF WordLists
      <3>2. n \in Nat /\ n <= 1
        BY <3>1
      <3> QED BY <3>1, <3>2
    <2> QED BY <1>7, <2>1 DEF SetWords, OneInv
  <1> QED BY <1>3, <1>4, <1>5, <1>6, <1>7 DEF EngineNext, EngineStep, Detect

(* With a single word configured at a time no assertion of zvbvmem.cpp fails  *)
(* either, right silence or not: the failure of line 314 takes two words.     *)
THEOREM OneWordNoFailure ==
    ASSUME MaxLen = 1 PROVE EngineSpec => []SecSlFindsIdleBuffer
  <1>1. EngineInit => OneInv
    BY DEF EngineInit, OneInv
  <1>2. EngineInv /\ OneInv /\ [EngineNext]_engineVars => OneInv'
    BY NextOne
  <1>3. OneInv => SecSlFindsIdleBuffer
    BY DEF OneInv, SecSlFindsIdleBuffer
  <1> QED BY <1>1, <1>2, <1>3, EngineInvariance, PTL DEF EngineSpec

-----------------------------------------------------------------------------
(* Who reads deleted words.  Detectors that outlive their words while a       *)
(* detection is current were deprived of them during it.                      *)
HastyInv ==
    /\ OnlyHastyChangesHarm
    /\ dangling /\ m_iCurVtDetId # 0 => hasty

(* Every step of the engine and of its clients.                               *)
LEMMA NextHasty == EngineInv /\ HastyInv /\ [EngineNext]_engineVars => HastyInv'
  <1> SUFFICES ASSUME EngineInv, HastyInv, [EngineNext]_engineVars PROVE HastyInv'
    OBVIOUS
  <1> USE DEF HastyInv, OnlyHastyChangesHarm
  <1>1. CASE DetectNothing
    BY <1>1, StaleFacts DEF DetectNothing
  <1>2. CASE Detect
    <2>1. /\ dangling' = Stale /\ hasty' = hasty
          /\ wild' => wild \/ Stale
      BY <1>2 DEF Detect, DetectBatch, Garbled
    <2> QED BY <2>1, StaleFacts
  <1>3. CASE GetDetWordInfo \/ UNCHANGED engineVars
    BY <1>3 DEF GetDetWordInfo, engineVars, engine
  <1>4. CASE Reset
    BY <1>4 DEF Reset
  <1>5. ASSUME NEW ws \in WordLists, SetWords(ws) PROVE HastyInv'
    BY <1>5 DEF SetWords, DeleteWords
  <1> QED BY <1>1, <1>2, <1>3, <1>4, <1>5 DEF EngineNext, EngineStep

(* A list configured while no detection is current harms nobody: only a list  *)
(* configured during a detection, or a reset before the detectors are         *)
(* replaced, makes a detector read a deleted word.                            *)
THEOREM QuietChangesHarmless == EngineSpec => []OnlyHastyChangesHarm
  <1>1. EngineInit => HastyInv
    BY DEF EngineInit, HastyInv, OnlyHastyChangesHarm
  <1>2. HastyInv => OnlyHastyChangesHarm
    BY DEF HastyInv
  <1> QED BY <1>1, <1>2, NextHasty, EngineInvariance, PTL DEF EngineSpec

-----------------------------------------------------------------------------
(* Why the buffer is released: the batches its detection still waits.         *)
Left == m_VtDetLst[m_iCurVtDetId].wait

(* While the buffer goes on working every batch shortens the wait, and        *)
(* nothing else lengthens it.                                                 *)
WaitShortens ==
    m_bWorking /\ m_bWorking' /\ ~wild' =>
        /\ Left \in Nat /\ Left' \in Nat
        /\ Detect => Left' < Left
        /\ ~Detect => Left' = Left

(* A waiting detector after a batch that did not end its wait.                *)
LEMMA AfterWaits ==
    ASSUME NEW d \in Detectors, d.status = "process", ~Garbled(d),
           NEW o \in Outcomes(d), After(d, o).status = "process"
    PROVE  /\ d.wait \in Nat /\ d.wait > 1
           /\ After(d, o).wait = d.wait - 1
  <1>1. /\ d.word \in Words /\ d.wait \in Nat
        /\ d = [word |-> d.word, status |-> d.status, wait |-> d.wait]
    BY EngineAssumption DEF Detectors
  <1>2. \/ o \in {"cmd", "nocmd"}
        \/ o = "none" /\ d.wait > 1
    BY <1>1 DEF Outcomes
  <1>3. CASE o = "none" /\ d.wait > 1
    <2>1. After(d, o) = [word |-> d.word, status |-> "process", wait |-> d.wait - 1]
      BY <1>1, <1>3 DEF After
    <2> QED BY <1>1, <1>3, <2>1
  <1>4. CASE o \in {"cmd", "nocmd"}
    <2>1. After(d, o) = [word |-> d.word, status |-> "finish", wait |-> 0]
      BY <1>1, <1>4 DEF After
    <2> QED BY <2>1
  <1> QED BY <1>2, <1>3, <1>4

(* The wait of the current detector is a number.                              *)
LEMMA CurrentWait == EngineInv /\ m_bWorking => Left \in Nat
  <1> SUFFICES ASSUME EngineInv, m_bWorking PROVE Left \in Nat
    OBVIOUS
  <1>1. m_VtDetLst \in Seq(Detectors) /\ m_iCurVtDetId \in 1..Len(m_VtDetLst)
    BY DEF EngineInv, EngineTypeOK, WorkingHasCurrent
  <1>2. m_VtDetLst[m_iCurVtDetId] \in Detectors
    BY <1>1
  <1>3. \A d \in Detectors : d.wait \in Nat
    BY EngineAssumption DEF Detectors
  <1> QED BY <1>2, <1>3 DEF Left

(* A batch that leaves the buffer working.                                    *)
LEMMA BatchShortens ==
    ASSUME EngineInv, EngineInv', NEW outs \in BatchOuts(BatchDets),
           DetectBatch(BatchDets, outs), m_bWorking, m_bWorking', ~wild'
    PROVE  Left' < Left
  <1> DEFINE D == BatchDets
             new == [i \in 1..Len(D) |-> After(D[i], outs[i])]
  <1>1. BatchCur # 0
    BY DEF BatchCur, EngineInv, WorkingHasCurrent
  <1>2. /\ D \in Seq(Detectors) /\ BatchCur \in 1..Len(D)
        /\ D[BatchCur].status = "process"
        /\ D[BatchCur] = m_VtDetLst[m_iCurVtDetId]
    BY <1>1, BatchFacts
  <1>3. /\ m_VtDetLst' = new /\ m_iCurVtDetId' = Reporter(D, outs)
        /\ \A i \in 1..Len(D) : ~Garbled(D[i]) /\ outs[i] \in Outcomes(D[i])
    BY DEF DetectBatch, BatchOuts
  <1> HIDE DEF D
  <1>4. Reporter(D, outs) = BatchCur
    BY <1>1, <1>2, ReporterFacts
  <1> DEFINE d == D[BatchCur]
             o == outs[BatchCur]
  <1>5. d \in Detectors /\ d.status = "process" /\ ~Garbled(d) /\ o \in Outcomes(d)
    BY <1>2, <1>3
  <1>6. m_VtDetLst'[m_iCurVtDetId'] = After(d, o)
    BY <1>2, <1>3, <1>4
  <1>7. After(d, o).status = "process"
    BY <1>6 DEF EngineInv, WorkingHasCurrent
  <1>8. Left = d.wait /\ Left' = After(d, o).wait
    BY <1>2, <1>6 DEF Left
  <1> HIDE DEF d, o
  <1>9. d.wait \in Nat /\ d.wait > 1 /\ After(d, o).wait = d.wait - 1
    BY <1>5, <1>7, AfterWaits
  <1> QED BY <1>8, <1>9

(* Every step of the engine.                                                  *)
LEMMA StepShortens ==
    ASSUME EngineInv, EngineInv', EngineNext
    PROVE  WaitShortens
  <1> SUFFICES ASSUME m_bWorking, m_bWorking', ~wild'
               PROVE  /\ Left \in Nat /\ Left' \in Nat
                      /\ Detect => Left' < Left
                      /\ ~Detect => Left' = Left
    BY DEF WaitShortens
  <1>1. Left \in Nat
    BY CurrentWait
  <1>2. (EngineInv /\ m_bWorking => Left \in Nat)'
    BY CurrentWait, PTL
  <1>3. Left' \in Nat
    BY <1>2
  <1>4. ASSUME Detect PROVE Left' < Left
    <2>1. PICK outs \in BatchOuts(BatchDets) : DetectBatch(BatchDets, outs)
      BY <1>4 DEF Detect
    <2> QED BY <2>1, BatchShortens
  <1>5. ASSUME ~Detect PROVE Left' = Left
    <2>1. CASE DetectNothing
      <3>1. CheckWordsChanged = m_VtDetLst
        BY CheckWordsChangedType DEF EngineInv, WorkingHasCurrent
      <3> QED BY <2>1, <3>1 DEF DetectNothing, Left
    <2>2. CASE GetDetWordInfo \/ (\E ws \in WordLists : SetWords(ws))
      BY <2>2 DEF GetDetWordInfo, SetWords, engine, Left
    <2>3. CASE Reset
      BY <2>3 DEF Reset
    <2> QED BY <1>5, <2>1, <2>2, <2>3 DEF EngineNext, EngineStep
  <1> QED BY <1>1, <1>3, <1>4, <1>5

(* The buffer is released after finitely many batches: while it works each    *)
(* one shortens the wait of its detection, a natural number that no client,   *)
(* lookup or short call lengthens (the decreasing measure behind              *)
(* BufferIsReleased).                                                         *)
THEOREM WaitComesToAnEnd == EngineSpec => [][WaitShortens]_engineVars
  <1>1. EngineInv /\ EngineInv' /\ [EngineNext]_engineVars => [WaitShortens]_engineVars
    BY StepShortens
  <1> QED BY <1>1, EngineInvariance, PTL DEF EngineSpec
=============================================================================
