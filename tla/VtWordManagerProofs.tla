------------------------ MODULE VtWordManagerProofs ------------------------
(***************************************************************************)
(* Machine-checked proofs about VtWordManager, for any number of client     *)
(* threads and words: the manager's list and the engine's agree between     *)
(* calls, and the whole implements the engine's specification, so that what *)
(* WakeEngineProofs proves holds of it.                                     *)
(***************************************************************************)
EXTENDS VtWordManager, WakeEngineProofs

(* Types of the manager's own variables, with the bound on its list.          *)
ClientInv ==
    /\ word_infos \in Seq(UserWords) /\ Len(word_infos) <= MaxLen
    /\ vt_words \in {"none", "live"} /\ vt_mutex \in Threads \cup {Free}
    /\ pc \in [Threads -> Steps] /\ arg \in [Threads -> UserWords \cup {NoWord}]

(* A call that adds a word has one.                                           *)
ArgInv == \A t \in Threads : pc[t] \in {"add", "save"} => arg[t] \in UserWords

(* The inductive invariant.                                                   *)
ManagerInv == EngineInv /\ ClientInv /\ ArgInv /\ ListsAgree

-----------------------------------------------------------------------------
(* The constructor establishes the invariant.                                 *)
LEMMA InitManagerInv == Init => ManagerInv
  <1> SUFFICES ASSUME Init PROVE ManagerInv
    OBVIOUS
  <1>1. EngineInv
    BY InitEngineInv DEF Init
  <1>2. word_infos \in Seq(UserWords) /\ Len(word_infos) = 0
    BY DEF Init
  <1>3. ClientInv
    BY <1>2, EngineAssumption DEF Init, ClientInv, Steps
  <1>4. ArgInv /\ ListsAgree
    BY DEF Init, ArgInv, ListsAgree
  <1> QED BY <1>1, <1>3, <1>4 DEF ManagerInv

(* The manager's list is one the engine may be given.                         *)
LEMMA WordInfosList == ClientInv => word_infos \in WordLists
  <1> SUFFICES ASSUME ClientInv PROVE word_infos \in WordLists
    OBVIOUS
  <1>1. Len(word_infos) \in 0..MaxLen
    BY EngineAssumption DEF ClientInv
  <1>2. word_infos \in [1..Len(word_infos) -> Words]
    BY DEF ClientInv, UserWords
  <1> QED BY <1>1, <1>2 DEF WordLists

(* Every step of a client thread or of the processing thread is a step of the *)
(* engine or leaves it alone.                                                 *)
LEMMA NextEngine ==
    ASSUME ClientInv, [Next]_vars
    PROVE  [EngineNext]_engineVars
  <1>1. ASSUME NEW t \in Threads, SyncVtWord(t)
        PROVE  EngineNext
    <2>1. word_infos \in WordLists
      BY WordInfosList
    <2>2. SetWords(word_infos) /\ UNCHANGED <<found, lookup>>
      BY <1>1 DEF SyncVtWord
    <2> QED BY <2>1, <2>2 DEF EngineNext
  <1>2. ASSUME NEW t \in Threads, ThreadStep(t), ~SyncVtWord(t)
        PROVE  UNCHANGED engineVars
    BY <1>2 DEF ThreadStep, AddInvalid, AddHas, AddSave, RemoveFind, GetDelete, GetFill
  <1>3. ASSUME NEW t \in Threads, NEW c, NEW w, Call(t, c, w)
        PROVE  UNCHANGED engineVars
    BY <1>3 DEF Call
  <1>4. CASE Process
    BY <1>4 DEF Process, EngineNext
  <1>5. CASE UNCHANGED vars
    BY <1>5 DEF vars
  <1> QED BY <1>1, <1>2, <1>3, <1>4, <1>5 DEF Next

(* Every step preserves the manager's part of the invariant.                  *)
LEMMA NextManagerInv == ManagerInv /\ [Next]_vars => ManagerInv'
  <1> SUFFICES ASSUME ManagerInv, [Next]_vars PROVE ManagerInv'
    OBVIOUS
  <1> USE DEF ManagerInv
  <1>0. EngineInv'
    BY NextEngine, NextEngineInv
  <1>1. ASSUME NEW t \in Threads, NEW c \in {"add", "remove"}, NEW w \in UserWords,
               Call(t, c, w)
        PROVE  ClientInv' /\ ArgInv' /\ ListsAgree'
    <2>1. /\ word_infos' = word_infos /\ vt_mutex' = vt_mutex /\ vt_words' = vt_words
          /\ m_pWordLst' = m_pWordLst /\ pc[t] = "idle"
          /\ pc' = [pc EXCEPT ![t] = c] /\ arg' = [arg EXCEPT ![t] = w]
      BY <1>1 DEF Call, engineVars, engine
    <2>2. ClientInv'
      BY <2>1 DEF ClientInv, Steps, Calls
    <2>3. ArgInv'
      BY <2>1 DEF ClientInv, ArgInv
    <2>4. ListsAgree'
      BY <2>1 DEF ClientInv, ListsAgree, Syncing
    <2> QED BY <2>2, <2>3, <2>4
  <1>2. ASSUME NEW t \in Threads, Call(t, "get", NoWord)
        PROVE  ClientInv' /\ ArgInv' /\ ListsAgree'
    <2>1. /\ word_infos' = word_infos /\ vt_mutex' = vt_mutex /\ vt_words' = vt_words
          /\ m_pWordLst' = m_pWordLst /\ pc[t] = "idle"
          /\ pc' = [pc EXCEPT ![t] = "get"] /\ arg' = [arg EXCEPT ![t] = NoWord]
      BY <1>2 DEF Call, engineVars, engine
    <2>2. ClientInv'
      BY <2>1 DEF ClientInv, Steps, Calls
    <2>3. ArgInv'
      BY <2>1 DEF ClientInv, ArgInv
    <2>4. ListsAgree'
      BY <2>1 DEF ClientInv, ListsAgree, Syncing
    <2> QED BY <2>2, <2>3, <2>4
  <1>3. ASSUME NEW t \in Threads,
               pc[t] \notin Syncing, word_infos' = word_infos, m_pWordLst' = m_pWordLst,
               vt_words' \in {"none", "live"}, vt_mutex' \in Threads \cup {Free},
               NEW s \in {"idle", "save", "spin", "fill"},
               pc' = [pc EXCEPT ![t] = s],
               \/ arg' = [arg EXCEPT ![t] = NoWord] /\ s # "save"
               \/ arg' = arg /\ (s = "save" => pc[t] = "add")
        PROVE  ClientInv' /\ ArgInv' /\ ListsAgree'
    <2>1. ClientInv'
      BY <1>3 DEF ClientInv, Steps
    <2>2. ArgInv'
      BY <1>3 DEF ClientInv, ArgInv
    <2>3. ListsAgree'
      BY <1>3 DEF ClientInv, ListsAgree, Syncing
    <2> QED BY <2>1, <2>2, <2>3
  <1>4. ASSUME NEW t \in Threads, AddInvalid(t) \/ AddHas(t) \/ GetDelete(t) \/ GetFill(t)
        PROVE  ClientInv' /\ ArgInv' /\ ListsAgree'
    <2>1. /\ pc[t] \notin Syncing /\ word_infos' = word_infos /\ m_pWordLst' = m_pWordLst
          /\ vt_words' \in {"none", "live"} /\ vt_mutex' \in Threads \cup {Free}
      BY <1>4 DEF AddInvalid, AddHas, GetDelete, GetFill, Syncing, ClientInv,
         engineVars, engine
    <2>2. CASE Return(t)
      BY <1>3, <2>1, <2>2 DEF Return
    <2>3. CASE Goto(t, "save") /\ pc[t] = "add"
      BY <1>3, <2>1, <2>3 DEF Goto
    <2>4. CASE Goto(t, "fill")
      BY <1>3, <2>1, <2>4 DEF Goto
    <2> QED
      BY <1>4, <2>2, <2>3, <2>4 DEF AddInvalid, AddHas, GetDelete, GetFill
  <1>5. ASSUME NEW t \in Threads, AddSave(t)
        PROVE  ClientInv' /\ ArgInv' /\ ListsAgree'
    <2>1. /\ pc[t] = "save" /\ m_pWordLst' = m_pWordLst
          /\ vt_words' = vt_words /\ vt_mutex' = vt_mutex
      BY <1>5 DEF AddSave, engineVars, engine
    <2>2. CASE Return(t) /\ UNCHANGED word_infos
      BY <1>3, <2>1, <2>2 DEF Return, Syncing, ClientInv
    <2>3. CASE /\ Len(word_infos) < MaxLen
               /\ word_infos' = Append(word_infos, arg[t])
               /\ Goto(t, "add_sync")
      <3>1. arg[t] \in UserWords
        BY <2>1 DEF ArgInv
      <3>2. word_infos' \in Seq(UserWords) /\ Len(word_infos') <= MaxLen
        BY <2>3, <3>1, EngineAssumption DEF ClientInv
      <3>3. pc' = [pc EXCEPT ![t] = "add_sync"] /\ arg' = arg
        BY <2>3 DEF Goto
      <3>4. ClientInv'
        BY <2>1, <3>2, <3>3 DEF ClientInv, Steps
      <3>5. ArgInv'
        BY <3>3 DEF ArgInv, ClientInv
      <3>6. ListsAgree'
        BY <3>3 DEF ListsAgree, Syncing, ClientInv
      <3> QED BY <3>4, <3>5, <3>6
    <2> QED BY <1>5, <2>2, <2>3 DEF AddSave
  <1>6. ASSUME NEW t \in Threads, RemoveFind(t)
        PROVE  ClientInv' /\ ArgInv' /\ ListsAgree'
    <2>1. /\ pc[t] = "remove" /\ m_pWordLst' = m_pWordLst
          /\ vt_words' = vt_words
      BY <1>6 DEF RemoveFind, engineVars, engine
    <2>2. CASE word_infos = <<>>
      <3>1. Return(t) /\ UNCHANGED <<word_infos, vt_mutex>>
        BY <1>6, <2>2 DEF RemoveFind
      <3> QED BY <1>3, <2>1, <3>1 DEF Return, Syncing, ClientInv
    <2>3. CASE word_infos # <<>> /\ Head(word_infos) = arg[t]
      <3>1. /\ word_infos' = Tail(word_infos) /\ UNCHANGED vt_mutex
            /\ pc' = [pc EXCEPT ![t] = "remove_sync"] /\ arg' = arg
        BY <1>6, <2>3 DEF RemoveFind, Goto
      <3>2. word_infos' \in Seq(UserWords) /\ Len(word_infos') <= MaxLen
        BY <2>3, <3>1, EngineAssumption DEF ClientInv
      <3>3. ClientInv'
        BY <2>1, <3>1, <3>2 DEF ClientInv, Steps
      <3>4. ArgInv'
        BY <3>1 DEF ArgInv, ClientInv
      <3>5. ListsAgree'
        BY <3>1 DEF ListsAgree, Syncing, ClientInv
      <3> QED BY <3>3, <3>4, <3>5
    <2>4. CASE word_infos # <<>> /\ Head(word_infos) # arg[t]
      <3>1. vt_mutex' = t /\ Goto(t, "spin") /\ UNCHANGED word_infos
        BY <1>6, <2>4 DEF RemoveFind
      <3> QED BY <1>3, <2>1, <3>1 DEF Goto, Syncing, ClientInv
    <2> QED BY <2>2, <2>3, <2>4
  <1>7. ASSUME NEW t \in Threads, SyncVtWord(t)
        PROVE  ClientInv' /\ ArgInv' /\ ListsAgree'
    <2>1. /\ word_infos' = word_infos /\ vt_mutex' = vt_mutex /\ vt_words' = vt_words
          /\ word_infos # <<>> => m_pWordLst' = word_infos
          /\ pc' = [pc EXCEPT ![t] = "idle"] /\ arg' = [arg EXCEPT ![t] = NoWord]
      BY <1>7 DEF SyncVtWord, SetWords, Return
    <2>2. ClientInv'
      BY <2>1 DEF ClientInv, Steps
    <2>3. ArgInv'
      BY <2>1 DEF ArgInv, ClientInv
    <2> QED BY <2>1, <2>2, <2>3 DEF ListsAgree
  <1>8. CASE Process
    <2>1. UNCHANGED client /\ m_pWordLst' = m_pWordLst
      BY <1>8 DEF Process, EngineStep, DetectNothing, Detect, DetectBatch,
         GetDetWordInfo, engine
    <2> QED BY <1>0, <2>1 DEF client, ClientInv, ArgInv, ListsAgree
  <1>9. CASE UNCHANGED vars
    BY <1>0, <1>9 DEF vars, client, engineVars, engine, ClientInv, ArgInv, ListsAgree
  <1> QED
    BY <1>0, <1>1, <1>2, <1>4, <1>5, <1>6, <1>7, <1>8, <1>9 DEF Next, ThreadStep

-----------------------------------------------------------------------------
(* The inductive invariant holds in every reachable state.                    *)
THEOREM ManagerInvariance == Spec => []ManagerInv
  BY InitManagerInv, NextManagerInv, PTL DEF Spec

(* The manager's and the engine's members keep their types.                   *)
THEOREM ManagerTypeCorrect == Spec => []TypeOK
  <1>1. ManagerInv => TypeOK BY DEF ManagerInv, EngineInv, ClientInv, TypeOK
  <1> QED BY <1>1, ManagerInvariance, PTL

(* However many threads add and remove words, the engine listens for the      *)
(* manager's words when no call is about to hand on a change.                 *)
THEOREM ManagerAndEngineAgree == Spec => []ListsAgree
  <1>1. ManagerInv => ListsAgree BY DEF ManagerInv
  <1> QED BY <1>1, ManagerInvariance, PTL

(* The manager over the engine implements the engine's specification: what    *)
(* clients do is only to configure lists.                                     *)
THEOREM ManagerImplementsEngine == Spec => ImplementsEngine
  <1>1. Init => EngineInit
    BY DEF Init
  <1>2. ManagerInv /\ [Next]_vars => [EngineNext]_engineVars
    BY NextEngine DEF ManagerInv
  <1> QED BY <1>1, <1>2, ManagerInvariance, PTL DEF Spec, ImplementsEngine

-----------------------------------------------------------------------------
(* What the engine promises holds whatever the client threads do. *)
EngineSound ==
    NeverWordless /\ FreshUnlessPending /\ WorkingMatchesCurrent /\ SecSlFailsFirst

(* Under concurrent AddVtWord, RemoveVtWord and GetVtWords the engine is      *)
(* never without a word, its detectors follow its list, and only the          *)
(* assertion of line 314 of zvbvmem.cpp can be the first to fail.             *)
THEOREM ManagedEngineSound == Spec => []EngineSound
  <1>1. ManagerInv => EngineSound
    BY DEF ManagerInv, EngineInv, EngineSound
  <1> QED BY <1>1, ManagerInvariance, PTL

(* The word that processfrm looks up without the lock is the detected one     *)
(* unless a client has just changed the list.                                 *)
THEOREM ManagedLookupRight == Spec => LookupRightUnlessPending
  <1>1. ManagerInv /\ [Next]_vars =>
          [lookup' # lookup /\ ~m_bNeedChangeWord => lookup'[1] = lookup'[2]]_engineVars
    <2>1. ASSUME ManagerInv, [Next]_vars PROVE [EngineNext]_engineVars /\ EngineInv
      BY <2>1, NextEngine DEF ManagerInv
    <2> QED BY <2>1, LookupStep
  <1> QED BY <1>1, ManagerInvariance, PTL DEF Spec, LookupRightUnlessPending

(* However the threads add and remove words, a detector reads a deleted word  *)
(* only if one of them changed the list while a detection was current.        *)
THEOREM ManagedQuietChanges == Spec => []OnlyHastyChangesHarm
  <1>1. Init => HastyInv
    BY DEF Init, EngineInit, HastyInv, OnlyHastyChangesHarm
  <1>2. ManagerInv /\ HastyInv /\ [Next]_vars => HastyInv'
    <2>1. ASSUME ManagerInv, [Next]_vars PROVE [EngineNext]_engineVars /\ EngineInv
      BY <2>1, NextEngine DEF ManagerInv
    <2> QED BY <2>1, NextHasty
  <1>3. HastyInv => OnlyHastyChangesHarm
    BY DEF HastyInv
  <1> QED BY <1>1, <1>2, <1>3, ManagerInvariance, PTL DEF Spec

(* A program whose words ask for no right-silence detection never meets the   *)
(* failing assertion, however its threads change the words, unless a deleted  *)
(* word has been read.                                                        *)
THEOREM ManagedNoRightSilence ==
    ASSUME RightSil = {} PROVE Spec => [](wild \/ SecSlFindsIdleBuffer)
  <1>1. Init => IdleInv
    BY DEF Init, EngineInit, IdleInv
  <1>2. ManagerInv /\ IdleInv /\ [Next]_vars => IdleInv'
    <2>1. ASSUME ManagerInv, [Next]_vars PROVE [EngineNext]_engineVars /\ EngineInv
      BY <2>1, NextEngine DEF ManagerInv
    <2> QED BY <2>1, NextIdle
  <1>3. IdleInv => wild \/ SecSlFindsIdleBuffer
    BY DEF IdleInv, SecSlFindsIdleBuffer
  <1> QED BY <1>1, <1>2, <1>3, ManagerInvariance, PTL DEF Spec

(* From the client to the detectors: when no call has a change left to hand   *)
(* on and the engine none left to apply, what is listened for is what the     *)
(* clients added and did not remove, in that order.                           *)
ListenedFor ==
    /\ word_infos # <<>> /\ (\A t \in Threads : pc[t] \notin Syncing)
    /\ ~m_bNeedChangeWord
    => /\ Len(m_VtDetLst) = Len(word_infos)
       /\ \A i \in 1..Len(word_infos) : m_VtDetLst[i].word = word_infos[i]

(* The detectors are those of the words the clients configured.               *)
THEOREM ClientsWordsListenedFor == Spec => []ListenedFor
  <1>1. ManagerInv => ListenedFor
    BY DEF ManagerInv, EngineInv, ListsAgree, FreshUnlessPending, ListenedFor
  <1> QED BY <1>1, ManagerInvariance, PTL

-----------------------------------------------------------------------------
(* The thread that keeps vt_mutex is the one whose remove_vt_word looks for a *)
(* word that is not the first; its list is not empty.                         *)
SpinInv ==
    /\ \A t \in Threads : pc[t] = "spin" <=> vt_mutex = t
    /\ vt_mutex # Free => word_infos # <<>> /\ Head(word_infos) # arg[vt_mutex]

(* Once a thread keeps it, nobody changes the list or the engine's words any  *)
(* more, and the thread never stops.                                          *)
Frozen ==
    vt_mutex # Free =>
        /\ vt_mutex' = vt_mutex /\ word_infos' = word_infos
        /\ m_pWordLst' = m_pWordLst
        /\ pc'[vt_mutex] = "spin" /\ arg'[vt_mutex] = arg[vt_mutex]
        /\ \A t \in Threads : pc[t] \in Syncing => pc'[t] = pc[t]

(* A step by which thread t goes on without the mutex.                        *)
LEMMA OwnStep ==
    ASSUME ClientInv, SpinInv, NEW t \in Threads, NEW s \in Steps \ {"spin"},
           pc[t] # "spin", pc' = [pc EXCEPT ![t] = s],
           \/ arg' = arg \/ \E w : arg' = [arg EXCEPT ![t] = w],
           vt_mutex' = vt_mutex,
           vt_mutex # Free => word_infos' = word_infos /\ m_pWordLst' = m_pWordLst
                              /\ pc[t] \notin Syncing
    PROVE  SpinInv' /\ Frozen
  <1>1. vt_mutex # t
    BY DEF SpinInv
  <1>2. /\ pc'[t] = s /\ \A u \in Threads : u # t => pc'[u] = pc[u] /\ arg'[u] = arg[u]
    BY DEF ClientInv
  <1>3. \A u \in Threads : pc'[u] = "spin" <=> vt_mutex' = u
    BY <1>1, <1>2 DEF SpinInv
  <1>4. ASSUME vt_mutex # Free
        PROVE  /\ vt_mutex \in Threads /\ vt_mutex # t
               /\ pc'[vt_mutex] = "spin" /\ arg'[vt_mutex] = arg[vt_mutex]
    BY <1>1, <1>2, <1>4 DEF ClientInv, SpinInv
  <1>5. SpinInv'
    BY <1>3, <1>4 DEF SpinInv
  <1>6. Frozen
    BY <1>2, <1>4 DEF Frozen
  <1> QED BY <1>5, <1>6

(* Every step keeps the holder where it is.                                   *)
LEMMA NextSpin ==
    ASSUME ManagerInv, SpinInv, [Next]_vars
    PROVE  SpinInv' /\ Frozen
  <1>0. ClientInv
    BY DEF ManagerInv
  <1>1. ASSUME NEW t \in Threads, NEW c \in Calls, NEW w, Call(t, c, w)
        PROVE  SpinInv' /\ Frozen
    <2>1. /\ c \in Steps \ {"spin"} /\ pc[t] = "idle" /\ pc[t] \notin Syncing
          /\ pc' = [pc EXCEPT ![t] = c] /\ arg' = [arg EXCEPT ![t] = w]
          /\ vt_mutex' = vt_mutex /\ word_infos' = word_infos /\ m_pWordLst' = m_pWordLst
      BY <1>1 DEF Call, Calls, Steps, Syncing, engineVars, engine
    <2> QED BY <1>0, <2>1, OwnStep
  <1>2. ASSUME NEW t \in Threads, ThreadStep(t), ~RemoveFind(t)
        PROVE  SpinInv' /\ Frozen
    <2>1. /\ pc[t] # "spin" /\ vt_mutex' = vt_mutex
          /\ vt_mutex # Free => word_infos' = word_infos /\ m_pWordLst' = m_pWordLst
                                /\ pc[t] \notin Syncing
      BY <1>2 DEF ThreadStep, AddInvalid, AddHas, AddSave, SyncVtWord, GetDelete,
         GetFill, Syncing, engineVars, engine
    <2>2. \/ Return(t) \/ Goto(t, "save") \/ Goto(t, "add_sync") \/ Goto(t, "fill")
      BY <1>2 DEF ThreadStep, AddInvalid, AddHas, AddSave, SyncVtWord, GetDelete, GetFill
    <2>3. PICK s \in {"idle", "save", "add_sync", "fill"} :
             /\ pc' = [pc EXCEPT ![t] = s]
             /\ arg' = arg \/ arg' = [arg EXCEPT ![t] = NoWord]
      BY <2>2 DEF Return, Goto
    <2>4. s \in Steps \ {"spin"}
      BY DEF Steps
    <2> QED BY <1>0, <2>1, <2>3, <2>4, OwnStep
  <1>3. ASSUME NEW t \in Threads, RemoveFind(t)
        PROVE  SpinInv' /\ Frozen
    <2>1. pc[t] = "remove" /\ vt_mutex = Free /\ Frozen
      BY <1>3 DEF RemoveFind, Frozen
    <2>2. CASE word_infos = <<>> \/ Head(word_infos) = arg[t]
      <3>1. /\ Return(t) \/ Goto(t, "remove_sync")
            /\ vt_mutex' = vt_mutex
        BY <1>3, <2>2 DEF RemoveFind
      <3>2. PICK s \in {"idle", "remove_sync"} :
               /\ pc' = [pc EXCEPT ![t] = s]
               /\ arg' = arg \/ arg' = [arg EXCEPT ![t] = NoWord]
        BY <3>1 DEF Return, Goto
      <3>3. s \in Steps \ {"spin"}
        BY DEF Steps
      <3> QED BY <1>0, <2>1, <3>1, <3>2, <3>3, OwnStep
    <2>3. CASE word_infos # <<>> /\ Head(word_infos) # arg[t]
      <3>1. /\ vt_mutex' = t /\ word_infos' = word_infos /\ arg' = arg
            /\ pc' = [pc EXCEPT ![t] = "spin"]
        BY <1>3, <2>3 DEF RemoveFind, Goto
      <3>2. \A u \in Threads : pc'[u] = "spin" <=> u = t
        BY <2>1, <3>1, ThreadAssumption DEF SpinInv, ClientInv, ManagerInv
      <3>3. SpinInv'
        BY <2>3, <3>1, <3>2 DEF SpinInv
      <3> QED BY <2>1, <3>3
    <2> QED BY <2>2, <2>3
  <1>4. CASE Process \/ UNCHANGED vars
    <2>1. UNCHANGED client /\ m_pWordLst' = m_pWordLst
      BY <1>4 DEF Process, EngineStep, DetectNothing, Detect, DetectBatch,
         GetDetWordInfo, vars, engineVars, engine
    <2>2. vt_mutex # Free => vt_mutex \in Threads
      BY <1>0 DEF ClientInv
    <2> QED BY <2>1, <2>2 DEF client, SpinInv, Frozen
  <1> QED BY <1>1, <1>2, <1>3, <1>4 DEF Next, Calls

(* remove_vt_word hangs only when it is asked for a word that is not the      *)
(* first of a list that is not empty, and then for good, with the lock held   *)
(* and every other call's change lost (vt_word_manager.cpp:38).               *)
THEOREM OnlyLaterWordsHang == Spec => []SpinInv /\ [][Frozen]_vars
  <1>1. Init => SpinInv
    BY ThreadAssumption DEF Init, SpinInv
  <1>2. ManagerInv /\ SpinInv /\ [Next]_vars => SpinInv' /\ Frozen
    BY NextSpin
  <1> QED BY <1>1, <1>2, ManagerInvariance, PTL DEF Spec
=============================================================================
