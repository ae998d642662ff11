---------------------------- MODULE VtWordManager ----------------------------
(***************************************************************************)
(* vt_word_manager.cpp: the words a client adds, removes and reads through  *)
(* VsysActivation_AddVtWord / RemoveVtWord / GetVtWords, from any number of *)
(* threads, on top of the wake-word engine that another thread keeps        *)
(* running.                                                                 *)
(*                                                                          *)
(* vt_mutex is taken by every method for a part of its work; such a part is *)
(* one step.  Only a thread that never leaves its part (remove_vt_word on a *)
(* word that is not the first) is seen holding it.                          *)
(***************************************************************************)
EXTENDS WakeEngine

CONSTANTS
    Threads,            \* client threads
    Free                \* vt_mutex when no thread holds it

ASSUME ThreadAssumption == Free \notin Threads

VARIABLES
    word_infos,         \* std::vector of the words added and not removed
    vt_mutex,           \* the thread that holds it for ever, or Free
    vt_words,           \* "live" when the array get_vt_words handed out exists
    pc, arg             \* per thread: step and argument of its call

client == <<word_infos, vt_mutex, vt_words, pc, arg>>
vars == <<engineVars, client>>

UserWords == Words \ {Default}
Calls == {"add", "remove", "get"}
Steps == {"idle", "save", "add_sync", "remove_sync", "spin", "fill"} \cup Calls

Init ==
    /\ EngineInit
    /\ word_infos = <<>> /\ vt_mutex = Free /\ vt_words = "none"
    /\ pc = [t \in Threads |-> "idle"]
    /\ arg = [t \in Threads |-> NoWord]

Known(w) == \E i \in 1..Len(word_infos) : word_infos[i] = w

(* A call of thread t goes on, or is over. *)
Goto(t, step) == pc' = [pc EXCEPT ![t] = step] /\ UNCHANGED arg
Return(t) == pc' = [pc EXCEPT ![t] = "idle"] /\ arg' = [arg EXCEPT ![t] = NoWord]

Call(t, call, w) ==
    /\ pc[t] = "idle"
    /\ pc' = [pc EXCEPT ![t] = call] /\ arg' = [arg EXCEPT ![t] = w]
    /\ UNCHANGED <<engineVars, word_infos, vt_mutex, vt_words>>

-----------------------------------------------------------------------------
(* A null or empty word, or an unknown type.                                  *)
AddInvalid(t) ==
    /\ pc[t] = "add"
    /\ Return(t)
    /\ UNCHANGED <<engineVars, word_infos, vt_mutex, vt_words>>

(* add_vt_word: has_vt_word and save_vt_word lock separately. *)
AddHas(t) ==
    /\ pc[t] = "add" /\ vt_mutex = Free
    /\ IF Known(arg[t]) THEN Return(t) ELSE Goto(t, "save")
    /\ UNCHANGED <<engineVars, word_infos, vt_mutex, vt_words>>

(* vt_word_formation fails on a phone string it cannot convert. *)
AddSave(t) ==
    /\ pc[t] = "save"
    /\ \/ /\ vt_mutex = Free /\ Len(word_infos) < MaxLen
          /\ word_infos' = Append(word_infos, arg[t])
          /\ Goto(t, "add_sync")
       \/ Return(t) /\ UNCHANGED word_infos
    /\ UNCHANGED <<engineVars, vt_mutex, vt_words>>

RemoveMutantNoSync(t) ==
    /\ pc[t] = "remove" /\ vt_mutex = Free
    /\ IF word_infos # <<>> /\ Head(word_infos) = arg[t]
       THEN word_infos' = Tail(word_infos) /\ Return(t)
       ELSE UNCHANGED word_infos /\ Return(t)
    /\ UNCHANGED <<engineVars, vt_mutex, vt_words>>

(* remove_vt_word: the loop never advances its iterator, so it finds the word *)
(* only at the front and otherwise runs for ever with the mutex held.         *)
RemoveFind(t) ==
    /\ pc[t] = "remove" /\ vt_mutex = Free
    /\ CASE word_infos = <<>> ->
              Return(t) /\ UNCHANGED <<word_infos, vt_mutex>>
         [] word_infos # <<>> /\ Head(word_infos) = arg[t] ->
              /\ word_infos' = Tail(word_infos)
              /\ Goto(t, "remove_sync") /\ UNCHANGED vt_mutex
         [] OTHER ->
              vt_mutex' = t /\ Goto(t, "spin") /\ UNCHANGED word_infos
    /\ UNCHANGED <<engineVars, vt_words>>

(* sync_vt_word: a copy of the list goes to the engine, under both locks.     *)
Syncing == {"add_sync", "remove_sync"}
SyncVtWord(t) ==
    /\ pc[t] \in Syncing /\ vt_mutex = Free
    /\ SetWords(word_infos)
    /\ Return(t)
    /\ UNCHANGED <<found, lookup, word_infos, vt_mutex, vt_words>>

(* get_vt_words: the old array is deleted before the lock is taken.           *)
GetDelete(t) ==
    /\ pc[t] = "get"
    /\ vt_words' = "none"
    /\ Goto(t, "fill")
    /\ UNCHANGED <<engineVars, word_infos, vt_mutex>>

GetFill(t) ==
    /\ pc[t] = "fill" /\ vt_mutex = Free
    /\ vt_words' = "live"
    /\ Return(t)
    /\ UNCHANGED <<engineVars, word_infos, vt_mutex>>

-----------------------------------------------------------------------------
ThreadStep(t) ==
    AddInvalid(t) \/ AddHas(t) \/ AddSave(t) \/ RemoveFind(t) \/ SyncVtWord(t)
    \/ GetDelete(t) \/ GetFill(t)

Process == EngineStep /\ UNCHANGED client

Next ==
    \/ \E t \in Threads, w \in UserWords :
          Call(t, "add", w) \/ Call(t, "remove", w)
    \/ \E t \in Threads : Call(t, "get", NoWord)
    \/ \E t \in Threads : ThreadStep(t)
    \/ Process

(* A thread that can go on does: nobody but a spinning thread keeps vt_mutex, *)
(* so a waiting thread gets it.  Nothing is owed once freed memory was read.  *)
Fairness ==
    /\ WF_vars(~wild /\ Process)
    /\ \A t \in Threads : WF_vars(~wild /\ ThreadStep(t))

Spec == Init /\ [][Next]_vars /\ Fairness

-----------------------------------------------------------------------------
(* Types of the manager's members and of the threads' control states. *)
TypeOK ==
    /\ EngineTypeOK
    /\ word_infos \in Seq(UserWords) /\ vt_words \in {"none", "live"}
    /\ vt_mutex \in Threads \cup {Free}
    /\ pc \in [Threads -> Steps] /\ arg \in [Threads -> UserWords \cup {NoWord}]

(* When no call has a change left to hand on, the engine listens for exactly  *)
(* the words the manager holds, in whatever order the calls of several        *)
(* threads locked (unless every word has been removed).                       *)
ListsAgree ==
    word_infos # <<>> /\ (\A t \in Threads : pc[t] \notin Syncing)
        => m_pWordLst = word_infos

(* Seen from the engine the manager's threads only ever configure lists.      *)
ImplementsEngine == EngineInit /\ [][EngineNext]_engineVars

(* vsys_activation.h: RemoveVtWord returns, with 0 or -1.                     *)
RemoveReturns == \A t \in Threads : pc[t] = "remove" ~> pc[t] = "idle"
=============================================================================
