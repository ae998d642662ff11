--------------------------- MODULE EventHubProofs ---------------------------
(***************************************************************************)
(* Machine-checked proofs about EventHub, for any number of clients, events *)
(* and registrations: who holds the mutex, what is queued, the refinement   *)
(* of EventChannel, and what delivery and the destructor rest on besides    *)
(* fairness.                                                                *)
(***************************************************************************)
EXTENDS EventHub, TLAPS

(* Who holds the mutex, as a function of the event thread's control state. *)
MutexInv == mutex = "loop" <=> loop \in HoldsMutex

(* The destructor and the event thread agree on the exit flag. *)
ExitInv ==
    /\ thread_exit <=> dtor # "live"
    /\ loop = "exited" => thread_exit
    /\ dtor = "gone" => loop = "exited"
    /\ reg # NotLoaded => dtor = "live"

(* Number of events taken off the queue. *)
Popped == Len(delivered) + (IF loop = "call" THEN 1 ELSE 0)

(* The queue holds exactly the produced and not yet popped events, in order;  *)
(* the popped one is the next to deliver; the delivered ones are 1, 2, ...    *)
QueueInv ==
    /\ Popped + Len(voice_events) = nsent
    /\ \A i \in 1..Len(voice_events) : voice_events[i] = Popped + i
    /\ loop = "call" => event = Len(delivered) + 1

(* The inductive invariant. *)
IInv == TypeOK /\ MutexInv /\ ExitInv /\ FrontOfNonEmpty /\ QueueInv

-----------------------------------------------------------------------------
(* The constructor establishes the invariant. *)
LEMMA InitIInv == Init => IInv
  <1> SUFFICES ASSUME Init PROVE IInv
    OBVIOUS
  <1> USE ConstAssumption DEF Init, IInv
  <1>1. TypeOK
    <2>1. voice_events \in Seq(Nat) /\ delivered \in Seq(Nat)
      OBVIOUS
    <2> QED BY <2>1 DEF TypeOK, LoopStates
  <1>2. MutexInv /\ ExitInv /\ FrontOfNonEmpty
    BY DEF MutexInv, ExitInv, FrontOfNonEmpty, HoldsMutex
  <1>3. QueueInv
    BY DEF QueueInv, Popped
  <1> QED BY <1>1, <1>2, <1>3

(* Every step of every thread preserves it. *)
LEMMA NextIInv == IInv /\ [Next]_vars => IInv'
  <1> SUFFICES ASSUME IInv, [Next]_vars PROVE IInv'
    OBVIOUS
  <1> USE ConstAssumption DEF IInv, HoldsMutex
  <1>1. CASE SendVoiceEvent
    <2> USE <1>1 DEF SendVoiceEvent, Notify, callVars, regVars, dtorVars
    <2>1. TypeOK' BY DEF TypeOK, LoopStates
    <2>2. MutexInv' /\ ExitInv' /\ FrontOfNonEmpty'
      BY DEF MutexInv, ExitInv, FrontOfNonEmpty, TypeOK, LoopStates
    <2>3. voice_events \in Seq(Nat) /\ nsent \in Nat /\ Popped \in Nat
      BY DEF TypeOK, Popped
    <2>4. Popped' = Popped
      BY DEF Popped
    <2>5. /\ Len(voice_events') = Len(voice_events) + 1
          /\ \A i \in 1..Len(voice_events) : voice_events'[i] = voice_events[i]
          /\ voice_events'[Len(voice_events) + 1] = nsent + 1
      BY <2>3
    <2>6. nsent' = nsent + 1 /\ event' = event /\ delivered' = delivered
      OBVIOUS
    <2>7. (loop = "call")' <=> loop = "call"
      OBVIOUS
    <2>8. Popped' + Len(voice_events') = nsent'
      BY <2>3, <2>4, <2>5, <2>6 DEF QueueInv
    <2>9. \A i \in 1..Len(voice_events') : voice_events'[i] = Popped' + i
      <3> TAKE i \in 1..Len(voice_events')
      <3>1. CASE i \in 1..Len(voice_events)
        BY <3>1, <2>4, <2>5 DEF QueueInv
      <3>2. CASE i = Len(voice_events) + 1
        BY <3>2, <2>3, <2>4, <2>5 DEF QueueInv
      <3> QED BY <3>1, <3>2, <2>3, <2>5
    <2>10. QueueInv'
      BY <2>6, <2>7, <2>8, <2>9 DEF QueueInv
    <2> QED BY <2>1, <2>2, <2>10
  <1>2. ASSUME NEW c \in Clients, NEW withCb \in BOOLEAN, AddCallbackToken(c, withCb)
        PROVE IInv'
    <2> USE <1>2 DEF AddCallbackToken, queueVars, callVars, dtorVars
    <2>1. TypeOK' BY DEF TypeOK, LoopStates
    <2>2. MutexInv' /\ ExitInv' /\ FrontOfNonEmpty'
      BY DEF MutexInv, ExitInv, FrontOfNonEmpty
    <2>3. QueueInv' BY DEF QueueInv, Popped
    <2> QED BY <2>1, <2>2, <2>3
  <1>3. CASE AddCallbackFn
    <2> USE <1>3 DEF AddCallbackFn, queueVars, callVars, dtorVars
    <2>1. TypeOK' BY DEF TypeOK, LoopStates
    <2>2. MutexInv' /\ ExitInv' /\ FrontOfNonEmpty'
      BY DEF MutexInv, ExitInv, FrontOfNonEmpty
    <2>3. QueueInv' BY DEF QueueInv, Popped
    <2> QED BY <2>1, <2>2, <2>3
  <1>4. CASE LoopLock
    <2> USE <1>4 DEF LoopLock, queueVars, callVars, regVars, dtorVars
    <2>1. TypeOK' BY DEF TypeOK, LoopStates
    <2>2. MutexInv' /\ ExitInv' /\ FrontOfNonEmpty'
      BY DEF MutexInv, ExitInv, FrontOfNonEmpty
    <2>3. QueueInv' BY DEF QueueInv, Popped
    <2> QED BY <2>1, <2>2, <2>3
  <1>5. CASE LoopTest
    <2> USE <1>5 DEF LoopTest, queueVars, callVars, regVars, dtorVars
    <2>1. TypeOK' BY DEF TypeOK, LoopStates
    <2>2. MutexInv' /\ ExitInv' /\ FrontOfNonEmpty'
      BY DEF MutexInv, ExitInv, FrontOfNonEmpty
    <2>3. QueueInv' BY DEF QueueInv, Popped
    <2> QED BY <2>1, <2>2, <2>3
  <1>6. CASE LoopSleep
    <2> USE <1>6 DEF LoopSleep, queueVars, callVars, regVars, dtorVars
    <2>1. TypeOK' BY DEF TypeOK, LoopStates
    <2>2. MutexInv' /\ ExitInv' /\ FrontOfNonEmpty'
      BY DEF MutexInv, ExitInv, FrontOfNonEmpty
    <2>3. QueueInv' BY DEF QueueInv, Popped
    <2> QED BY <2>1, <2>2, <2>3
  <1>7. CASE LoopSpuriousWake
    <2> USE <1>7 DEF LoopSpuriousWake, queueVars, callVars, regVars, dtorVars
    <2>1. TypeOK' BY DEF TypeOK, LoopStates
    <2>2. MutexInv' /\ ExitInv' /\ FrontOfNonEmpty'
      BY DEF MutexInv, ExitInv, FrontOfNonEmpty
    <2>3. QueueInv' BY DEF QueueInv, Popped
    <2> QED BY <2>1, <2>2, <2>3
  <1>8. CASE LoopExit
    <2> USE <1>8 DEF LoopExit, queueVars, callVars, regVars, dtorVars
    <2>1. TypeOK' BY DEF TypeOK, LoopStates
    <2>2. MutexInv' /\ ExitInv' /\ FrontOfNonEmpty'
      BY DEF MutexInv, ExitInv, FrontOfNonEmpty
    <2>3. QueueInv' BY DEF QueueInv, Popped
    <2> QED BY <2>1, <2>2, <2>3
  <1>9. CASE LoopPop
    <2> USE <1>9 DEF LoopPop, regVars, dtorVars
    <2>0. voice_events # <<>> /\ voice_events \in Seq(Nat)
      BY DEF FrontOfNonEmpty, TypeOK
    <2>1. TypeOK' BY <2>0 DEF TypeOK, LoopStates
    <2>2. MutexInv' /\ ExitInv' /\ FrontOfNonEmpty'
      BY DEF MutexInv, ExitInv, FrontOfNonEmpty
    <2>3. /\ Len(voice_events) >= 1
          /\ Head(voice_events) = voice_events[1]
          /\ Len(voice_events') = Len(voice_events) - 1
          /\ \A i \in 1..Len(voice_events') : voice_events'[i] = voice_events[i + 1]
      BY <2>0
    <2>4. Popped' = Popped + 1
      BY DEF Popped, TypeOK
    <2>5. Popped \in Nat /\ Popped = Len(delivered)
      BY DEF Popped, TypeOK
    <2>6. QueueInv'
      BY <2>0, <2>3, <2>4, <2>5 DEF QueueInv
    <2> QED BY <2>1, <2>2, <2>6
  <1>10. CASE LoadCallback
    <2> USE <1>10 DEF LoadCallback, queueVars, regVars, dtorVars
    <2>1. TypeOK' BY DEF TypeOK, LoopStates
    <2>2. MutexInv' /\ ExitInv' /\ FrontOfNonEmpty'
      BY DEF MutexInv, ExitInv, FrontOfNonEmpty
    <2>3. QueueInv' BY DEF QueueInv, Popped
    <2> QED BY <2>1, <2>2, <2>3
  <1>11. CASE LoadToken
    <2> USE <1>11 DEF LoadToken, queueVars, regVars, dtorVars
    <2>1. TypeOK' BY DEF TypeOK, LoopStates
    <2>2. MutexInv' /\ ExitInv' /\ FrontOfNonEmpty'
      BY DEF MutexInv, ExitInv, FrontOfNonEmpty
    <2>3. QueueInv' BY DEF QueueInv, Popped
    <2> QED BY <2>1, <2>2, <2>3
  <1>12. CASE LoopInvoke
    <2> USE <1>12 DEF LoopInvoke, queueVars, regVars, dtorVars
    <2>1. TypeOK' BY DEF TypeOK, LoopStates
    <2>2. MutexInv' /\ ExitInv' /\ FrontOfNonEmpty'
      BY DEF MutexInv, ExitInv, FrontOfNonEmpty
    <2>3. QueueInv' BY DEF QueueInv, Popped, TypeOK
    <2> QED BY <2>1, <2>2, <2>3
  <1>13. CASE LoopDelete
    <2> USE <1>13 DEF LoopDelete, queueVars, regVars, dtorVars
    <2>1. TypeOK' BY DEF TypeOK, LoopStates
    <2>2. MutexInv' /\ ExitInv' /\ FrontOfNonEmpty'
      BY DEF MutexInv, ExitInv, FrontOfNonEmpty
    <2>3. QueueInv' BY DEF QueueInv, Popped
    <2> QED BY <2>1, <2>2, <2>3
  <1>14. CASE DtorSetExit
    <2> USE <1>14 DEF DtorSetExit, queueVars, callVars, regVars
    <2>1. TypeOK' BY DEF TypeOK, LoopStates
    <2>2. MutexInv' /\ ExitInv' /\ FrontOfNonEmpty'
      BY DEF MutexInv, ExitInv, FrontOfNonEmpty
    <2>3. QueueInv' BY DEF QueueInv, Popped
    <2> QED BY <2>1, <2>2, <2>3
  <1>15. CASE DtorNotifyAll
    <2> USE <1>15 DEF DtorNotifyAll, Notify, queueVars, callVars, regVars
    <2>1. TypeOK' BY DEF TypeOK, LoopStates
    <2>2. MutexInv' /\ ExitInv' /\ FrontOfNonEmpty'
      BY DEF MutexInv, ExitInv, FrontOfNonEmpty
    <2>3. QueueInv' BY DEF QueueInv, Popped
    <2> QED BY <2>1, <2>2, <2>3
  <1>16. CASE DtorJoin
    <2> USE <1>16 DEF DtorJoin, queueVars, callVars, regVars
    <2>1. TypeOK' BY DEF TypeOK, LoopStates
    <2>2. MutexInv' /\ ExitInv' /\ FrontOfNonEmpty'
      BY DEF MutexInv, ExitInv, FrontOfNonEmpty
    <2>3. QueueInv' BY DEF QueueInv, Popped
    <2> QED BY <2>1, <2>2, <2>3
  <1>17. CASE UNCHANGED vars
    <2> USE <1>17 DEF vars, queueVars, callVars, regVars, dtorVars
    <2>1. TypeOK' BY DEF TypeOK, LoopStates
    <2>2. MutexInv' /\ ExitInv' /\ FrontOfNonEmpty'
      BY DEF MutexInv, ExitInv, FrontOfNonEmpty
    <2>3. QueueInv' BY DEF QueueInv, Popped
    <2> QED BY <2>1, <2>2, <2>3
  <1> QED
    BY <1>1, <1>2, <1>3, <1>4, <1>5, <1>6, <1>7, <1>8, <1>9, <1>10, <1>11,
       <1>12, <1>13, <1>14, <1>15, <1>16, <1>17
    DEF Next, LoopStep, DtorStep

(* The inductive invariant holds in every reachable state. *)
THEOREM Invariance == Spec => []IInv
  BY InitIInv, NextIInv, PTL DEF Spec

(* Type correctness of the hub. *)
THEOREM TypeCorrect == Spec => []TypeOK
  <1>1. IInv => TypeOK BY DEF IInv
  <1> QED BY <1>1, Invariance, PTL

(* front() is never called on an empty list (event_hub.cpp:48).               *)
THEOREM NeverPopsEmpty == Spec => []FrontOfNonEmpty
  <1>1. IInv => FrontOfNonEmpty BY DEF IInv
  <1> QED BY <1>1, Invariance, PTL

-----------------------------------------------------------------------------
(* What the event thread has read of the registration while it is about to    *)
(* call, or in, a callback.  An event produced after the last store of        *)
(* add_callback was popped after it, so both reads see both stores.           *)
PairInv ==
    /\ regAt <= nsent
    /\ loop \in {"call", "running"} => event <= nsent
    /\ loop \notin {"call", "running"} => cbArg = NotLoaded /\ tokArg = NotLoaded
    /\ loop = "running" => cbArg # NotLoaded /\ tokArg # NotLoaded
    /\ event > regAt => /\ cbArg # NotLoaded => cbArg = event_callback
                        /\ tokArg # NotLoaded => tokArg = token

(* Every step preserves it. *)
LEMMA NextPairInv == IInv /\ PairInv /\ [Next]_vars => PairInv'
  <1> SUFFICES ASSUME IInv, PairInv, [Next]_vars PROVE PairInv'
    OBVIOUS
  <1>0. /\ nsent \in Nat /\ regAt \in Nat /\ event \in Nat
        /\ event_callback # NotLoaded /\ token # NotLoaded
    BY ConstAssumption DEF IInv, TypeOK
  <1>1. CASE SendVoiceEvent
    BY <1>0, <1>1 DEF SendVoiceEvent, Notify, callVars, regVars, PairInv
  <1>2. ASSUME NEW c \in Clients, NEW withCb \in BOOLEAN, AddCallbackToken(c, withCb)
        PROVE PairInv'
    <2>1. /\ nsent' = nsent /\ event' = event /\ loop' = loop /\ regAt' = nsent
          /\ cbArg' = cbArg /\ tokArg' = tokArg
      BY <1>2 DEF AddCallbackToken, queueVars, callVars
    <2>2. event > nsent => loop \notin {"call", "running"}
      BY <1>0 DEF PairInv
    <2> QED BY <2>1, <2>2, <1>0 DEF PairInv
  <1>3. CASE AddCallbackFn
    <2>1. /\ nsent' = nsent /\ event' = event /\ loop' = loop /\ regAt' = nsent
          /\ cbArg' = cbArg /\ tokArg' = tokArg
      BY <1>3 DEF AddCallbackFn, queueVars, callVars
    <2>2. event > nsent => loop \notin {"call", "running"}
      BY <1>0 DEF PairInv
    <2> QED BY <2>1, <2>2, <1>0 DEF PairInv
  <1>4. CASE LoopPop
    <2>1. voice_events # <<>> /\ voice_events \in Seq(Nat) /\ delivered \in Seq(Nat)
      BY <1>4 DEF LoopPop, IInv, FrontOfNonEmpty, TypeOK
    <2>2. Len(voice_events) >= 1 /\ Head(voice_events) = voice_events[1]
      BY <2>1
    <2>3. event' <= nsent
      BY <1>0, <1>4, <2>1, <2>2 DEF LoopPop, IInv, QueueInv, Popped
    <2> QED BY <1>0, <1>4, <2>3 DEF LoopPop, regVars, PairInv
  <1>5. CASE LoadCallback \/ LoadToken
    BY <1>0, <1>5 DEF LoadCallback, LoadToken, queueVars, regVars, PairInv
  <1>6. CASE LoopInvoke \/ LoopDelete
    BY <1>0, <1>6 DEF LoopInvoke, LoopDelete, queueVars, regVars, PairInv
  <1>7. CASE \/ LoopLock \/ LoopTest \/ LoopSleep \/ LoopSpuriousWake \/ LoopExit
             \/ DtorSetExit \/ DtorNotifyAll \/ DtorJoin \/ UNCHANGED vars
    BY <1>0, <1>7
    DEF LoopLock, LoopTest, LoopSleep, LoopSpuriousWake, LoopExit, DtorSetExit,
        DtorNotifyAll, DtorJoin, Notify, vars, queueVars, callVars, regVars, PairInv
  <1> QED
    BY <1>1, <1>2, <1>3, <1>4, <1>5, <1>6, <1>7 DEF Next, LoopStep, DtorStep

(* An event produced after add_callback has returned goes to the registered   *)
(* callback with its own token, for any number of registrations.              *)
THEOREM RegistrationRespected == Spec => []RegisteredPairUsed
  <1>1. Init => PairInv
    BY DEF Init, PairInv
  <1>2. PairInv => RegisteredPairUsed
    BY DEF PairInv, RegisteredPairUsed
  <1> QED BY <1>1, <1>2, NextPairInv, Invariance, PTL DEF Spec

-----------------------------------------------------------------------------
(* The hub implements the safety part of the abstract channel: in order, each *)
(* event once, none after Free.                                               *)
THEOREM SafeChannel == Spec => Channel!SafeSpec
  <1>1. Init => Channel!Init
    BY DEF Init, Channel!Init
  <1>2. IInv /\ [Next]_vars => [Channel!Next]_Channel!vars
    <2> SUFFICES ASSUME IInv, [Next]_vars
                 PROVE [Channel!Next]_Channel!vars
      OBVIOUS
    <2> USE DEF IInv, Channel!vars
    <2>1. CASE SendVoiceEvent
      BY <2>1 DEF SendVoiceEvent, callVars, dtorVars, Channel!Next, Channel!Send
    <2>2. CASE LoopInvoke
      <3>1. dtor # "gone" BY <2>2 DEF LoopInvoke, ExitInv
      <3>2. Len(delivered) < nsent /\ event = Len(delivered) + 1
        BY <2>2 DEF LoopInvoke, QueueInv, Popped, TypeOK
      <3> QED
        BY <2>2, <3>1, <3>2
        DEF LoopInvoke, queueVars, dtorVars, Channel!Next, Channel!Deliver
    <2>3. CASE DtorSetExit
      BY <2>3 DEF DtorSetExit, queueVars, callVars, Channel!Next, Channel!Close
    <2>4. CASE DtorNotifyAll
      BY <2>4 DEF DtorNotifyAll, queueVars, callVars
    <2>5. CASE DtorJoin
      BY <2>5 DEF DtorJoin, queueVars, callVars, Channel!Next, Channel!Close
    <2>6. ASSUME NEW c \in Clients, NEW withCb \in BOOLEAN, AddCallbackToken(c, withCb)
          PROVE UNCHANGED Channel!vars
      BY <2>6 DEF AddCallbackToken, queueVars, callVars, dtorVars
    <2>7. CASE AddCallbackFn \/ LoopLock \/ LoopTest \/ LoopSleep \/ LoopSpuriousWake
               \/ LoopExit \/ LoopPop \/ LoadCallback \/ LoadToken \/ LoopDelete
      BY <2>7 DEF AddCallbackFn, LoopLock, LoopTest, LoopSleep, LoopSpuriousWake,
         LoopExit, LoopPop, LoadCallback, LoadToken, LoopDelete,
         queueVars, callVars, dtorVars
    <2>8. CASE UNCHANGED vars
      BY <2>8 DEF vars, queueVars, callVars, dtorVars
    <2> QED
      BY <2>1, <2>2, <2>3, <2>4, <2>5, <2>6, <2>7, <2>8 DEF Next, LoopStep, DtorStep
  <1> QED BY <1>1, <1>2, Invariance, PTL DEF Spec, Channel!SafeSpec
-----------------------------------------------------------------------------
(* What makes the liveness of the hub true.  Fairness gives the event thread   *)
(* its steps; these theorems say that the steps it is given lead somewhere.    *)

(* Events produced and not yet handed to a callback. *)
Backlog == nsent - Len(delivered)

(* A thread that found the list empty still finds it empty when it falls      *)
(* asleep, because a sender needs the mutex; a sender that adds to the list   *)
(* of a sleeping thread wakes it.                                             *)
WakeInv == loop \in {"wait", "sleeping"} => voice_events = <<>>

(* Every step preserves it. *)
LEMMA NextWakeInv == IInv /\ WakeInv /\ [Next]_vars => WakeInv'
  <1> SUFFICES ASSUME IInv, WakeInv, [Next]_vars PROVE WakeInv'
    OBVIOUS
  <1>1. CASE SendVoiceEvent
    BY <1>1 DEF SendVoiceEvent, Notify, WakeInv, IInv, MutexInv, HoldsMutex
  <1>2. ASSUME NEW c \in Clients, NEW withCb \in BOOLEAN, AddCallbackToken(c, withCb)
        PROVE WakeInv'
    BY <1>2 DEF AddCallbackToken, queueVars, WakeInv
  <1>3. CASE AddCallbackFn \/ LoadCallback \/ LoadToken \/ DtorSetExit \/ DtorJoin
             \/ UNCHANGED vars
    BY <1>3 DEF AddCallbackFn, LoadCallback, LoadToken, DtorSetExit, DtorJoin, vars,
       queueVars, WakeInv
  <1>4. CASE LoopLock \/ LoopTest \/ LoopSleep \/ LoopSpuriousWake \/ LoopExit
             \/ LoopPop \/ LoopInvoke \/ LoopDelete
    BY <1>4 DEF LoopLock, LoopTest, LoopSleep, LoopSpuriousWake, LoopExit, LoopPop,
       LoopInvoke, LoopDelete, queueVars, WakeInv
  <1>5. CASE DtorNotifyAll
    BY <1>5 DEF DtorNotifyAll, Notify, queueVars, WakeInv
  <1> QED
    BY <1>1, <1>2, <1>3, <1>4, <1>5 DEF Next, LoopStep, DtorStep

(* A thread that neither sleeps nor has left its loop has a step to take: the *)
(* mutex it wants is free, as nobody else keeps it across steps, and the list *)
(* it takes from is not empty.                                                *)
NeverBlocked ==
    /\ loop \in {"lock", "awake"} => mutex = "free"
    /\ loop = "decide" => thread_exit \/ voice_events # <<>>

(* Whatever senders, clients and spurious wake-ups do, the event thread never *)
(* sleeps on an undelivered event and is never blocked elsewhere.             *)
THEOREM NoEventWaitsForASleeper == Spec => [](NoLostWakeup /\ NeverBlocked)
  <1>1. Init => WakeInv
    BY DEF Init, WakeInv
  <1>2. IInv /\ WakeInv => NoLostWakeup /\ NeverBlocked
    <2> SUFFICES ASSUME IInv, WakeInv PROVE NoLostWakeup /\ NeverBlocked
      OBVIOUS
    <2>1. NoLostWakeup
      <3> SUFFICES ASSUME loop = "sleeping" PROVE Len(delivered) = nsent
        BY DEF NoLostWakeup
      <3>1. Len(voice_events) = 0 /\ Popped = Len(delivered)
        BY DEF WakeInv, Popped, IInv, TypeOK
      <3>2. Popped + Len(voice_events) = nsent /\ nsent \in Nat /\ Len(delivered) \in Nat
        BY DEF IInv, QueueInv, TypeOK
      <3> QED BY <3>1, <3>2
    <2>2. NeverBlocked
      BY DEF NeverBlocked, IInv, MutexInv, HoldsMutex, TypeOK, FrontOfNonEmpty
    <2> QED BY <2>1, <2>2
  <1> QED BY <1>1, <1>2, NextWakeInv, Invariance, PTL DEF Spec

(* How far the thread is from its next delivery or from its exit. *)
Stage ==
    CASE loop = "running" -> 9
      [] loop \in {"lock", "awake"} -> 8
      [] loop = "test" -> 7
      [] loop \in {"decide", "wait"} -> 6
      [] loop = "sleeping" -> 5
      [] loop = "call" -> 2 + (IF cbArg = NotLoaded THEN 1 ELSE 0)
                            + (IF tokArg = NotLoaded THEN 1 ELSE 0)
      [] OTHER -> 1

Measure == 10 * Backlog + Stage

(* Somebody counts on the thread: for an event, or to end. *)
CountedOn ==
    \/ Backlog > 0
    \/ thread_exit /\ loop \notin {"wait", "sleeping"}

(* Each step of the thread brings the delivery of what was produced, and the  *)
(* exit, strictly nearer, and while somebody counts on it no step of another  *)
(* thread but the production of one more event takes it back: a natural       *)
(* number cannot fall for ever, so the fair thread gets there.                *)
Progress ==
    /\ Measure \in Nat
    /\ LoopStep => Measure' < Measure
    /\ CountedOn /\ nsent' = nsent => Measure' <= Measure

(* The measure is a natural number, and a stage is below ten. *)
LEMMA MeasureType == IInv => Backlog \in Nat /\ Stage \in 1..9
  <1> SUFFICES ASSUME IInv PROVE Backlog \in Nat /\ Stage \in 1..9
    OBVIOUS
  <1>1. Backlog \in Nat
    BY DEF IInv, TypeOK, QueueInv, Popped, Backlog
  <1>2. Stage \in 1..9
    BY DEF IInv, TypeOK, LoopStates, Stage
  <1> QED BY <1>1, <1>2

(* The same after a step. *)
LEMMA MeasureTypeAfter == IInv' => (Backlog \in Nat /\ Stage \in 1..9)'
  BY MeasureType, PTL

(* The delivery of an event is ten stages' worth. *)
LEMMA Lower ==
    ASSUME NEW b \in Nat, NEW c \in Nat, NEW s \in 1..9, NEW t \in 1..9,
           (c = b /\ t < s) \/ c = b - 1
    PROVE  10 * c + t < 10 * b + s
  OBVIOUS

(* The thread's steps lower the measure. *)
LEMMA LoopLowers == ASSUME IInv, IInv', LoopStep PROVE Measure' < Measure
  <1>0. /\ Backlog \in Nat /\ Stage \in 1..9 /\ Backlog' \in Nat /\ Stage' \in 1..9
    BY MeasureType, MeasureTypeAfter
  <1>1. CASE LoopInvoke
    <2>1. Len(delivered') = Len(delivered) + 1 /\ nsent' = nsent
      BY <1>1 DEF LoopInvoke, queueVars, IInv, TypeOK
    <2>2. nsent \in Nat /\ Len(delivered) \in Nat
      BY DEF IInv, TypeOK
    <2>3. Backlog' = Backlog - 1
      BY <2>1, <2>2 DEF Backlog
    <2> QED BY <1>0, <2>3, Lower DEF Measure
  <1>2. CASE ~LoopInvoke
    <2>1. Backlog' = Backlog
      BY <1>2 DEF LoopStep, LoopLock, LoopTest, LoopSleep, LoopExit, LoopPop,
         LoadCallback, LoadToken, LoopDelete, queueVars, callVars, Backlog
    <2>2. Stage' < Stage
      <3>1. CASE LoopLock \/ LoopTest \/ LoopSleep \/ LoopExit
        BY <3>1 DEF LoopLock, LoopTest, LoopSleep, LoopExit, Stage
      <3>2. CASE LoopPop
        BY <3>2 DEF LoopPop, Stage
      <3>3. CASE LoadCallback
        BY <3>3, ConstAssumption DEF LoadCallback, Stage, IInv, TypeOK
      <3>4. CASE LoadToken
        BY <3>4, ConstAssumption DEF LoadToken, Stage, IInv, TypeOK
      <3>5. CASE LoopDelete
        BY <3>5 DEF LoopDelete, Stage
      <3> QED BY <1>2, <3>1, <3>2, <3>3, <3>4, <3>5 DEF LoopStep
    <2> QED BY <1>0, <2>1, <2>2, Lower DEF Measure
  <1> QED BY <1>1, <1>2

(* The measured progress of the event thread, the core of EventuallyDelivered *)
(* and of JoinReturnsOutsideWindow.                                           *)
THEOREM EventThreadProgress == Spec => [][Progress]_vars
  <1>1. ASSUME IInv, IInv', WakeInv, [Next]_vars PROVE Progress
    <2>1. Measure \in Nat
      BY <1>1, MeasureType DEF Measure
    <2>2. LoopStep => Measure' < Measure
      BY <1>1, LoopLowers
    <2>3. ASSUME CountedOn, nsent' = nsent, ~LoopStep PROVE Measure' = Measure
      <3>1. loop # "sleeping"
        <4>1. SUFFICES ASSUME loop = "sleeping", Backlog > 0 PROVE FALSE
          BY <2>3 DEF CountedOn
        <4>2. Len(voice_events) = 0 /\ Popped = Len(delivered)
          BY <1>1, <4>1 DEF WakeInv, Popped, IInv, TypeOK
        <4>3. Popped + Len(voice_events) = nsent /\ nsent \in Nat /\ Len(delivered) \in Nat
          BY <1>1 DEF IInv, QueueInv, TypeOK
        <4> QED BY <4>1, <4>2, <4>3 DEF Backlog
      <3> DEFINE Idle == /\ loop' = loop /\ cbArg' = cbArg /\ tokArg' = tokArg
                         /\ delivered' = delivered
      <3>2. Idle
        <4>1. ~SendVoiceEvent
          BY <1>1, <2>3 DEF SendVoiceEvent, IInv, TypeOK
        <4>2. ASSUME NEW c \in Clients, NEW withCb \in BOOLEAN,
                     AddCallbackToken(c, withCb)
              PROVE Idle
          BY <4>2 DEF AddCallbackToken, callVars
        <4>3. CASE AddCallbackFn \/ LoopSpuriousWake \/ DtorSetExit \/ DtorNotifyAll
                   \/ DtorJoin \/ UNCHANGED vars
          BY <3>1, <4>3 DEF AddCallbackFn, LoopSpuriousWake, DtorSetExit,
             DtorNotifyAll, DtorJoin, Notify, vars, callVars
        <4> HIDE DEF Idle
        <4> QED BY <1>1, <2>3, <4>1, <4>2, <4>3 DEF Next, DtorStep
      <3> QED BY <2>3, <3>2 DEF Measure, Backlog, Stage
    <2>4. ASSUME CountedOn, nsent' = nsent PROVE Measure' <= Measure
      <3>1. Measure' \in Nat
        BY <1>1, MeasureTypeAfter DEF Measure
      <3> QED BY <2>1, <2>2, <2>3, <2>4, <3>1
    <2> QED BY <2>1, <2>2, <2>4 DEF Progress
  <1>2. Init => WakeInv
    BY DEF Init, WakeInv
  <1> QED BY <1>1, <1>2, NextWakeInv, Invariance, PTL DEF Spec

(* The destructor's side.  Once thread_exit is set the thread does not begin  *)
(* to wait any more, and a destructor that notifies while the thread is not   *)
(* between its test and its sleep finds, and leaves, it awake until the join  *)
(* returns: only the window of event_hub.cpp:13 against 41 loses the wake-up. *)
ExitNoticed ==
    /\ thread_exit /\ loop' = "wait" => loop = "wait"
    /\ dtor = "notify" /\ dtor' = "join" /\ loop # "wait" =>
         loop' \notin {"wait", "sleeping"}
    /\ dtor = "join" /\ loop \notin {"wait", "sleeping"} =>
         loop' \notin {"wait", "sleeping"}

(* A thread_exit set outside the window is always noticed.                    *)
THEOREM ExitIsNoticed == Spec => [][ExitNoticed]_vars
  <1>1. ASSUME IInv, [Next]_vars PROVE ExitNoticed
    <2>0. dtor = "join" => thread_exit
      BY <1>1 DEF IInv, ExitInv
    <2>1. ASSUME NEW c \in Clients, NEW withCb \in BOOLEAN, AddCallbackToken(c, withCb)
          PROVE ExitNoticed
      BY <2>1 DEF AddCallbackToken, dtorVars, ExitNoticed
    <2>2. CASE SendVoiceEvent \/ AddCallbackFn \/ LoadCallback \/ LoadToken
               \/ DtorSetExit \/ DtorJoin \/ DtorNotifyAll \/ UNCHANGED vars
      BY <2>2 DEF SendVoiceEvent, AddCallbackFn, LoadCallback, LoadToken, DtorSetExit,
         DtorJoin, DtorNotifyAll, Notify, vars, dtorVars, ExitNoticed
    <2>3. CASE LoopLock \/ LoopTest \/ LoopSleep \/ LoopSpuriousWake \/ LoopExit
               \/ LoopPop \/ LoopInvoke \/ LoopDelete
      BY <2>0, <2>3 DEF LoopLock, LoopTest, LoopSleep, LoopSpuriousWake, LoopExit,
         LoopPop, LoopInvoke, LoopDelete, dtorVars, ExitNoticed
    <2> QED BY <1>1, <2>1, <2>2, <2>3 DEF Next, LoopStep, DtorStep
  <1> QED BY <1>1, Invariance, PTL DEF Spec
=============================================================================
