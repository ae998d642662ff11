------------------------------ MODULE EventHub ------------------------------
(***************************************************************************)
(* event_hub.cpp: the queue between the thread that runs                    *)
(* VsysActivation_Process (which produces voice events) and the event       *)
(* thread (which hands them to the client's callback), with the threads     *)
(* that register a callback and that destroy the hub.                       *)
(*                                                                          *)
(* A step is what a thread does between two points where another thread can *)
(* interfere: acquiring the mutex, entering condition.wait, and each plain  *)
(* (unsynchronised) access to thread_exit, token and event_callback.        *)
(***************************************************************************)
EXTENDS Naturals, Sequences

CONSTANTS
    Clients,     \* the (callback, token) pairs a program registers
    Default,     \* the callback the constructor installs; it ignores its token
    NotLoaded,   \* an argument of the callback call that is not read yet
    MaxEvents,   \* bound: number of events one behaviour produces
    MaxRegs      \* bound: number of add_callback calls in one behaviour

ASSUME ConstAssumption ==
    /\ MaxEvents \in Nat
    /\ MaxRegs \in Nat
    /\ Default \notin Clients
    /\ NotLoaded \notin Clients \cup {Default}

VARIABLES
    voice_events,    \* std::list of queued events, oldest first
    mutex,           \* "free" or "loop": held by the event thread
    thread_exit,
    event_callback,
    token,
    loop,            \* control state of thread_loop
    event,           \* thread_loop's local voice_event (0: none)
    cbArg, tokArg,   \* the operands of the call on line 53 read so far
    reg,             \* the client whose add_callback is half done, or NotLoaded
    dtor,            \* control state of ~EventHub
    nsent,           \* history: number of events produced
    nreg,            \* history: number of add_callback calls
    delivered,       \* history: events handed to a callback
    regAt            \* history: number of events produced before the last store
                     \* of add_callback

queueVars == <<voice_events, nsent>>
callVars  == <<event, cbArg, tokArg, delivered>>
regVars   == <<event_callback, token, reg, nreg, regAt>>
dtorVars  == <<thread_exit, dtor>>
vars == <<queueVars, mutex, loop, callVars, regVars, dtorVars>>

LoopStates == {"lock", "test", "wait", "sleeping", "awake", "decide",
               "call", "running", "exited"}
HoldsMutex == {"test", "wait", "decide"}

(* EventHub::EventHub: the thread runs, the token is not initialised (the     *)
(* default callback never looks at it).                                       *)
Init ==
    /\ voice_events = <<>> /\ nsent = 0
    /\ mutex = "free" /\ loop = "lock"
    /\ event = 0 /\ cbArg = NotLoaded /\ tokArg = NotLoaded
    /\ delivered = <<>>
    /\ event_callback = Default
    /\ token \in Clients \cup {Default}
    /\ reg = NotLoaded /\ nreg = 0
    /\ regAt = 0
    /\ thread_exit = FALSE /\ dtor = "live"

-----------------------------------------------------------------------------
(* notify_one and notify_all wake the event thread only if it is asleep: a    *)
(* notification given to nobody is lost.                                      *)
Notify == loop' = IF loop = "sleeping" THEN "awake" ELSE loop

SendMutantNoNotify ==
    /\ dtor = "live" /\ mutex = "free" /\ nsent < MaxEvents
    /\ nsent' = nsent + 1
    /\ voice_events' = Append(voice_events, nsent')
    /\ UNCHANGED <<loop, mutex, callVars, regVars, dtorVars>>

SendMutantNoLock ==
    /\ dtor = "live" /\ nsent < MaxEvents
    /\ nsent' = nsent + 1
    /\ voice_events' = Append(voice_events, nsent')
    /\ Notify
    /\ UNCHANGED <<mutex, callVars, regVars, dtorVars>>

(* send_voice_event: the whole body runs under the mutex. *)
SendVoiceEvent ==
    /\ dtor = "live" /\ mutex = "free" /\ nsent < MaxEvents
    /\ nsent' = nsent + 1
    /\ voice_events' = Append(voice_events, nsent')
    /\ Notify
    /\ UNCHANGED <<mutex, callVars, regVars, dtorVars>>

(* add_callback, first store: the token.  A null callback (withCb = FALSE)   *)
(* stores nothing else.                                                       *)
AddCallbackToken(c, withCb) ==
    /\ dtor = "live" /\ reg = NotLoaded /\ nreg < MaxRegs
    /\ nreg' = nreg + 1
    /\ token' = c
    /\ reg' = IF withCb THEN c ELSE NotLoaded
    /\ regAt' = nsent
    /\ UNCHANGED <<event_callback, queueVars, mutex, loop, callVars, dtorVars>>

(* add_callback, second store: the callback. *)
AddCallbackFn ==
    /\ reg # NotLoaded
    /\ event_callback' = reg
    /\ regAt' = nsent
    /\ reg' = NotLoaded
    /\ UNCHANGED <<token, nreg, queueVars, mutex, loop, callVars, dtorVars>>

-----------------------------------------------------------------------------
(* thread_loop *)

LoopLock ==
    /\ loop \in {"lock", "awake"} /\ mutex = "free"
    /\ mutex' = "loop" /\ loop' = "test"
    /\ UNCHANGED <<queueVars, callVars, regVars, dtorVars>>

(* A wait without its predicate, as a plain condition.wait(locker) would be:  *)
(* whatever woke the thread, it goes on.                                      *)
LoopTestMutantNoRetest ==
    /\ loop = "test"
    /\ loop' \in {"decide", "wait"}
    /\ loop' = "wait" => voice_events = <<>> /\ ~thread_exit
    /\ UNCHANGED <<mutex, queueVars, callVars, regVars, dtorVars>>

(* The predicate of condition.wait, evaluated with the mutex held. *)
LoopTest ==
    /\ loop = "test"
    /\ loop' = IF thread_exit \/ voice_events # <<>> THEN "decide" ELSE "wait"
    /\ UNCHANGED <<mutex, queueVars, callVars, regVars, dtorVars>>

(* condition.wait releases the mutex and blocks in one step. *)
LoopSleep ==
    /\ loop = "wait"
    /\ mutex' = "free" /\ loop' = "sleeping"
    /\ UNCHANGED <<queueVars, callVars, regVars, dtorVars>>

LoopSpuriousWake ==
    /\ loop = "sleeping"
    /\ loop' = "awake"
    /\ UNCHANGED <<mutex, queueVars, callVars, regVars, dtorVars>>

(* if(thread_exit) break: whatever is still queued is never delivered. *)
LoopExit ==
    /\ loop = "decide" /\ thread_exit
    /\ mutex' = "free" /\ loop' = "exited"
    /\ UNCHANGED <<queueVars, callVars, regVars, dtorVars>>

LoopPopMutantBack ==
    /\ loop = "decide" /\ ~thread_exit
    /\ event' = voice_events[Len(voice_events)]
    /\ voice_events' = SubSeq(voice_events, 1, Len(voice_events) - 1)
    /\ mutex' = "free" /\ loop' = "call"
    /\ UNCHANGED <<nsent, cbArg, tokArg, delivered, regVars, dtorVars>>

LoopPop ==
    /\ loop = "decide" /\ ~thread_exit
    /\ event' = Head(voice_events)
    /\ voice_events' = Tail(voice_events)
    /\ mutex' = "free" /\ loop' = "call"
    /\ UNCHANGED <<nsent, cbArg, tokArg, delivered, regVars, dtorVars>>

(* The token is read only when none was read before. *)
LoopDeleteMutant ==
    /\ loop = "running"
    /\ event' = 0 /\ cbArg' = NotLoaded
    /\ loop' = "lock"
    /\ UNCHANGED <<tokArg, delivered, mutex, queueVars, regVars, dtorVars>>

(* Line 53 reads two plain fields, in an order the compiler chooses. *)
LoadCallback ==
    /\ loop = "call" /\ cbArg = NotLoaded
    /\ cbArg' = event_callback
    /\ UNCHANGED <<event, tokArg, delivered, mutex, loop, queueVars, regVars, dtorVars>>

LoadToken ==
    /\ loop = "call" /\ tokArg = NotLoaded
    /\ tokArg' = token
    /\ UNCHANGED <<event, cbArg, delivered, mutex, loop, queueVars, regVars, dtorVars>>

(* The callback is entered with the event. *)
LoopInvoke ==
    /\ loop = "call" /\ cbArg # NotLoaded /\ tokArg # NotLoaded
    /\ delivered' = Append(delivered, event)
    /\ loop' = "running"
    /\ UNCHANGED <<event, cbArg, tokArg, mutex, queueVars, regVars, dtorVars>>

(* The callback returns and the event is deleted. *)
LoopDelete ==
    /\ loop = "running"
    /\ event' = 0 /\ cbArg' = NotLoaded /\ tokArg' = NotLoaded
    /\ loop' = "lock"
    /\ UNCHANGED <<delivered, mutex, queueVars, regVars, dtorVars>>

-----------------------------------------------------------------------------
(* ~EventHub.  The owner frees the handle when no other call on it is active. *)

DtorSetExit ==
    /\ dtor = "live" /\ reg = NotLoaded
    /\ thread_exit' = TRUE /\ dtor' = "notify"
    /\ UNCHANGED <<queueVars, mutex, loop, callVars, regVars>>

DtorMutantNoNotify ==
    /\ dtor = "notify"
    /\ dtor' = "join"
    /\ UNCHANGED <<loop, thread_exit, queueVars, mutex, callVars, regVars>>

DtorNotifyAll ==
    /\ dtor = "notify"
    /\ Notify
    /\ dtor' = "join"
    /\ UNCHANGED <<thread_exit, queueVars, mutex, callVars, regVars>>

DtorJoin ==
    /\ dtor = "join" /\ loop = "exited"
    /\ dtor' = "gone"
    /\ UNCHANGED <<thread_exit, loop, queueVars, mutex, callVars, regVars>>

-----------------------------------------------------------------------------
LoopStep ==
    \/ LoopLock \/ LoopTest \/ LoopSleep \/ LoopExit \/ LoopPop
    \/ LoadCallback \/ LoadToken \/ LoopInvoke \/ LoopDelete

DtorStep == DtorNotifyAll \/ DtorJoin

Next ==
    \/ SendVoiceEvent
    \/ \E c \in Clients, withCb \in BOOLEAN : AddCallbackToken(c, withCb)
    \/ AddCallbackFn
    \/ LoopStep
    \/ LoopSpuriousWake
    \/ DtorSetExit
    \/ DtorStep

(* A runnable thread eventually runs: the event thread, a call of             *)
(* add_callback and a destructor that have begun.  Nothing makes a program    *)
(* send, register or free, and no spurious wake-up is ever owed.              *)
Fairness == WF_vars(LoopStep) /\ WF_vars(DtorStep) /\ WF_vars(AddCallbackFn)

Spec == Init /\ [][Next]_vars /\ Fairness

-----------------------------------------------------------------------------
(* Types of event_hub.h's fields and of the control states. *)
TypeOK ==
    /\ voice_events \in Seq(Nat) /\ nsent \in Nat
    /\ mutex \in {"free", "loop"} /\ loop \in LoopStates
    /\ event \in Nat /\ delivered \in Seq(Nat)
    /\ cbArg \in Clients \cup {Default, NotLoaded}
    /\ tokArg \in Clients \cup {Default, NotLoaded}
    /\ event_callback \in Clients \cup {Default}
    /\ token \in Clients \cup {Default}
    /\ reg \in Clients \cup {NotLoaded}
    /\ nreg \in Nat /\ regAt \in Nat
    /\ thread_exit \in BOOLEAN /\ dtor \in {"live", "notify", "join", "gone"}

(* front() and pop_front() (lines 48-49) are never reached with an empty      *)
(* list, whatever spurious wake-ups happen.                                   *)
FrontOfNonEmpty == loop = "decide" /\ ~thread_exit => voice_events # <<>>

(* No wake-up of a sender is lost: whenever the event thread is asleep every  *)
(* event produced has been delivered (event_hub.cpp:45 against 34-38).        *)
NoLostWakeup == loop = "sleeping" => Len(delivered) = nsent

(* Every produced event is delivered unless the hub is being destroyed.       *)
EventuallyDelivered ==
    \A i \in 1..MaxEvents : nsent >= i ~> (Len(delivered) >= i \/ thread_exit)

(* The destructor returns unless it sets thread_exit, without the mutex,      *)
(* between the event thread's test of the predicate and its going to sleep:   *)
(* that window is the only way to lose the wake-up.                           *)
JoinReturnsOutsideWindow ==
    (dtor = "notify" /\ loop # "wait") ~> dtor = "gone"

(* What vsys_activation.h says of VsysActivation_Free: it releases the        *)
(* handle, so the call comes back.                                            *)
FreeReturns == dtor # "live" ~> dtor = "gone"

(* An event produced after add_callback has returned is handed to the         *)
(* callback then registered with the token registered with it, although the   *)
(* event thread reads both without the mutex.  (An event produced earlier may *)
(* get one client's callback with another client's token.)                    *)
RegisteredPairUsed ==
    loop = "running" /\ event > regAt => cbArg = event_callback /\ tokArg = token

(* thread_loop, the sender and the destructor implement the abstract channel. *)
Channel == INSTANCE EventChannel WITH
    sent <- nsent,
    phase <- CASE dtor = "live" -> "open" [] dtor = "gone" -> "closed"
               [] OTHER -> "closing"
ImplementsChannel == Channel!Spec
=============================================================================
