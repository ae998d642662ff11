------------------------- MODULE VoiceServiceProofs -------------------------
(***************************************************************************)
(* Proofs about VoiceService for any number of utterances, connections and  *)
(* queued events: types, the siren's state, the response threads, that with *)
(* local detection audio goes to the session of its utterance, and that     *)
(* what closes a session is not lost.                                       *)
(*                                                                          *)
(* Audio needs the order of the events that nobody has handled yet:         *)
(* each utterance is one VAD_START, then its other events, and its closing  *)
(* event directly before the next VAD_START.                                *)
(***************************************************************************)
EXTENDS VoiceService, SequenceTheorems, TLAPS

Events == EventTypes \X (0..MaxUtt)
ThreadStates == [pc : {"poll", "clear", "exit"}, id : 0..MaxUtt]

(* Bounds are natural numbers. *)
LEMMA Bounds == MaxUtt \in Nat /\ MaxPrep \in Nat /\ MaxQueue \in Nat
BY ServiceAssumption

(* An event added to the queue is an event. *)
LEMMA EmitType ==
    ASSUME TypeOK, NEW type \in EventTypes, utt' \in 0..MaxUtt, Emit(type)
    PROVE  events' \in Seq(Events)
<1>1. events \in Seq(Events) /\ <<type, utt'>> \in Events
  BY DEF TypeOK, Events
<1> QED BY <1>1 DEF Emit

(* Stopping the siren keeps the types of what it touches. *)
LEMMA StopSirenType ==
    ASSUME TypeOK, StopSiren
    PROVE  /\ mCurrentSirenState' \in {"UNKNOWN", "INITED", "STARTED", "STOPED"}
           /\ utt' \in 0..MaxUtt /\ speaking' \in {"no", "began", "sent"}
           /\ events' \in Seq(Events)
<1>1. CASE mCurrentSirenState = "STARTED" /\ speaking # "no"
  <2>1. EndUtterance("VAD_CANCEL") /\ mCurrentSirenState' = "STOPED"
    BY <1>1 DEF StopSiren, StopStream
  <2>2. utt' \in 0..MaxUtt /\ speaking' = "no" /\ Emit("VAD_CANCEL")
    BY <2>1 DEF EndUtterance, TypeOK
  <2>3. events' \in Seq(Events)
    BY <2>2, EmitType DEF EventTypes
  <2> QED BY <2>1, <2>2, <2>3
<1>2. CASE mCurrentSirenState = "STARTED" /\ speaking = "no"
  BY <1>2 DEF StopSiren, StopStream, siren, TypeOK, Events
<1>3. CASE mCurrentSirenState # "STARTED"
  BY <1>3 DEF StopSiren, siren, TypeOK, Events
<1> QED BY <1>1, <1>2, <1>3

(* The types hold at the start. *)
LEMMA TypesInit == Init => TypeOK
<1> SUFFICES ASSUME Init PROVE TypeOK
  OBVIOUS
<1> USE Bounds
<1>1. /\ session_id \in Utts \cup {-1} /\ utt \in 0..MaxUtt /\ started \in -1..MaxUtt
      /\ stage \in [Utts -> {"none", "open", "ending", "over"}]
  BY DEF Init, Utts
<1>2. /\ events \in Seq(Events) /\ results \in Seq(Utts) /\ threads \in Seq(ThreadStates)
  BY DEF Init
<1> QED BY <1>1, <1>2 DEF Init, TypeOK, Events, ThreadStates

(* The siren's steps. *)
LEMMA TypesSiren ==
    ASSUME TypeOK, SirenStart \/ SirenData \/ SirenCloses
    PROVE  TypeOK'
<1> USE Bounds
<1>1. /\ utt' \in 0..MaxUtt /\ speaking' \in {"no", "began", "sent"}
      /\ events' \in Seq(Events)
      /\ UNCHANGED <<service, session_id, cur, started, threads, speech, cloud>>
  <2>1. CASE SirenStart
    <3>1. utt' \in 0..MaxUtt
      BY <2>1 DEF SirenStart, TypeOK
    <3>2. events' \in Seq(Events)
      BY <2>1, <3>1, EmitType DEF SirenStart, EventTypes
    <3> QED BY <2>1, <3>1, <3>2 DEF SirenStart
  <2>2. CASE SirenData
    <3>1. utt' \in 0..MaxUtt
      BY <2>2 DEF SirenData, TypeOK
    <3>2. events' \in Seq(Events)
      BY <2>2, <3>1, EmitType DEF SirenData, EventTypes
    <3> QED BY <2>2, <3>1, <3>2 DEF SirenData
  <2>3. CASE SirenCloses
    <3>1. PICK t \in {"VAD_END", "VAD_CANCEL"} : SirenClose(t)
      BY <2>3 DEF SirenCloses
    <3>2. utt' \in 0..MaxUtt
      BY <3>1 DEF SirenClose, EndUtterance, TypeOK
    <3>3. events' \in Seq(Events)
      BY <3>1, <3>2, EmitType DEF SirenClose, EndUtterance, EventTypes
    <3> QED BY <3>1, <3>2, <3>3 DEF SirenClose, EndUtterance
  <2> QED BY <2>1, <2>2, <2>3
<1> QED BY <1>1 DEF TypeOK, service, speech, Events

(* The calls of the clients. *)
LEMMA TypesCalls ==
    ASSUME TypeOK, Clients \/ Network
    PROVE  TypeOK'
<1>1. CASE init
  BY <1>1 DEF init, TypeOK, eventThread, speech, siren
<1>2. CASE open_siren
  BY <1>2 DEF open_siren, TypeOK, eventThread, speech, siren
<1>3. CASE close_siren
  <2>1. openSiren' \in BOOLEAN
    BY <1>3, Zenon DEF close_siren, TypeOK
  <2>2. StopSiren
    BY <1>3 DEF close_siren
  <2> QED BY <1>3, <2>1, <2>2, StopSirenType DEF close_siren, TypeOK, speech, Events
<1>4. CASE NetThread
  <2>1. threads' \in Seq(ThreadStates)
    <3>1. Polling \in ThreadStates /\ threads \in Seq(ThreadStates)
      BY Bounds DEF Polling, ThreadStates, TypeOK
    <3>2. threads' = Append(threads, Polling)
      BY <1>4 DEF NetThread, NewThread
    <3> HIDE DEF Polling
    <3> QED BY <3>1, <3>2
  <2> QED BY <1>4, <2>1 DEF NetThread, TypeOK, eventThread, speech, siren, ThreadStates
<1>5. CASE NetStopSiren
  <2>1. StopSiren
    BY <1>5 DEF NetStopSiren
  <2> QED BY <1>5, <2>1, StopSirenType DEF NetStopSiren, TypeOK, speech, Events
<1>6. CASE NetStartSiren
  BY <1>6 DEF NetStartSiren, TypeOK, eventThread, speech, siren
<1>7. CASE NetRelease
  <2>1. stage' \in [Utts -> {"none", "open", "ending", "over"}]
    BY <1>7 DEF NetRelease, TypeOK
  <2>2. results' \in Seq(Utts) /\ up' \in BOOLEAN /\ net' = "released"
    <3>1. results' = <<>> /\ up' = FALSE /\ net' = "released"
      BY <1>7 DEF NetRelease
    <3>2. <<>> \in Seq(Utts)
      BY EmptySeq
    <3> QED BY <3>1, <3>2
  <2> QED BY <1>7, <2>1, <2>2 DEF NetRelease, TypeOK, eventThread, siren
<1>8. CASE NetReleased
  BY <1>8 DEF NetReleased, TypeOK, eventThread, speech, siren
<1>9. CASE NetPrepare
  BY <1>9 DEF NetPrepare, TypeOK, eventThread, siren
<1>10. CASE NetClear \/ NetPrepared
  BY <1>10 DEF NetClear, NetPrepared, TypeOK, eventThread, speech, siren
<1> QED BY <1>1, <1>2, <1>3, <1>4, <1>5, <1>6, <1>7, <1>8, <1>9, <1>10 DEF Clients, Network

(* The event thread. *)
LEMMA TypesEvents ==
    ASSUME TypeOK, onEvent
    PROVE  TypeOK'
<1> USE Bounds
<1>1. CASE PopEvent
  <2>1. events \in Seq(Events) /\ events # <<>>
    BY <1>1 DEF PopEvent, TypeOK, Events
  <2>2. cur' \in Events /\ events' \in Seq(Events)
    BY <1>1, <2>1, HeadTailProperties DEF PopEvent
  <2> QED BY <1>1, <2>2 DEF PopEvent, TypeOK, service, speech, siren, Events
<1>2. CASE vad_start
  <2>1. cur \in EventTypes \X (0..MaxUtt)
    BY <1>2 DEF vad_start, TypeOK, NoEvent
  <2>2. started' \in -1..MaxUtt
    BY <1>2, <2>1 DEF vad_start
  <2>3. stage' \in [Utts -> {"none", "open", "ending", "over"}]
    BY <1>2 DEF vad_start, TypeOK
  <2> QED BY <1>2, <2>2, <2>3 DEF vad_start, TypeOK, service, siren
<1>3. CASE AssignSession
  <2>1. session_id' \in Utts \cup {-1}
    BY <1>3 DEF AssignSession, TypeOK, Utts
  <2>2. started' \in -1..MaxUtt /\ cur' \in {NoEvent} \cup (EventTypes \X (0..MaxUtt))
    BY <1>3 DEF AssignSession
  <2> QED BY <1>3, <2>1, <2>2 DEF AssignSession, TypeOK, service, speech, siren
<1>4. CASE OnLateStart
  BY <1>4 DEF OnLateStart, Handle, TypeOK, service, speech, siren
<1>5. CASE OnVadData
  BY <1>5 DEF OnVadData, Handle, TypeOK, service, speech, siren
<1>6. CASE OnVadEnd
  BY <1>6 DEF OnVadEnd, Handle, AfterUtterance, TypeOK, service, speech, siren
<1>7. CASE OnVadCancel
  <2>1. stage' \in [Utts -> {"none", "open", "ending", "over"}]
    BY <1>7 DEF OnVadCancel, TypeOK
  <2>2. session_id' \in Utts \cup {-1}
    BY <1>7 DEF OnVadCancel, AfterUtterance, TypeOK
  <2> QED BY <1>7, <2>1, <2>2 DEF OnVadCancel, Handle, TypeOK, service, siren
<1> QED BY <1>1, <1>2, <1>3, <1>4, <1>5, <1>6, <1>7 DEF onEvent

(* The speech service and the response threads. *)
LEMMA TypesResponses ==
    ASSUME TypeOK,
           \/ \E i \in Utts : AsrFinish(i) \/ LastResult(i)
           \/ \E r \in DOMAIN threads : onResponse(r)
    PROVE  TypeOK'
<1> USE Bounds
<1>1. ASSUME NEW i \in Utts, AsrFinish(i) \/ LastResult(i) PROVE TypeOK'
  <2>1. PICK to \in {"ending", "over"} :
          /\ stage' = [stage EXCEPT ![i] = to] /\ results' = Append(results, i)
          /\ UNCHANGED <<service, session_id, eventThread, threads, up, siren, cloud>>
    BY <1>1 DEF AsrFinish, LastResult, Respond
  <2>2. results' \in Seq(Utts) /\ stage' \in [Utts -> {"none", "open", "ending", "over"}]
    BY <2>1 DEF TypeOK
  <2> QED BY <2>1, <2>2 DEF TypeOK, service, eventThread, siren
<1>2. ASSUME NEW r \in DOMAIN threads, onResponse(r) PROVE TypeOK'
  <2>1. /\ threads \in Seq(ThreadStates) /\ r \in 1..Len(threads)
        /\ threads[r] \in ThreadStates
    <3>1. threads \in Seq(ThreadStates)
      BY DEF TypeOK, ThreadStates
    <3> QED BY <3>1
  <2>2. CASE Poll(r)
    <3> DEFINE t == [pc |-> "clear", id |-> Head(results)]
    <3>1. Head(results) \in Utts /\ Tail(results) \in Seq(Utts)
      BY <2>2, HeadTailProperties DEF Poll, TypeOK
    <3>2. t \in ThreadStates
      BY <3>1 DEF ThreadStates, Utts
    <3>3. threads' = [threads EXCEPT ![r] = t]
      BY <2>2 DEF Poll
    <3> HIDE DEF t
    <3>4. threads' \in Seq(ThreadStates)
      BY <2>1, <3>2, <3>3, ExceptSeq
    <3> QED BY <2>2, <3>1, <3>4 DEF Poll, TypeOK, service, eventThread, siren, ThreadStates
  <2>3. CASE PollFails(r)
    <3> DEFINE t == [threads[r] EXCEPT !.pc = "exit"]
    <3>1. t \in ThreadStates
      BY <2>1 DEF ThreadStates
    <3>2. threads' = [threads EXCEPT ![r] = t]
      BY <2>3 DEF PollFails
    <3> HIDE DEF t
    <3>3. threads' \in Seq(ThreadStates)
      BY <2>1, <3>1, <3>2, ExceptSeq
    <3> QED BY <2>3, <3>3 DEF PollFails, TypeOK, service, eventThread, speech, siren,
                              ThreadStates
  <2>4. CASE Clear(r)
    <3>1. Polling \in ThreadStates
      BY DEF Polling, ThreadStates
    <3>2. threads' = [threads EXCEPT ![r] = Polling]
      BY <2>4 DEF Clear
    <3>3. threads' \in Seq(ThreadStates)
      BY <2>1, <3>1, <3>2, ExceptSeq
    <3> QED BY <2>4, <3>3 DEF Clear, TypeOK, service, eventThread, speech, siren,
                              ThreadStates
  <2> QED BY <1>2, <2>2, <2>3, <2>4 DEF onResponse
<1> QED BY <1>1, <1>2

(* Every member keeps its type, for every bound.                              *)
THEOREM TypeCorrect == Spec => []TypeOK
<1>1. TypeOK /\ [Next]_vars => TypeOK'
  <2> SUFFICES ASSUME TypeOK, [Next]_vars PROVE TypeOK'
    OBVIOUS
  <2>1. CASE Next
    BY <2>1, TypesSiren, TypesCalls, TypesEvents, TypesResponses DEF Next
  <2>2. CASE UNCHANGED vars
    BY <2>2 DEF vars, service, eventThread, speech, siren, TypeOK
  <2> QED BY <2>1, <2>2
<1> QED BY <1>1, TypesInit, PTL DEF Spec
-----------------------------------------------------------------------------
(* The siren runs only while a client wants it open: neither a reconnection   *)
(* nor a race with start_siren(false) reopens it.                             *)
THEOREM ClosedStaysClosed == Spec => []CloseRespected
<1>1. Init => CloseRespected
  BY DEF Init, CloseRespected
<1>2. TypeOK /\ CloseRespected /\ [Next]_vars => CloseRespected'
  <2> SUFFICES ASSUME TypeOK, CloseRespected, [Next]_vars
               PROVE  mCurrentSirenState' = "STARTED" => openSiren' = TRUE
    BY DEF CloseRespected
  <2> USE DEF CloseRespected
  <2>1. openSiren \in BOOLEAN
    BY DEF TypeOK
  <2>2. CASE open_siren
    BY <2>2 DEF open_siren
  <2>3. CASE close_siren
    BY <2>3 DEF close_siren, StopSiren
  <2>4. CASE NetStartSiren
    BY <2>1, <2>4 DEF NetStartSiren, Reopen
  <2>5. CASE NetStopSiren
    BY <2>1, <2>5 DEF NetStopSiren, StopSiren
  <2>6. CASE init
    BY <2>6 DEF init
  <2>7. CASE NetPrepare \/ NetClear \/ NetPrepared \/ NetThread \/ NetRelease \/ NetReleased
    BY <2>1, <2>7 DEF NetPrepare, NetClear, NetPrepared, NetThread, NetRelease, NetReleased
  <2>8. CASE UNCHANGED service
    BY <2>1, <2>8 DEF service
  <2>9. SirenStart \/ SirenData \/ SirenCloses => UNCHANGED service
    BY DEF SirenStart, SirenData, SirenCloses, SirenClose
  <2>10. onEvent => UNCHANGED service
    BY DEF onEvent, PopEvent, vad_start, AssignSession, OnLateStart, OnVadData,
           OnVadEnd, OnVadCancel
  <2>11. (\E i \in Utts : AsrFinish(i) \/ LastResult(i)) => UNCHANGED service
    BY DEF AsrFinish, LastResult, Respond
  <2>12. (\E r \in DOMAIN threads : onResponse(r)) => UNCHANGED service
    BY DEF onResponse, Poll, PollFails, Clear
  <2>13. UNCHANGED vars => UNCHANGED service
    BY DEF vars
  <2> QED BY <2>2, <2>3, <2>4, <2>5, <2>6, <2>7, <2>8, <2>9, <2>10, <2>11, <2>12, <2>13
          DEF Next, Clients, Network
<1> QED BY <1>1, <1>2, TypeCorrect, PTL DEF Spec

(* While _speech is prepared some onResponse thread polls it, whatever the    *)
(* threads of earlier connections do, or one is about to be created.          *)
THEOREM SomeoneReads == Spec => []ResultsAreRead
<1>1. Init => ResultsAreRead
  BY DEF Init, ResultsAreRead
<1>2. TypeOK /\ ResultsAreRead /\ [Next]_vars => ResultsAreRead'
  <2> SUFFICES ASSUME TypeOK, ResultsAreRead, [Next]_vars, up'
               PROVE  \/ net' \in {"clear", "cleared", "thread"}
                      \/ \E r \in DOMAIN threads' : threads'[r].pc # "exit"
    BY DEF ResultsAreRead
  <2>1. threads \in Seq(ThreadStates) /\ up \in BOOLEAN
    BY DEF TypeOK, ThreadStates
  <2>2. CASE NetThread
    <3> DEFINE l == Len(threads) + 1
    <3>1. threads' = Append(threads, Polling)
      BY <2>2 DEF NetThread, NewThread
    <3>2. Polling \in ThreadStates /\ Polling.pc = "poll"
      BY Bounds DEF Polling, ThreadStates
    <3>3. l \in DOMAIN threads' /\ threads'[l] = Polling
      <4> HIDE DEF Polling
      <4> QED BY <2>1, <3>1, <3>2
    <3> QED BY <3>2, <3>3
  <2>3. CASE NetRelease
    BY <2>3 DEF NetRelease
  <2>4. ASSUME NEW r \in DOMAIN threads, onResponse(r)
        PROVE  \E q \in DOMAIN threads' : threads'[q].pc # "exit"
    <3>0. DOMAIN threads = 1..Len(threads) /\ threads[r] \in ThreadStates
      BY <2>1, <2>4
    <3>1. CASE PollFails(r)
      BY <3>1, <2>1 DEF PollFails, speech
    <3>2. CASE Poll(r)
      <4>1. DOMAIN threads' = DOMAIN threads /\ threads'[r].pc = "clear"
        BY <3>2 DEF Poll
      <4> QED BY <4>1
    <3>3. CASE Clear(r)
      <4>1. DOMAIN threads' = DOMAIN threads /\ threads'[r].pc = "poll"
        BY <3>3 DEF Clear, Polling
      <4> QED BY <4>1
    <3> QED BY <2>4, <3>1, <3>2, <3>3 DEF onResponse
  <2>5. CASE UNCHANGED <<threads, up>> /\ net \notin {"clear", "cleared", "thread"}
    BY <2>5 DEF ResultsAreRead
  <2>11. CASE UNCHANGED <<threads, up, net>>
    BY <2>11 DEF ResultsAreRead
  <2>12. NetPrepare \/ NetClear \/ NetPrepared => net' \in {"clear", "cleared", "thread"}
    BY DEF NetPrepare, NetClear, NetPrepared
  <2>6. SirenStart \/ SirenData \/ SirenCloses => UNCHANGED <<threads, up, net>>
    BY DEF SirenStart, SirenData, SirenCloses, SirenClose, speech, service
  <2>7. onEvent => UNCHANGED <<threads, up, net>>
    BY DEF onEvent, PopEvent, vad_start, AssignSession, OnLateStart, OnVadData,
           OnVadEnd, OnVadCancel, speech, service
  <2>8. (\E i \in Utts : AsrFinish(i) \/ LastResult(i)) => UNCHANGED <<threads, up, net>>
    BY DEF AsrFinish, LastResult, Respond, service
  <2>9. init \/ open_siren \/ close_siren => UNCHANGED <<threads, up, net>>
    BY DEF init, open_siren, close_siren, speech
  <2>13. NetStartSiren \/ NetStopSiren \/ NetReleased
          => UNCHANGED <<threads, up>> /\ net \notin {"clear", "cleared", "thread"}
    BY DEF NetStartSiren, NetStopSiren, NetReleased, speech
  <2>10. UNCHANGED vars => UNCHANGED <<threads, up, net>>
    BY DEF vars, speech, service
  <2> QED BY <2>2, <2>3, <2>4, <2>5, <2>6, <2>7, <2>8, <2>9, <2>10, <2>11, <2>12,
             <2>13 DEF Next, Clients, Network
<1> QED BY <1>1, <1>2, TypeCorrect, PTL DEF Spec
-----------------------------------------------------------------------------
(* The order of the events.                                                   *)

Closing(e) == e[1] \in {"VAD_END", "VAD_CANCEL"}

(* Event b comes directly after event a. *)
Link(a, b) ==
    /\ b[1] = "VAD_START" <=> Closing(a)
    /\ b[1] # "VAD_START" => b[2] = a[2]

(* Event a is the last one the siren sent. *)
Tip(a, u, sp) == a[2] = u /\ (Closing(a) <=> sp = "no")

(* Event a is of the utterance of session i, and does not begin one. *)
Owned(a, i) == a[1] # "VAD_START" /\ a[2] = i

Ordered ==
    /\ \A k \in 1..(Len(events) - 1) : Link(events[k], events[k + 1])
    /\ cur # NoEvent /\ events # <<>> => Link(cur, events[1])
    /\ events # <<>> => Tip(events[Len(events)], utt, speaking)
    /\ events = <<>> /\ cur # NoEvent => Tip(cur, utt, speaking)
    /\ started # 0 => cur[1] = "VAD_START" /\ started \in {-1, cur[2]}

(* With local detection an open session is that of the first event that is    *)
(* still to be handled, or of what the siren is recording.                    *)
SessionOfUtterance ==
    ~cloud /\ session_id # -1 =>
        /\ cur # NoEvent => Owned(cur, session_id)
        /\ cur = NoEvent /\ events # <<>> => Owned(events[1], session_id)
        /\ cur = NoEvent /\ events = <<>> => speaking # "no" /\ utt = session_id

EventInv == Ordered /\ SessionOfUtterance

(* The siren sends e after everything else. *)
LEMMA SendKeepsOrder ==
    ASSUME TypeOK, EventInv, NEW type \in EventTypes, Emit(type),
           utt' \in 0..MaxUtt,
           UNCHANGED <<cur, started, session_id, cloud>>,
           type = "VAD_START" <=> speaking = "no",
           type # "VAD_START" => utt' = utt,
           type \in {"VAD_END", "VAD_CANCEL"} <=> speaking' = "no"
    PROVE  EventInv'
<1> DEFINE e == <<type, utt'>>
           l == Len(events)
<1>1. events \in Seq(Events) /\ e \in Events /\ events' = Append(events, e)
  BY DEF TypeOK, Events, Emit
<1>2. e[1] = type /\ e[2] = utt'
  OBVIOUS
<1> HIDE DEF e
<1>3. /\ l \in Nat /\ Len(events') = l + 1 /\ events'[l + 1] = e /\ events' # <<>>
      /\ \A k \in 1..l : events'[k] = events[k]
      /\ events = <<>> <=> l = 0
  BY <1>1
<1>4. Tip(e, utt', speaking')
  BY <1>2 DEF Tip, Closing
<1>5. ASSUME NEW a, Tip(a, utt, speaking) PROVE Link(a, e)
  BY <1>2, <1>5 DEF Tip, Link, Closing
<1>6. Ordered'
  <2>1. ASSUME NEW k \in 1..(Len(events') - 1) PROVE Link(events'[k], events'[k + 1])
    <3>1. k \in 1..l
      BY <1>3
    <3>2. CASE k = l
      <4>1. events # <<>> /\ events'[k] = events[l] /\ events'[k + 1] = e
        BY <1>3, <3>1, <3>2
      <4>2. Tip(events[l], utt, speaking)
        BY <4>1 DEF EventInv, Ordered
      <4> QED BY <4>1, <4>2, <1>5
    <3>3. CASE k # l
      <4>1. k \in 1..(l - 1) /\ k + 1 \in 1..l
        BY <1>3, <3>1, <3>3
      <4>2. Link(events[k], events[k + 1])
        BY <4>1 DEF EventInv, Ordered
      <4> QED BY <1>3, <3>1, <4>1, <4>2
    <3> QED BY <3>2, <3>3
  <2>2. cur # NoEvent => Link(cur, events'[1])
    <3>1. CASE events = <<>>
      <4>1. events'[1] = e
        BY <1>3, <3>1
      <4>2. cur # NoEvent => Tip(cur, utt, speaking)
        BY <3>1 DEF EventInv, Ordered
      <4> QED BY <4>1, <4>2, <1>5
    <3>2. CASE events # <<>>
      <4>1. events'[1] = events[1]
        BY <1>3, <3>2
      <4> QED BY <4>1, <3>2 DEF EventInv, Ordered
    <3> QED BY <3>1, <3>2
  <2>3. Tip(events'[Len(events')], utt', speaking')
    BY <1>3, <1>4
  <2>4. started' # 0 => cur'[1] = "VAD_START" /\ started' \in {-1, cur'[2]}
    BY DEF EventInv, Ordered
  <2> QED BY <2>1, <2>2, <2>3, <2>4, <1>3 DEF Ordered
<1>7. SessionOfUtterance'
  <2> SUFFICES ASSUME ~cloud, session_id # -1
               PROVE  /\ cur # NoEvent => Owned(cur, session_id)
                      /\ cur = NoEvent => Owned(events'[1], session_id)
    BY <1>3 DEF SessionOfUtterance
  <2>1. CASE events = <<>>
    <3>1. events'[1] = e
      BY <1>3, <2>1
    <3>2. cur = NoEvent => speaking # "no" /\ utt = session_id
      BY <2>1 DEF EventInv, SessionOfUtterance
    <3> QED BY <1>2, <3>1, <3>2 DEF EventInv, SessionOfUtterance, Owned
  <2>2. CASE events # <<>>
    <3>1. events'[1] = events[1]
      BY <1>3, <2>2
    <3> QED BY <2>2, <3>1 DEF EventInv, SessionOfUtterance
  <2> QED BY <2>1, <2>2
<1> QED BY <1>6, <1>7 DEF EventInv

(* The handled event makes room for the next one. *)
LEMMA HandledKeepsOrder ==
    ASSUME TypeOK, EventInv, cur # NoEvent, cur' = NoEvent, started' = 0,
           UNCHANGED <<events, siren, cloud>>,
           session_id' = -1 \/ cloud \/ (~Closing(cur) /\ session_id' = cur[2])
    PROVE  EventInv'
<1>1. Ordered'
  BY DEF EventInv, Ordered, siren
<1>2. SessionOfUtterance'
  <2> SUFFICES ASSUME ~cloud, session_id' # -1
               PROVE  /\ events # <<>> => Owned(events[1], session_id')
                      /\ events = <<>> => speaking # "no" /\ utt = session_id'
    BY DEF SessionOfUtterance, siren
  <2>1. ~Closing(cur) /\ session_id' = cur[2]
    OBVIOUS
  <2>2. events # <<>> => Link(cur, events[1])
    BY DEF EventInv, Ordered
  <2>3. events = <<>> => Tip(cur, utt, speaking)
    BY DEF EventInv, Ordered
  <2> QED BY <2>1, <2>2, <2>3 DEF Link, Tip, Owned
<1> QED BY <1>1, <1>2 DEF EventInv

(* Nothing happens to the events, and no session is opened. *)
LEMMA OthersKeepOrder ==
    ASSUME EventInv, UNCHANGED <<events, cur, started, siren, cloud>>,
           session_id' \in {session_id, -1}
    PROVE  EventInv'
<1>1. Ordered'
  BY DEF EventInv, Ordered, siren
<1>2. SessionOfUtterance'
  BY DEF EventInv, SessionOfUtterance, siren
<1> QED BY <1>1, <1>2 DEF EventInv

(* A siren that is stopped closes its utterance. *)
LEMMA StopKeepsOrder ==
    ASSUME TypeOK, EventInv, StopSiren, UNCHANGED <<cur, started, session_id, cloud>>
    PROVE  EventInv'
<1>1. CASE mCurrentSirenState = "STARTED" /\ speaking # "no"
  <2>1. EndUtterance("VAD_CANCEL")
    BY <1>1 DEF StopSiren, StopStream
  <2>2. utt' = utt /\ utt \in 0..MaxUtt /\ speaking' = "no" /\ Emit("VAD_CANCEL")
    BY <2>1 DEF EndUtterance, TypeOK
  <2>3. "VAD_CANCEL" \in EventTypes
    BY DEF EventTypes
  <2> QED BY <1>1, <2>2, <2>3, SendKeepsOrder
<1>2. CASE ~(mCurrentSirenState = "STARTED" /\ speaking # "no")
  <2>1. UNCHANGED <<events, siren>>
    BY <1>2 DEF StopSiren, StopStream
  <2> QED BY <2>1, OthersKeepOrder
<1> QED BY <1>1, <1>2

(* The order survives every step. *)
LEMMA OrderInvariant == Spec => []EventInv
<1>1. Init => EventInv
  <2> SUFFICES ASSUME Init PROVE EventInv
    OBVIOUS
  <2>1. events = <<>> /\ cur = NoEvent /\ started = 0 /\ session_id = -1 /\ Len(events) = 0
    BY DEF Init
  <2> QED BY <2>1 DEF EventInv, Ordered, SessionOfUtterance
<1>2. TypeOK /\ EventInv /\ [Next]_vars => EventInv'
  <2> SUFFICES ASSUME TypeOK, EventInv, [Next]_vars PROVE EventInv'
    OBVIOUS
  <2>1. CASE SirenStart
    <3>1. /\ speaking = "no" /\ utt' \in 0..MaxUtt /\ speaking' = "began"
          /\ Emit("VAD_START") /\ UNCHANGED <<cur, started, session_id, cloud>>
      BY <2>1, Bounds DEF SirenStart, TypeOK
    <3>2. "VAD_START" \in EventTypes
      BY DEF EventTypes
    <3> QED BY <3>1, <3>2, SendKeepsOrder
  <2>2. CASE SirenData
    <3>1. /\ speaking = "began" /\ utt' = utt /\ utt \in 0..MaxUtt /\ speaking' = "sent"
          /\ Emit("VAD_DATA") /\ UNCHANGED <<cur, started, session_id, cloud>>
      BY <2>2 DEF SirenData, TypeOK
    <3>2. "VAD_DATA" \in EventTypes
      BY DEF EventTypes
    <3> QED BY <3>1, <3>2, SendKeepsOrder
  <2>3. CASE SirenCloses
    <3>1. PICK t \in {"VAD_END", "VAD_CANCEL"} : SirenClose(t)
      BY <2>3 DEF SirenCloses
    <3>2. /\ speaking = "sent" /\ utt' = utt /\ utt \in 0..MaxUtt /\ speaking' = "no"
          /\ Emit(t) /\ UNCHANGED <<cur, started, session_id, cloud>>
      BY <3>1 DEF SirenClose, EndUtterance, TypeOK
    <3>3. t \in EventTypes /\ t # "VAD_START"
      BY DEF EventTypes
    <3> QED BY <3>2, <3>3, SendKeepsOrder
  <2>4. CASE close_siren \/ NetStopSiren
    BY <2>4, StopKeepsOrder DEF close_siren, NetStopSiren
  <2>5. CASE PopEvent
    <3> DEFINE l == Len(events)
    <3>1. /\ cur = NoEvent /\ events # <<>> /\ cur' = events[1] /\ events' = Tail(events)
          /\ UNCHANGED <<started, session_id, siren, cloud>>
      BY <2>5 DEF PopEvent
    <3>2. events \in Seq(Events)
      BY DEF TypeOK, Events
    <3>a. Len(events') = l - 1 /\ events' \in Seq(Events)
      BY <3>1, <3>2, HeadTailProperties
    <3>b. \A k \in 1..(l - 1) : events'[k] = events[k + 1]
      BY <3>1, <3>2, HeadTailProperties
    <3>c. l \in Nat /\ l # 0
      BY <3>1, <3>2, EmptySeq
    <3>d. events' = <<>> <=> Len(events') = 0
      BY <3>a, EmptySeq
    <3>3. /\ l \in Nat \ {0} /\ Len(events') = l - 1
          /\ \A k \in 1..(l - 1) : events'[k] = events[k + 1]
          /\ events' = <<>> <=> l = 1
      <4> HIDE DEF l
      <4>1. l \in Nat \ {0} /\ (l - 1 = 0 <=> l = 1)
        BY <3>c
      <4> QED BY <4>1, <3>a, <3>b, <3>d
    <3>4. started = 0
      BY <3>1 DEF EventInv, Ordered, NoEvent
    <3>5. Ordered'
      <4>1. ASSUME NEW k \in 1..(Len(events') - 1) PROVE Link(events'[k], events'[k + 1])
        <5>1. k + 1 \in 1..(l - 1) /\ k \in 1..(l - 1)
          BY <3>3
        <5>2. Link(events[k + 1], events[k + 1 + 1])
          BY <5>1 DEF EventInv, Ordered
        <5> QED BY <5>1, <5>2, <3>3
      <4>2. events' # <<>> => Link(cur', events'[1])
        <5> SUFFICES ASSUME events' # <<>> PROVE Link(events[1], events'[1])
          BY <3>1
        <5>1. 1 \in 1..(l - 1) /\ events'[1] = events[1 + 1]
          BY <3>3
        <5>2. Link(events[1], events[1 + 1])
          BY <5>1 DEF EventInv, Ordered
        <5> QED BY <5>1, <5>2
      <4>3. Tip(events[l], utt, speaking)
        BY <3>1 DEF EventInv, Ordered
      <4>4. events' # <<>> => Tip(events'[Len(events')], utt', speaking')
        <5> SUFFICES ASSUME events' # <<>> PROVE events'[Len(events')] = events[l]
          BY <4>3, <3>1 DEF siren
        <5>1. l - 1 \in 1..(l - 1) /\ l - 1 + 1 = l
          BY <3>3
        <5> QED BY <3>3, <5>1
      <4>5. events' = <<>> => Tip(cur', utt', speaking')
        BY <3>1, <3>3, <4>3 DEF siren
      <4> QED BY <3>1, <3>4, <4>1, <4>2, <4>4, <4>5 DEF Ordered
    <3>6. SessionOfUtterance'
      <4>0. cur' # NoEvent
        <5>1. events[1] \in Events
          BY <3>1, <3>2
        <5> QED BY <3>1, <5>1 DEF NoEvent, Events, EventTypes
      <4> QED BY <3>1, <4>0 DEF EventInv, SessionOfUtterance
    <3> QED BY <3>5, <3>6 DEF EventInv
  <2>6. CASE vad_start
    <3>1. /\ cur[1] = "VAD_START" /\ session_id = -1 /\ started' \in {-1, cur[2]}
          /\ UNCHANGED <<events, cur, session_id, siren, cloud>>
      BY <2>6 DEF vad_start
    <3>2. Ordered'
      BY <3>1 DEF EventInv, Ordered, siren
    <3>3. SessionOfUtterance'
      BY <3>1 DEF SessionOfUtterance
    <3> QED BY <3>2, <3>3 DEF EventInv
  <2>7. CASE AssignSession
    <3>1. /\ cur[1] = "VAD_START" /\ started \in {-1, cur[2]}
      BY <2>7 DEF AssignSession, EventInv, Ordered
    <3>2. ~Closing(cur) /\ cur # NoEvent
      BY <3>1 DEF Closing, NoEvent
    <3>3. session_id' = started /\ started' = 0 /\ cur' = NoEvent
          /\ UNCHANGED <<events, siren, cloud>>
      BY <2>7 DEF AssignSession
    <3> QED BY <3>1, <3>2, <3>3, HandledKeepsOrder
  <2>8. CASE OnLateStart \/ OnVadData
    <3>1. /\ cur[1] \in {"VAD_START", "VAD_DATA"} /\ cur' = NoEvent
          /\ UNCHANGED <<events, started, session_id, siren, cloud>>
      BY <2>8 DEF OnLateStart, OnVadData, Handle
    <3>2. ~Closing(cur) /\ cur # NoEvent
      BY <3>1 DEF Closing, NoEvent
    <3>3. started = 0
      BY <2>8 DEF OnLateStart, OnVadData, Handle, EventInv, Ordered
    <3>4. session_id = -1 \/ cloud \/ session_id = cur[2]
      BY <3>2 DEF EventInv, SessionOfUtterance, Owned
    <3> QED BY <3>1, <3>2, <3>3, <3>4, HandledKeepsOrder
  <2>9. CASE OnVadEnd \/ OnVadCancel
    <3>1. /\ cur[1] \in {"VAD_END", "VAD_CANCEL"} /\ cur' = NoEvent
          /\ session_id' = AfterUtterance
          /\ UNCHANGED <<events, started, siren, cloud>>
      BY <2>9 DEF OnVadEnd, OnVadCancel, Handle
    <3>2. cur # NoEvent /\ started = 0
      BY <3>1 DEF NoEvent, EventInv, Ordered
    <3>3. session_id' = -1 \/ cloud
      BY <3>1 DEF AfterUtterance
    <3> QED BY <3>1, <3>2, <3>3, HandledKeepsOrder
  <2>10. CASE init \/ open_siren \/ NetPrepare \/ Network
    <3>1. /\ UNCHANGED <<events, cur, started, siren, cloud>>
          /\ session_id' \in {session_id, -1}
      BY <2>10 DEF init, open_siren, NetPrepare, Network, NetClear, NetPrepared,
                   NetThread, NetStartSiren, NetRelease, NetReleased, eventThread
    <3> QED BY <3>1, OthersKeepOrder
  <2>11. CASE \E i \in Utts : AsrFinish(i) \/ LastResult(i)
    <3>1. /\ UNCHANGED <<events, cur, started, siren, cloud>>
          /\ session_id' \in {session_id, -1}
      BY <2>11 DEF AsrFinish, LastResult, Respond, eventThread
    <3> QED BY <3>1, OthersKeepOrder
  <2>12. CASE \E r \in DOMAIN threads : onResponse(r)
    <3>1. /\ UNCHANGED <<events, cur, started, siren, cloud>>
          /\ session_id' \in {session_id, -1}
      BY <2>12 DEF onResponse, Poll, PollFails, Clear, eventThread
    <3> QED BY <3>1, OthersKeepOrder
  <2>13. CASE UNCHANGED vars
    <3>1. /\ UNCHANGED <<events, cur, started, siren, cloud>>
          /\ session_id' \in {session_id, -1}
      BY <2>13 DEF vars, eventThread
    <3> QED BY <3>1, OthersKeepOrder
  <2> QED BY <2>1, <2>2, <2>3, <2>4, <2>5, <2>6, <2>7, <2>8, <2>9, <2>10, <2>11,
             <2>12, <2>13 DEF Next, Clients, onEvent
<1> QED BY <1>1, <1>2, TypeCorrect, PTL DEF Spec

(* put_voice never sends the audio of one utterance to the session of another *)
(* when the siren detects the ends, for every number of utterances.           *)
THEOREM AudioGoesToItsSession == Spec => []AudioToItsSession
<1>1. EventInv => AudioToItsSession
  BY DEF EventInv, SessionOfUtterance, Owned, AudioToItsSession, NoEvent
<1> QED BY <1>1, OrderInvariant, PTL

(* No session is open while the one that vad_start began is not assigned yet. *)
NoneOpen == started # 0 => session_id = -1

(* Every step preserves it.                                                   *)
LEMMA NoneOpenInvariant == Spec => []NoneOpen
<1>1. Init => NoneOpen
  BY DEF Init, NoneOpen
<1>2. EventInv /\ NoneOpen /\ [Next]_vars => NoneOpen'
  <2> SUFFICES ASSUME EventInv, NoneOpen, [Next]_vars PROVE NoneOpen'
    OBVIOUS
  <2>1. CASE UNCHANGED started /\ session_id' \in {session_id, -1}
    BY <2>1 DEF NoneOpen
  <2>2. CASE vad_start \/ AssignSession
    BY <2>2 DEF vad_start, AssignSession, NoneOpen
  <2>3. SirenStart \/ SirenData \/ SirenCloses => UNCHANGED <<started, session_id>>
    BY DEF SirenStart, SirenData, SirenCloses, SirenClose
  <2>4. PopEvent \/ OnLateStart \/ OnVadData \/ OnVadEnd \/ OnVadCancel
          => UNCHANGED started /\ session_id' \in {session_id, -1}
    BY DEF PopEvent, OnLateStart, OnVadData, OnVadEnd, OnVadCancel, Handle,
           AfterUtterance
  <2>5. Clients \/ Network => UNCHANGED started /\ session_id' \in {session_id, -1}
    BY DEF Clients, Network, init, open_siren, close_siren, NetPrepare, NetClear,
           NetPrepared, NetThread, NetStartSiren, NetStopSiren, NetRelease,
           NetReleased, eventThread
  <2>6. (\E i \in Utts : AsrFinish(i) \/ LastResult(i)) => UNCHANGED <<started, session_id>>
    BY DEF AsrFinish, LastResult, Respond, eventThread
  <2>7. (\E r \in DOMAIN threads : onResponse(r))
          => UNCHANGED started /\ session_id' \in {session_id, -1}
    BY DEF onResponse, Poll, PollFails, Clear, eventThread
  <2>8. UNCHANGED vars => UNCHANGED <<started, session_id>>
    BY DEF vars, eventThread
  <2> QED BY <2>1, <2>2, <2>3, <2>4, <2>5, <2>6, <2>7, <2>8 DEF Next, onEvent
<1> QED BY <1>1, <1>2, OrderInvariant, PTL DEF Spec

(* Who may close the session i. *)
ByResult(i) ==
    \E r \in DOMAIN threads :
        threads[r] = [pc |-> "clear", id |-> i] /\ threads'[r].pc = "poll"
ByUtterance(i) == ~cloud /\ cur \in {<<"VAD_END", i>>, <<"VAD_CANCEL", i>>}
ByConnection == net = "clear" /\ net' = "cleared"
OwnClose ==
    \A i \in Utts : session_id = i /\ session_id' # i =>
        ByResult(i) \/ ByUtterance(i) \/ ByConnection

(* A step that closes a session is one of those.                              *)
LEMMA ClosingStep ==
    ASSUME TypeOK, EventInv, NoneOpen, [Next]_vars PROVE OwnClose
<1> SUFFICES ASSUME NEW i \in Utts, session_id = i, session_id' # i
             PROVE  ByResult(i) \/ ByUtterance(i) \/ ByConnection
  BY DEF OwnClose
<1>0. i # -1 /\ session_id' # session_id
  BY Bounds DEF Utts
<1>1. CASE NetClear
  BY <1>1 DEF NetClear, ByConnection
<1>2. CASE AssignSession
  BY <1>0, <1>2 DEF AssignSession, NoneOpen
<1>3. CASE OnVadEnd \/ OnVadCancel
  <2>1. cur[1] \in {"VAD_END", "VAD_CANCEL"} /\ session_id' = AfterUtterance
    BY <1>3 DEF OnVadEnd, OnVadCancel, Handle
  <2>2. ~cloud /\ cur # NoEvent
    BY <1>0, <2>1 DEF AfterUtterance, NoEvent
  <2>3. cur[2] = i
    BY <1>0, <2>2 DEF EventInv, SessionOfUtterance, Owned
  <2>4. cur \in EventTypes \X (0..MaxUtt)
    BY <2>2 DEF TypeOK
  <2>5. cur = <<cur[1], cur[2]>>
    BY <2>4
  <2> QED BY <2>1, <2>2, <2>3, <2>5 DEF ByUtterance
<1>4. ASSUME NEW r \in DOMAIN threads, onResponse(r) PROVE ByResult(i)
  <2>1. Clear(r)
    BY <1>0, <1>4 DEF onResponse, Poll, PollFails
  <2>2. threads[r].pc = "clear" /\ threads[r].id = i /\ threads' = [threads EXCEPT ![r] = Polling]
    BY <1>0, <2>1 DEF Clear, ClearsSession
  <2>3. threads \in Seq(ThreadStates)
    BY DEF TypeOK, ThreadStates
  <2>4. threads[r] \in ThreadStates
    BY <2>3
  <2>5. threads[r] = [pc |-> "clear", id |-> i]
    BY <2>2, <2>4 DEF ThreadStates
  <2>6. threads'[r].pc = "poll"
    BY <2>2 DEF Polling
  <2> QED BY <2>5, <2>6 DEF ByResult
<1>5. SirenStart \/ SirenData \/ SirenCloses => UNCHANGED session_id
  BY DEF SirenStart, SirenData, SirenCloses, SirenClose
<1>6. PopEvent \/ vad_start \/ OnLateStart \/ OnVadData => UNCHANGED session_id
  BY DEF PopEvent, vad_start, OnLateStart, OnVadData
<1>7. Clients \/ NetPrepared \/ NetThread \/ NetStartSiren \/ NetRelease \/ NetReleased
        => UNCHANGED session_id
  BY DEF Clients, init, open_siren, close_siren, NetPrepare, NetStopSiren, NetPrepared,
         NetThread, NetStartSiren, NetRelease, NetReleased
<1>8. (\E j \in Utts : AsrFinish(j) \/ LastResult(j)) => UNCHANGED session_id
  BY DEF AsrFinish, LastResult, Respond
<1>9. UNCHANGED vars => UNCHANGED session_id
  BY DEF vars
<1> QED BY <1>0, <1>1, <1>2, <1>3, <1>4, <1>5, <1>6, <1>7, <1>8, <1>9
        DEF Next, Network, onEvent

(* An open session is closed only by a result about it, by the end of its own *)
(* utterance or by a new connection: never by a late result of another        *)
(* session, the end of another utterance or a session that replaces it.       *)
THEOREM SessionsCloseThemselves == Spec => ClosedByItsOwn
<1> DEFINE Own ==
      \A i \in Utts : session_id = i /\ session_id' # i =>
         \/ \E r \in DOMAIN threads :
               threads[r] = [pc |-> "clear", id |-> i] /\ threads'[r].pc = "poll"
         \/ ~cloud /\ cur \in {<<"VAD_END", i>>, <<"VAD_CANCEL", i>>}
         \/ net = "clear" /\ net' = "cleared"
<1>1. OwnClose => Own
  BY DEF OwnClose, ByResult, ByUtterance, ByConnection
<1>2. TypeOK /\ EventInv /\ NoneOpen /\ [Next]_vars => [Own]_vars
  BY <1>1, ClosingStep
<1> QED BY <1>2, TypeCorrect, OrderInvariant, NoneOpenInvariant, PTL DEF Spec, ClosedByItsOwn
-----------------------------------------------------------------------------
(* What ends a session: the closing event of its utterance, or a result.      *)

(* The closing event of utterance id is in the queue es behind place k, or    *)
(* the siren still records it: it is the utterance u, and speaking is sp.     *)
CloserAhead(es, u, sp, k, id) ==
    \/ sp # "no" /\ u = id
    \/ \E j \in (k + 1)..Len(es) : Closing(es[j]) /\ es[j][2] = id

(* No utterance in the queue lacks its end. *)
ClosersInv ==
    /\ \A k \in 1..Len(events) :
          Closing(events[k]) \/ CloserAhead(events, utt, speaking, k, events[k][2])
    /\ cur # NoEvent =>
          Closing(cur) \/ CloserAhead(events, utt, speaking, 0, cur[2])

(* With local detection an open session always has the event that closes it   *)
(* before it: in the event thread's hands, in the queue, or still to be sent  *)
(* when the siren stops recording its utterance.                              *)
ClosingEventPending ==
    ~cloud /\ session_id # -1 =>
        \/ Closing(cur) /\ cur[2] = session_id
        \/ CloserAhead(events, utt, speaking, 0, session_id)

(* The siren's events come last, and an utterance that ends is closed by the  *)
(* event that says so.                                                        *)
LEMMA SendKeepsClosers ==
    ASSUME TypeOK, ClosersInv, NEW type \in EventTypes, Emit(type),
           utt' \in 0..MaxUtt, UNCHANGED cur,
           type = "VAD_START" <=> speaking = "no",
           type # "VAD_START" => utt' = utt,
           type \in {"VAD_END", "VAD_CANCEL"} <=> speaking' = "no"
    PROVE  ClosersInv'
<1> DEFINE e == <<type, utt'>>
           l == Len(events)
<1>1. events \in Seq(Events) /\ e \in Events /\ events' = Append(events, e)
  BY DEF TypeOK, Events, Emit
<1>2. e[1] = type /\ e[2] = utt'
  OBVIOUS
<1> HIDE DEF e
<1>3. /\ l \in Nat /\ Len(events') = l + 1 /\ events'[l + 1] = e
      /\ \A k \in 1..l : events'[k] = events[k]
  BY <1>1
<1>4. Closing(e) \/ (speaking' # "no" /\ utt' = e[2])
  BY <1>2 DEF Closing
<1> HIDE DEF l
<1>5. ASSUME NEW id, NEW k \in 0..l, CloserAhead(events, utt, speaking, k, id)
      PROVE  CloserAhead(events', utt', speaking', k, id)
  <2>1. CASE speaking # "no" /\ utt = id
    <3>1. utt' = id /\ e[2] = id
      BY <1>2, <2>1
    <3>2. l + 1 \in (k + 1)..Len(events')
      BY <1>3
    <3> QED BY <1>3, <1>4, <3>1, <3>2 DEF CloserAhead
  <2>2. CASE \E j \in (k + 1)..Len(events) : Closing(events[j]) /\ events[j][2] = id
    <3>1. PICK j \in (k + 1)..Len(events) : Closing(events[j]) /\ events[j][2] = id
      BY <2>2
    <3>2. j \in (k + 1)..Len(events') /\ events'[j] = events[j]
      BY <1>3 DEF l
    <3> QED BY <3>1, <3>2 DEF CloserAhead
  <2> QED BY <1>5, <2>1, <2>2 DEF CloserAhead
<1>6. ASSUME NEW k \in 1..Len(events')
      PROVE  \/ Closing(events'[k])
             \/ CloserAhead(events', utt', speaking', k, events'[k][2])
  <2>1. CASE k = l + 1
    BY <1>3, <1>4, <2>1 DEF CloserAhead
  <2>2. CASE k # l + 1
    <3>1. k \in 1..l /\ k \in 0..l /\ events'[k] = events[k]
      BY <1>3, <2>2
    <3>2. Closing(events[k]) \/ CloserAhead(events, utt, speaking, k, events[k][2])
      BY <3>1 DEF ClosersInv, l
    <3> QED BY <3>1, <3>2, <1>5
  <2> QED BY <2>1, <2>2
<1>7. cur # NoEvent => Closing(cur) \/ CloserAhead(events', utt', speaking', 0, cur[2])
  <2>1. 0 \in 0..l
    BY <1>3
  <2> QED BY <2>1, <1>5 DEF ClosersInv
<1> QED BY <1>6, <1>7 DEF ClosersInv

(* A siren that is stopped sends the closing event of what it cut off. *)
LEMMA StopKeepsClosers ==
    ASSUME TypeOK, ClosersInv, StopSiren, UNCHANGED cur
    PROVE  ClosersInv'
<1>1. CASE mCurrentSirenState = "STARTED" /\ speaking # "no"
  <2>1. EndUtterance("VAD_CANCEL")
    BY <1>1 DEF StopSiren, StopStream
  <2>2. utt' = utt /\ utt \in 0..MaxUtt /\ speaking' = "no" /\ Emit("VAD_CANCEL")
    BY <2>1 DEF EndUtterance, TypeOK
  <2>3. "VAD_CANCEL" \in EventTypes
    BY DEF EventTypes
  <2> QED BY <1>1, <2>2, <2>3, SendKeepsClosers
<1>2. CASE ~(mCurrentSirenState = "STARTED" /\ speaking # "no")
  <2>1. UNCHANGED <<events, siren>>
    BY <1>2 DEF StopSiren, StopStream
  <2> QED BY <2>1 DEF ClosersInv, siren
<1> QED BY <1>1, <1>2

(* The event thread takes the first event: what was behind it still is. *)
LEMMA PopKeepsClosers ==
    ASSUME TypeOK, ClosersInv, PopEvent
    PROVE  ClosersInv'
<1> DEFINE l == Len(events)
<1>1. /\ events # <<>> /\ cur' = events[1] /\ events' = Tail(events)
      /\ UNCHANGED <<utt, speaking>>
  BY DEF PopEvent, siren
<1>2. events \in Seq(Events)
  BY DEF TypeOK, Events
<1>3. l \in Nat /\ l # 0
  BY <1>1, <1>2, EmptySeq
<1>4. Len(events') = l - 1 /\ \A k \in 1..(l - 1) : events'[k] = events[k + 1]
  BY <1>1, <1>2, HeadTailProperties
<1> HIDE DEF l
<1>5. ASSUME NEW id, NEW k \in 1..l, CloserAhead(events, utt, speaking, k, id)
      PROVE  CloserAhead(events', utt', speaking', k - 1, id)
  <2>1. CASE speaking # "no" /\ utt = id
    BY <1>1, <2>1 DEF CloserAhead
  <2>2. CASE \E j \in (k + 1)..Len(events) : Closing(events[j]) /\ events[j][2] = id
    <3>1. PICK j \in (k + 1)..Len(events) : Closing(events[j]) /\ events[j][2] = id
      BY <2>2
    <3>2. j - 1 \in 1..(l - 1) /\ j - 1 \in (k - 1 + 1)..(l - 1) /\ j - 1 + 1 = j
      BY <1>3 DEF l
    <3>3. events'[j - 1] = events[j]
      BY <1>4, <3>2
    <3> QED BY <1>4, <3>1, <3>2, <3>3 DEF CloserAhead
  <2> QED BY <1>5, <2>1, <2>2 DEF CloserAhead
<1>6. ASSUME NEW k \in 1..Len(events')
      PROVE  \/ Closing(events'[k])
             \/ CloserAhead(events', utt', speaking', k, events'[k][2])
  <2>1. k \in 1..(l - 1) /\ k + 1 \in 1..l /\ k + 1 - 1 = k
    BY <1>3, <1>4
  <2>2. events'[k] = events[k + 1]
    BY <1>4, <2>1
  <2>3. Closing(events[k + 1]) \/ CloserAhead(events, utt, speaking, k + 1, events[k + 1][2])
    BY <2>1 DEF ClosersInv, l
  <2>4. CloserAhead(events, utt, speaking, k + 1, events[k + 1][2])
          => CloserAhead(events', utt', speaking', k + 1 - 1, events[k + 1][2])
    BY <1>5, <2>1
  <2> QED BY <2>1, <2>2, <2>3, <2>4
<1>7. Closing(events[1]) \/ CloserAhead(events', utt', speaking', 0, events[1][2])
  <2>1. 1 \in 1..l /\ 1 - 1 = 0
    BY <1>3
  <2>2. Closing(events[1]) \/ CloserAhead(events, utt, speaking, 1, events[1][2])
    BY <2>1 DEF ClosersInv, l
  <2>3. CloserAhead(events, utt, speaking, 1, events[1][2])
          => CloserAhead(events', utt', speaking', 1 - 1, events[1][2])
    BY <1>5, <2>1
  <2> QED BY <2>1, <2>2, <2>3
<1> QED BY <1>1, <1>6, <1>7 DEF ClosersInv

(* Every step keeps the ends of the utterances before the event thread. *)
LEMMA ClosersInvariant == Spec => []ClosersInv
<1>1. Init => ClosersInv
  <2> SUFFICES ASSUME Init PROVE ClosersInv
    OBVIOUS
  <2>1. Len(events) = 0 /\ cur = NoEvent
    BY DEF Init
  <2> QED BY <2>1 DEF ClosersInv
<1>2. TypeOK /\ ClosersInv /\ [Next]_vars => ClosersInv'
  <2> SUFFICES ASSUME TypeOK, ClosersInv, [Next]_vars PROVE ClosersInv'
    OBVIOUS
  <2>1. CASE SirenStart
    <3>1. /\ speaking = "no" /\ utt' \in 0..MaxUtt /\ speaking' = "began"
          /\ Emit("VAD_START") /\ UNCHANGED cur
      BY <2>1, Bounds DEF SirenStart, TypeOK
    <3>2. "VAD_START" \in EventTypes
      BY DEF EventTypes
    <3> QED BY <3>1, <3>2, SendKeepsClosers
  <2>2. CASE SirenData
    <3>1. /\ speaking = "began" /\ utt' = utt /\ utt \in 0..MaxUtt /\ speaking' = "sent"
          /\ Emit("VAD_DATA") /\ UNCHANGED cur
      BY <2>2 DEF SirenData, TypeOK
    <3>2. "VAD_DATA" \in EventTypes
      BY DEF EventTypes
    <3> QED BY <3>1, <3>2, SendKeepsClosers
  <2>3. CASE SirenCloses
    <3>1. PICK t \in {"VAD_END", "VAD_CANCEL"} : SirenClose(t)
      BY <2>3 DEF SirenCloses
    <3>2. /\ speaking = "sent" /\ utt' = utt /\ utt \in 0..MaxUtt /\ speaking' = "no"
          /\ Emit(t) /\ UNCHANGED cur
      BY <3>1 DEF SirenClose, EndUtterance, TypeOK
    <3>3. t \in EventTypes /\ t # "VAD_START"
      BY DEF EventTypes
    <3> QED BY <3>2, <3>3, SendKeepsClosers
  <2>4. CASE close_siren \/ NetStopSiren
    BY <2>4, StopKeepsClosers DEF close_siren, NetStopSiren
  <2>5. CASE PopEvent
    BY <2>5, PopKeepsClosers
  <2>6. CASE UNCHANGED <<events, utt, speaking>> /\ cur' \in {cur, NoEvent}
    BY <2>6 DEF ClosersInv
  <2>7. vad_start \/ AssignSession \/ OnLateStart \/ OnVadData \/ OnVadEnd \/ OnVadCancel
          => UNCHANGED <<events, utt, speaking>> /\ cur' \in {cur, NoEvent}
    BY DEF vad_start, AssignSession, OnLateStart, OnVadData, OnVadEnd, OnVadCancel,
           Handle, siren
  <2>8. init \/ open_siren \/ NetPrepare \/ Network => UNCHANGED <<events, utt, speaking, cur>>
    BY DEF init, open_siren, NetPrepare, Network, NetClear, NetPrepared, NetThread,
           NetStartSiren, NetRelease, NetReleased, eventThread, siren
  <2>9. (\E i \in Utts : AsrFinish(i) \/ LastResult(i)) => UNCHANGED <<events, utt, speaking, cur>>
    BY DEF AsrFinish, LastResult, Respond, eventThread, siren
  <2>10. (\E r \in DOMAIN threads : onResponse(r)) => UNCHANGED <<events, utt, speaking, cur>>
    BY DEF onResponse, Poll, PollFails, Clear, eventThread, siren
  <2>11. UNCHANGED vars => UNCHANGED <<events, utt, speaking, cur>>
    BY DEF vars, eventThread, siren
  <2> QED BY <2>1, <2>2, <2>3, <2>4, <2>5, <2>6, <2>7, <2>8, <2>9, <2>10, <2>11
          DEF Next, Clients, onEvent
<1> QED BY <1>1, <1>2, TypeCorrect, PTL DEF Spec

(* The event that will close an open session is never lost, however often the *)
(* siren is stopped and the network goes: the safety half of SessionFreed     *)
(* with local detection.                                                      *)
THEOREM SessionHasItsEnd == Spec => []ClosingEventPending
<1>1. TypeOK /\ EventInv /\ ClosersInv => ClosingEventPending
  <2> SUFFICES ASSUME TypeOK, EventInv, ClosersInv, ~cloud, session_id # -1
               PROVE  \/ Closing(cur) /\ cur[2] = session_id
                      \/ CloserAhead(events, utt, speaking, 0, session_id)
    BY DEF ClosingEventPending
  <2>1. CASE cur # NoEvent
    <3>1. cur[2] = session_id
      BY <2>1 DEF EventInv, SessionOfUtterance, Owned
    <3> QED BY <2>1, <3>1 DEF ClosersInv
  <2>2. CASE cur = NoEvent /\ events # <<>>
    <3>1. events[1][2] = session_id
      BY <2>2 DEF EventInv, SessionOfUtterance, Owned
    <3>2. Len(events) \in Nat /\ 1 \in 1..Len(events)
      <4>1. events \in Seq(Events)
        BY DEF TypeOK, Events
      <4>2. Len(events) \in Nat /\ Len(events) # 0
        BY <2>2, <4>1, EmptySeq
      <4> QED BY <4>2
    <3>3. Closing(events[1]) \/ CloserAhead(events, utt, speaking, 1, session_id)
      BY <3>1, <3>2 DEF ClosersInv
    <3>4. CASE Closing(events[1])
      <4>1. 1 \in (0 + 1)..Len(events)
        BY <3>2
      <4> QED BY <3>1, <3>4, <4>1 DEF CloserAhead
    <3>5. CASE CloserAhead(events, utt, speaking, 1, session_id)
      <4>1. \A j \in (1 + 1)..Len(events) : j \in (0 + 1)..Len(events)
        BY <3>2
      <4> QED BY <3>5, <4>1 DEF CloserAhead
    <3> QED BY <3>3, <3>4, <3>5
  <2>3. CASE cur = NoEvent /\ events = <<>>
    BY <2>3 DEF EventInv, SessionOfUtterance, CloserAhead
  <2> QED BY <2>1, <2>2, <2>3
<1> QED BY <1>1, TypeCorrect, OrderInvariant, ClosersInvariant, PTL
-----------------------------------------------------------------------------
(* A result that will close a session is not lost while the connection lasts. *)
ResultKept ==
    \A i \in Utts : session_id = i /\ Coming(i)
                       => session_id' # i \/ Coming(i)' \/ ~up'

(* A result is queued, or a response thread has it. *)
Queued(i, rs) == \E k \in DOMAIN rs : rs[k] = i
Held(i, ts) == \E r \in DOMAIN ts : ts[r].pc = "clear" /\ ts[r].id = i

(* The three places of a result. *)
LEMMA ComingParts ==
    ASSUME NEW i \in Utts
    PROVE  /\ Coming(i) <=> stage[i] # "over" \/ Queued(i, results) \/ Held(i, threads)
           /\ Coming(i)' <=> stage'[i] # "over" \/ Queued(i, results') \/ Held(i, threads')
BY DEF Coming, Queued, Held

(* onResponse hands a result on until clear has seen it. *)
LEMMA ResponseKeeps ==
    ASSUME TypeOK, NEW i \in Utts, NEW r \in DOMAIN threads, onResponse(r),
           session_id = i, Queued(i, results) \/ Held(i, threads)
    PROVE  session_id' # i \/ Queued(i, results') \/ Held(i, threads')
<1>1. /\ threads \in Seq(ThreadStates) /\ results \in Seq(Utts)
      /\ r \in 1..Len(threads)
  BY DEF TypeOK, ThreadStates
<1>2. ASSUME NEW q \in DOMAIN threads, q # r, threads[q].pc = "clear", threads[q].id = i,
             NEW t, threads' = [threads EXCEPT ![r] = t]
      PROVE  Held(i, threads')
  BY <1>2 DEF Held
<1>3. CASE Poll(r)
  <2> DEFINE t == [pc |-> "clear", id |-> Head(results)]
  <2>1. /\ threads[r].pc = "poll" /\ results # <<>> /\ results' = Tail(results)
        /\ threads' = [threads EXCEPT ![r] = t]
    BY <1>3 DEF Poll
  <2>2. DOMAIN threads' = DOMAIN threads /\ threads'[r] = t /\ t.pc = "clear" /\ t.id = Head(results)
    BY <2>1
  <2> HIDE DEF t
  <2>3. CASE Held(i, threads)
    <3>1. PICK q \in DOMAIN threads : threads[q].pc = "clear" /\ threads[q].id = i
      BY <2>3 DEF Held
    <3> QED BY <1>2, <2>1, <3>1
  <2>4. CASE Queued(i, results)
    <3>1. PICK k \in DOMAIN results : results[k] = i
      BY <2>4 DEF Queued
    <3>2. CASE k = 1
      <4>1. Head(results) = i
        BY <3>1, <3>2
      <4> QED BY <2>2, <4>1 DEF Held
    <3>3. CASE k # 1
      <4>1. /\ Len(results') = Len(results) - 1 /\ results' \in Seq(Utts)
            /\ \A j \in 1..Len(results') : results'[j] = results[j + 1]
        BY <1>1, <2>1, HeadTailProperties
      <4>2. Len(results) \in Nat /\ k \in 1..Len(results) /\ DOMAIN results' = 1..Len(results')
        BY <1>1, <4>1
      <4>3. k - 1 \in 1..Len(results') /\ k - 1 + 1 = k
        BY <3>3, <4>1, <4>2
      <4>4. results'[k - 1] = i
        BY <3>1, <4>1, <4>3
      <4> QED BY <4>2, <4>3, <4>4 DEF Queued
    <3> QED BY <3>2, <3>3
  <2> QED BY <2>3, <2>4
<1>4. CASE PollFails(r)
  <2> DEFINE t == [threads[r] EXCEPT !.pc = "exit"]
  <2>1. threads[r].pc = "poll" /\ threads' = [threads EXCEPT ![r] = t] /\ results' = results
    BY <1>4 DEF PollFails, speech
  <2> HIDE DEF t
  <2>2. CASE Held(i, threads)
    <3>1. PICK q \in DOMAIN threads : threads[q].pc = "clear" /\ threads[q].id = i
      BY <2>2 DEF Held
    <3> QED BY <1>2, <2>1, <3>1
  <2> QED BY <2>1, <2>2
<1>5. CASE Clear(r)
  <2>1. /\ threads' = [threads EXCEPT ![r] = Polling] /\ results' = results
        /\ threads[r].id = i => session_id' = -1
    BY <1>5 DEF Clear, ClearsSession, speech
  <2>2. i # -1
    BY Bounds DEF Utts
  <2>3. CASE Held(i, threads)
    <3>1. PICK q \in DOMAIN threads : threads[q].pc = "clear" /\ threads[q].id = i
      BY <2>3 DEF Held
    <3>2. CASE q = r
      BY <2>1, <2>2, <3>1, <3>2
    <3>3. CASE q # r
      BY <1>2, <2>1, <3>1, <3>3
    <3> QED BY <3>2, <3>3
  <2> QED BY <2>1, <2>3
<1> QED BY <1>3, <1>4, <1>5 DEF onResponse

(* The other steps leave the results where they are, add one, or begin a      *)
(* session; only release takes them away.                                     *)
LEMMA OthersKeepResults ==
    ASSUME TypeOK, NEW i \in Utts, Coming(i),
           \/ SirenStart \/ SirenData \/ SirenCloses \/ Clients \/ Network \/ onEvent
           \/ \E j \in Utts : AsrFinish(j) \/ LastResult(j)
           \/ UNCHANGED vars
    PROVE  Coming(i)' \/ ~up'
<1>1. /\ threads \in Seq(ThreadStates) /\ results \in Seq(Utts)
      /\ stage \in [Utts -> {"none", "open", "ending", "over"}]
  BY DEF TypeOK, ThreadStates
<1>2. CASE UNCHANGED <<threads, results, stage>>
  BY <1>2 DEF Coming
<1>3. CASE NetThread
  <2>1. threads' = Append(threads, Polling) /\ UNCHANGED <<results, stage>>
    BY <1>3 DEF NetThread, NewThread, speech
  <2>2. Polling \in ThreadStates
    BY Bounds DEF Polling, ThreadStates
  <2>3. \A r \in DOMAIN threads : r \in DOMAIN threads' /\ threads'[r] = threads[r]
    <3> HIDE DEF Polling
    <3> QED BY <1>1, <2>1, <2>2
  <2> QED BY <2>1, <2>3 DEF Coming
<1>4. CASE NetRelease
  BY <1>4 DEF NetRelease
<1>5. CASE UNCHANGED <<threads, results>> /\ (stage[i] # "over" => stage'[i] # "over")
  BY <1>5 DEF Coming
<1>6. ASSUME NEW j \in Utts, AsrFinish(j) \/ LastResult(j) PROVE Coming(i)'
  <2>1. PICK to \in {"ending", "over"} :
          /\ stage' = [stage EXCEPT ![j] = to] /\ results' = Append(results, j)
          /\ UNCHANGED threads
    BY <1>6 DEF AsrFinish, LastResult, Respond
  <2>2. \A k \in DOMAIN results : k \in DOMAIN results' /\ results'[k] = results[k]
    BY <1>1, <2>1
  <2>3. Len(results) + 1 \in DOMAIN results' /\ results'[Len(results) + 1] = j
    BY <1>1, <2>1
  <2>4. CASE i = j
    BY <2>3, <2>4 DEF Coming
  <2>5. CASE i # j
    <3>1. stage'[i] = stage[i]
      BY <1>1, <2>1, <2>5
    <3> QED BY <2>1, <2>2, <3>1 DEF Coming
  <2> QED BY <2>4, <2>5
<1>7. SirenStart \/ SirenData \/ SirenCloses => UNCHANGED <<threads, results, stage>>
  BY DEF SirenStart, SirenData, SirenCloses, SirenClose, speech
<1>8. init \/ open_siren \/ close_siren \/ NetPrepare \/ NetClear \/ NetPrepared
      \/ NetStartSiren \/ NetStopSiren \/ NetReleased
        => UNCHANGED <<threads, results, stage>>
  BY DEF init, open_siren, close_siren, NetPrepare, NetClear, NetPrepared,
         NetStartSiren, NetStopSiren, NetReleased, speech
<1>9. PopEvent \/ AssignSession \/ OnLateStart \/ OnVadData \/ OnVadEnd
        => UNCHANGED <<threads, results, stage>>
  BY DEF PopEvent, AssignSession, OnLateStart, OnVadData, OnVadEnd, speech
<1>10. vad_start \/ OnVadCancel
         => UNCHANGED <<threads, results>> /\ (stage[i] # "over" => stage'[i] # "over")
  BY <1>1 DEF vad_start, OnVadCancel
<1>11. UNCHANGED vars => UNCHANGED <<threads, results, stage>>
  BY DEF vars, speech
<1> QED BY <1>2, <1>3, <1>4, <1>5, <1>6, <1>7, <1>8, <1>9, <1>10, <1>11
        DEF Clients, Network, onEvent

(* While the connection lasts the result that closes the open session stays   *)
(* queued, in a response thread or to come until it has closed it: the safety *)
(* half of SessionFreed with the cloud's detection.                           *)
THEOREM ResultIsKept == Spec => [][ResultKept]_vars
<1>1. TypeOK /\ [Next]_vars => ResultKept
  <2> SUFFICES ASSUME TypeOK, [Next]_vars, NEW i \in Utts, session_id = i, Coming(i)
               PROVE  session_id' # i \/ Coming(i)' \/ ~up'
    BY DEF ResultKept
  <2>1. CASE \E r \in DOMAIN threads : onResponse(r)
    <3>1. PICK r \in DOMAIN threads : onResponse(r)
      BY <2>1
    <3>2. stage' = stage
      BY <3>1 DEF onResponse, Poll, PollFails, Clear, speech
    <3> QED BY <3>1, <3>2, ComingParts, ResponseKeeps
  <2>2. CASE ~\E r \in DOMAIN threads : onResponse(r)
    BY <2>2, OthersKeepResults DEF Next
  <2> QED BY <2>1, <2>2
<1> QED BY <1>1, TypeCorrect, PTL DEF Spec
=============================================================================
