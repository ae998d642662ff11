---------------------------- MODULE VoiceService ----------------------------
(***************************************************************************)
(* The openvoice_process service: binder clients that open and close the    *)
(* siren (the microphone and its detector) and report the network, the      *)
(* thread that handles the siren's events, and one detached thread per      *)
(* connection that handles the results of the speech service.               *)
(*                                                                          *)
(* siren_mutex and session_mutex are held for one step each; speech_mutex   *)
(* is held for the steps of network_state_change; session_id is otherwise   *)
(* shared without a lock.  asr_finished, local_sleep and the activation     *)
(* decide only whether an utterance that is cut off also cancels its        *)
(* session, so that is a choice here.  The siren and the speech service are *)
(* libraries, modelled by what VoiceService relies on.  A session has the   *)
(* number of the utterance it was started for as its id.                    *)
(***************************************************************************)
EXTENDS Integers, Sequences

CONSTANTS
    MaxUtt,     \* bound on the utterances
    MaxPrep,    \* bound on the connections, and so on the response threads
    MaxQueue    \* bound on the queues of events and of results

ASSUME ServiceAssumption == {MaxUtt, MaxPrep, MaxQueue} \subseteq Nat

VARIABLES
    mCurrentSirenState, openSiren, mCurrentSpeechState,
    net,           \* where the holder of speech_mutex is, "idle" if it is free
    session_id,    \* the open session, or -1
    events,        \* _events
    cur,           \* the event onEvent handles
    started,       \* what vad_start returned and session_id is still to become
    threads,       \* the response threads, in the order of their creation
    up,            \* the connection of _speech is prepared
    results,       \* its results that nobody has polled
    stage,         \* how far the service is with each session
    cloud,         \* cloud_vad_enable
    utt, speaking  \* the utterances of the siren, and whether one is open

service == <<mCurrentSirenState, openSiren, mCurrentSpeechState, net>>
eventThread == <<events, cur, started>>
speech  == <<up, results, stage>>
siren   == <<utt, speaking>>
vars == <<service, session_id, eventThread, threads, speech, siren, cloud>>

Utts == 1..MaxUtt
NoEvent == <<"none", 0>>

(* A response thread before poll. *)
Polling == [pc |-> "poll", id |-> 0]

Init ==
    /\ mCurrentSirenState = "UNKNOWN" /\ mCurrentSpeechState = "UNKNOWN"
    /\ openSiren = TRUE /\ net = "idle"
    /\ session_id = -1
    /\ events = <<>> /\ cur = NoEvent /\ started = 0
    /\ threads = <<>>
    /\ up = FALSE /\ results = <<>> /\ stage = [i \in Utts |-> "none"]
    /\ cloud \in BOOLEAN
    /\ utt = 0 /\ speaking = "no"

-----------------------------------------------------------------------------
(* The siren: utterances, each with a beginning, audio and an end.            *)

(* voice_event_callback *)
Emit(type) == events' = Append(events, <<type, utt'>>)

SirenStart ==
    /\ mCurrentSirenState = "STARTED" /\ speaking = "no"
    /\ utt < MaxUtt /\ Len(events) < MaxQueue
    /\ utt' = utt + 1 /\ speaking' = "began" /\ Emit("VAD_START")
    /\ UNCHANGED <<service, session_id, cur, started, threads, speech, cloud>>

SirenData ==
    /\ speaking = "began" /\ Len(events) < MaxQueue
    /\ speaking' = "sent" /\ UNCHANGED utt /\ Emit("VAD_DATA")
    /\ UNCHANGED <<service, session_id, cur, started, threads, speech, cloud>>

(* VAD_END or VAD_CANCEL: an utterance ends once. *)
EndUtterance(type) == speaking' = "no" /\ UNCHANGED utt /\ Emit(type)

SirenClose(type) ==
    /\ speaking = "sent" /\ Len(events) < MaxQueue /\ EndUtterance(type)
    /\ UNCHANGED <<service, session_id, cur, started, threads, speech, cloud>>

(* _stop_siren_process_stream cancels the utterance it cuts off. *)
StopStream ==
    IF speaking # "no" THEN EndUtterance("VAD_CANCEL") ELSE UNCHANGED <<siren, events>>

-----------------------------------------------------------------------------
(* The binder calls, each made by any client at any time.                     *)

Startable == mCurrentSirenState \in {"INITED", "STOPED"}

init ==
    /\ mCurrentSirenState = "UNKNOWN" /\ mCurrentSirenState' = "INITED"
    /\ UNCHANGED <<openSiren, mCurrentSpeechState, net, session_id, eventThread,
                   threads, speech, siren, cloud>>

(* start_siren(true); a USB microphone may be missing. *)
open_siren ==
    /\ Startable /\ openSiren' = TRUE
    /\ mCurrentSirenState' \in {mCurrentSirenState, "STARTED"}
    /\ UNCHANGED <<mCurrentSpeechState, net, session_id, eventThread, threads,
                   speech, siren, cloud>>

(* What start_siren(false) and a lost network do to a running siren. *)
StopSiren ==
    IF mCurrentSirenState = "STARTED"
    THEN StopStream /\ mCurrentSirenState' = "STOPED"
    ELSE UNCHANGED <<siren, events, mCurrentSirenState>>

(* start_siren(false) *)
close_siren ==
    /\ StopSiren
    /\ openSiren' = (openSiren /\ mCurrentSirenState = "UNKNOWN")
    /\ UNCHANGED <<mCurrentSpeechState, net, session_id, cur, started, threads,
                   speech, cloud>>

(* network_state_change(true) when prepare succeeds: the connection, the      *)
(* session, the state and the response thread, one after the other.           *)
NetPrepare ==
    /\ net = "idle" /\ mCurrentSpeechState # "PREPARED" /\ net' = "clear"
    /\ Len(threads) < MaxPrep
    /\ up' = TRUE
    /\ UNCHANGED <<mCurrentSirenState, openSiren, mCurrentSpeechState, session_id,
                   eventThread, threads, results, stage, siren, cloud>>

NetClear ==
    /\ net = "clear" /\ net' = "cleared" /\ session_id' = -1
    /\ UNCHANGED <<mCurrentSirenState, openSiren, mCurrentSpeechState, eventThread,
                   threads, speech, siren, cloud>>

NetPrepared ==
    /\ net = "cleared" /\ net' = "thread" /\ mCurrentSpeechState' = "PREPARED"
    /\ UNCHANGED <<mCurrentSirenState, openSiren, session_id, eventThread, threads,
                   speech, siren, cloud>>

NoThreadMutant == IF threads = <<>> THEN <<Polling>> ELSE threads

NewThread == Append(threads, Polling)

NetThread ==
    /\ net = "thread" /\ net' = "start" /\ threads' = NewThread
    /\ UNCHANGED <<mCurrentSirenState, openSiren, mCurrentSpeechState, session_id,
                   eventThread, speech, siren, cloud>>

ReopenMutant == Startable

Reopen == openSiren /\ Startable

NetStartSiren ==
    /\ net = "start" /\ net' = "idle"
    /\ mCurrentSirenState' \in
         {mCurrentSirenState} \cup (IF Reopen THEN {"STARTED"} ELSE {})
    /\ UNCHANGED <<openSiren, mCurrentSpeechState, session_id, eventThread, threads,
                   speech, siren, cloud>>

(* network_state_change(false): the siren, the connection, the state.         *)
NetStopSiren ==
    /\ net = "idle" /\ mCurrentSpeechState = "PREPARED" /\ net' = "release"
    /\ StopSiren
    /\ UNCHANGED <<openSiren, mCurrentSpeechState, session_id, cur, started,
                   threads, speech, cloud>>

(* _speech->release(): whatever was under way gets no result any more.        *)
NetRelease ==
    /\ net = "release" /\ net' = "released"
    /\ up' = FALSE /\ results' = <<>>
    /\ stage' = [i \in Utts |-> IF stage[i] = "none" THEN "none" ELSE "over"]
    /\ UNCHANGED <<mCurrentSirenState, openSiren, mCurrentSpeechState, session_id,
                   eventThread, threads, siren, cloud>>

NetReleased ==
    /\ net = "released" /\ net' = "idle" /\ mCurrentSpeechState' = "RELEASED"
    /\ UNCHANGED <<mCurrentSirenState, openSiren, session_id, eventThread,
                   threads, speech, siren, cloud>>

-----------------------------------------------------------------------------
(* onEvent.                                                                   *)

Handle(type) == cur[1] = type /\ cur' = NoEvent /\ UNCHANGED <<events, started>>

PopEvent ==
    /\ cur = NoEvent /\ events # <<>>
    /\ cur' = Head(events) /\ events' = Tail(events)
    /\ UNCHANGED <<started, service, session_id, threads, speech, siren, cloud>>

VadStartMutant ==
    /\ cur[1] = "VAD_START" /\ started = 0
    /\ IF mCurrentSpeechState = "PREPARED" /\ up
       THEN started' = cur[2] /\ stage' = [stage EXCEPT ![cur[2]] = "open"]
       ELSE started' = -1 /\ UNCHANGED stage
    /\ UNCHANGED <<events, cur, service, session_id, threads, up, results, siren, cloud>>

(* vad_start: a session of its own for the utterance, if there is a           *)
(* connection; -1 otherwise.                                                  *)
vad_start ==
    /\ cur[1] = "VAD_START" /\ session_id = -1 /\ started = 0
    /\ IF mCurrentSpeechState = "PREPARED" /\ up
       THEN started' = cur[2] /\ stage' = [stage EXCEPT ![cur[2]] = "open"]
       ELSE started' = -1 /\ UNCHANGED stage
    /\ UNCHANGED <<events, cur, service, session_id, threads, up, results, siren, cloud>>

(* Its result becomes session_id a moment later. *)
AssignSession ==
    /\ started # 0 /\ session_id' = started /\ started' = 0 /\ cur' = NoEvent
    /\ UNCHANGED <<events, service, threads, speech, siren, cloud>>

(* A session is open already. *)
OnLateStart ==
    /\ session_id # -1 /\ started = 0 /\ Handle("VAD_START")
    /\ UNCHANGED <<service, session_id, threads, speech, siren, cloud>>

(* put_voice, to session_id. *)
OnVadData ==
    /\ Handle("VAD_DATA")
    /\ UNCHANGED <<service, session_id, threads, speech, siren, cloud>>

KeepMutant == session_id

(* The session after the end of an utterance. *)
AfterUtterance == IF cloud THEN session_id ELSE -1

(* end_voice changes nothing here; clear does. *)
OnVadEnd ==
    /\ Handle("VAD_END") /\ session_id' = AfterUtterance
    /\ UNCHANGED <<service, threads, speech, siren, cloud>>

(* cancel, if any, asks the service for a CANCELLED result, its last one. *)
OnVadCancel ==
    /\ Handle("VAD_CANCEL") /\ session_id' = AfterUtterance
    /\ \/ UNCHANGED stage
       \/ /\ session_id # -1 /\ stage[session_id] = "open"
          /\ stage' = [stage EXCEPT ![session_id] = "ending"]
    /\ UNCHANGED <<service, threads, up, results, siren, cloud>>

-----------------------------------------------------------------------------
(* The speech service: of the results of a session only those that close it   *)
(* matter, ASR_FINISH and then the last one, which is END, CANCELLED or ERROR *)
(* and may come without the first.                                            *)
Respond(i, from, to) ==
    /\ up /\ stage[i] \in from /\ Len(results) < MaxQueue
    /\ stage' = [stage EXCEPT ![i] = to]
    /\ results' = Append(results, i)
    /\ UNCHANGED <<service, session_id, eventThread, threads, up, siren, cloud>>

AsrFinish(i)  == Respond(i, {"open"}, "ending")
LastResult(i) == Respond(i, {"open", "ending"}, "over")

-----------------------------------------------------------------------------
(* onResponse of thread r; what it tells the callback and the siren is left   *)
(* out.                                                                       *)
Poll(r) ==
    /\ threads[r].pc = "poll" /\ up /\ results # <<>>
    /\ results' = Tail(results)
    /\ threads' = [threads EXCEPT ![r] = [pc |-> "clear", id |-> Head(results)]]
    /\ UNCHANGED <<service, session_id, eventThread, up, stage, siren, cloud>>

PollFails(r) ==
    /\ threads[r].pc = "poll" /\ ~up
    /\ threads' = [threads EXCEPT ![r].pc = "exit"]
    /\ UNCHANGED <<service, session_id, eventThread, speech, siren, cloud>>

ClearMutant(id) == FALSE

(* clear(sr.id) *)
ClearsSession(id) == session_id = id

Clear(r) ==
    /\ threads[r].pc = "clear"
    /\ session_id' = IF ClearsSession(threads[r].id) THEN -1 ELSE session_id
    /\ threads' = [threads EXCEPT ![r] = Polling]
    /\ UNCHANGED <<service, eventThread, speech, siren, cloud>>

-----------------------------------------------------------------------------
SirenCloses == \E t \in {"VAD_END", "VAD_CANCEL"} : SirenClose(t)

Clients == init \/ open_siren \/ close_siren \/ NetPrepare \/ NetStopSiren

(* The rest of network_state_change. *)
Network == NetClear \/ NetPrepared \/ NetThread \/ NetStartSiren
           \/ NetRelease \/ NetReleased

onEvent == PopEvent \/ vad_start \/ AssignSession \/ OnLateStart \/ OnVadData
           \/ OnVadEnd \/ OnVadCancel

onResponse(r) == Poll(r) \/ PollFails(r) \/ Clear(r)

Next ==
    \/ SirenStart \/ SirenData \/ SirenCloses
    \/ Clients \/ Network \/ onEvent
    \/ \E i \in Utts : AsrFinish(i) \/ LastResult(i)
    \/ \E r \in DOMAIN threads : onResponse(r)

(* Threads run; the siren ends every utterance (see VoiceDetector); the       *)
(* speech service ends every session, if only with a timeout.                 *)
Fairness ==
    /\ WF_vars(onEvent) /\ WF_vars(Network)
    /\ \A r \in 1..MaxPrep : WF_vars(r \in DOMAIN threads /\ onResponse(r))
    /\ WF_vars(SirenData \/ SirenCloses)
    /\ \A i \in Utts : WF_vars(LastResult(i))

Spec == Init /\ [][Next]_vars /\ Fairness

-----------------------------------------------------------------------------
EventTypes == {"VAD_START", "VAD_DATA", "VAD_END", "VAD_CANCEL"}

(* Types of the members. *)
TypeOK ==
    /\ mCurrentSirenState \in {"UNKNOWN", "INITED", "STARTED", "STOPED"}
    /\ mCurrentSpeechState \in {"UNKNOWN", "PREPARED", "RELEASED"}
    /\ net \in {"idle", "clear", "cleared", "thread", "start", "release", "released"}
    /\ openSiren \in BOOLEAN /\ up \in BOOLEAN /\ cloud \in BOOLEAN
    /\ speaking \in {"no", "began", "sent"}
    /\ session_id \in Utts \cup {-1} /\ utt \in 0..MaxUtt
    /\ events \in Seq(EventTypes \X (0..MaxUtt))
    /\ cur \in {NoEvent} \cup (EventTypes \X (0..MaxUtt))
    /\ started \in -1..MaxUtt
    /\ results \in Seq(Utts)
    /\ stage \in [Utts -> {"none", "open", "ending", "over"}]
    /\ threads \in Seq([pc : {"poll", "clear", "exit"}, id : 0..MaxUtt])

(* A siren that a client has closed stays closed, however the network comes   *)
(* and goes meanwhile: it runs only while a client wants it open.             *)
CloseRespected == mCurrentSirenState = "STARTED" => openSiren

(* Whenever there is a connection there is a thread that reads its results,   *)
(* though the threads are detached and those of earlier connections end       *)
(* whenever they notice; or network_state_change is about to create one.      *)
ResultsAreRead ==
    up => \/ net \in {"clear", "cleared", "thread"}
          \/ \E r \in DOMAIN threads : threads[r].pc # "exit"

(* With local detection the audio that put_voice sends goes to the session    *)
(* that was started for its utterance and to no other, whatever results,      *)
(* cancellations and reconnections do to session_id between the events.       *)
AudioToItsSession ==
    cur[1] = "VAD_DATA" /\ session_id # -1 /\ ~cloud => session_id = cur[2]

(* An open session ends in three ways only: a result about it, with local     *)
(* detection the end of its own utterance, or a new connection.  No late      *)
(* result of another session, no end of another utterance and no new session  *)
(* ever takes its place, whatever the threads have read before.               *)
ClosedByItsOwn ==
    [][\A i \in Utts : session_id = i /\ session_id' # i =>
         \/ \E r \in DOMAIN threads :
               threads[r] = [pc |-> "clear", id |-> i] /\ threads'[r].pc = "poll"
         \/ ~cloud /\ cur \in {<<"VAD_END", i>>, <<"VAD_CANCEL", i>>}
         \/ net = "clear" /\ net' = "cleared"]_vars

(* A result about session i is still to be handled. *)
Coming(i) ==
    \/ stage[i] # "over"
    \/ \E k \in DOMAIN results : results[k] = i
    \/ \E r \in DOMAIN threads : threads[r].pc = "clear" /\ threads[r].id = i

(* No session stays open for ever: with local detection its utterance's end   *)
(* closes it, otherwise a result does, if one is still to come and the        *)
(* connection lasts.                                                          *)
SessionFreed ==
    \A i \in Utts : session_id = i /\ (cloud => Coming(i))
                        ~> session_id # i \/ (cloud /\ ~up)
=============================================================================
