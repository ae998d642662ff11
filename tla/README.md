# Verification of the vsys voice activation library

TLA+ models, TLC runs and TLAPS proofs for the voice activation library of this
repository (`src/activation`, with the wake-word engine of `src/r2slv4/r2vt4` and
the voice detector of `src/ztvad`) and for the service that was built around its
predecessor (`src/legacy`, `VoiceService`).
Audio goes in through `VsysActivation_Process`; voice events (a word was
detected, speech starts, its audio, its end) come out through a callback.

`PROJECT.json` maps every definition to the lines it models, lists the runs, the
mutants that show each property can fail, the theorems and the hazards.

## 1. The system

```
 client threads              processing thread                  event thread
 --------------              -----------------                  ------------
 AddVtWord, RemoveVtWord     Process                            thread_loop
   VtWordManager               process: chunks -> frames          client callback
     | sync (spin lock)        processfrm, once per frame:          ^
     v                           beam_forming                       |
   r2vt4 word list  <--------    r2_vbv_process   (spin lock)       |
                                 r2_vbv_getdetwordinfo (no lock)    |
 Control  -- two plain bools ->  check_voice_activity (ztvad)       |
                                 session, r2mem_cod                 |
                                 send_event --> EventHub queue -----+
```

| Component | State it keeps | Operations | What makes it correct |
|---|---|---|---|
| Event hub (`event_hub.cpp`) | queue, mutex, condition, exit flag, callback and token | send, register, thread loop, destroy | every event once and in order; never `front()` of an empty list; no callback after Free; the destructor returns |
| Session (`voice_activation.cpp`, `processfrm`) | `vad_flag`, `data_output`, `awaked`, `canceled`, `need_asr` | one call per frame; `control` from another thread | well-formed START/DATA/END/CANCEL stream; no audio while asleep; an ACTIVE handle listens |
| Coder (`legacy/r2mem_cod.cpp`) | samples in, samples coded, bytes read, pause position | reset, pause, resume, process, getdata | its assertions hold; no gap and no repetition in what is sent |
| Framing (`process`) | one partly filled frame | process(chunk) | the frames are the input stream |
| Wake-word engine (`zvtmem.cpp`, `zvtdet.cpp`, `zvt.cpp`, `zvbvmem.cpp`) | configured words, detectors, current detection, beam-former buffer | process, setwords, getdetwordinfo, reset | detectors belong to the configured words; the information given is the detected word's; its assertions hold |
| Word manager (`vt_word_manager.cpp`) | list of words, mutex, array handed out | add, remove, get, sync | every call returns; the engine listens for the words the manager holds |
| Voice activity segmentation (`check_voice_activity`) | `has_vad`, `last_frame`, input and output buffers | one call per frame | segments alternate ON, OFF; no audio of a segment lost |
| Voice detector (`ztvad`) | wave and probability buffers, start and stop frame | input, set start, restart | never goes deaf; trims only silence |
| Ring buffers and batches of the engine (`zbuff.cpp`, `zvt.cpp`, `zvbvmem.cpp`) | two rings, the beam buffer, the incomplete batch | put, get last, process, callbacks | every position that is asked for holds the frame it stands for; no frame is lost between batches |
| Voice service (`VoiceService.cpp`) | states of siren and connection, `session_id`, event queue, response threads | binder calls, event thread, response threads | audio goes to the session of its utterance; old results and threads do no harm; no session stays open |
| Beam former glue, sample conversion, configuration, C and Java interfaces | handles, parameters | - | marshalling and arithmetic |

The hard behaviours are: `control` writes two plain `bool`s while `processfrm`
is anywhere in its code; registration writes callback and token while the event
thread reads them; the destructor sets its flag without the mutex; word lists
change while a detection is in progress, and what was detected is looked up
without the lock; a word with right-silence detection spreads one detection over
several calls; several threads use the word manager; chunks of any size are cut
into frames; the voice detector moves its buffers while its caller counts frames in
them; past audio is addressed from three different ends; response threads of several
connections, the event thread and binder threads share `session_id`.  The hazards of `PROJECT.json` name the line where each bites.

## 2. Modules

| Module | Models | |
|---|---|---|
| `EventChannel` | - | abstract: what a registered client is promised |
| `EventHub` | `event_hub.cpp` | implements `EventChannel` |
| `AsrSession` | - | abstract: the stream of session events |
| `VoiceActivation` | `processfrm`, `reset_asr`, `control`, `r2mem_cod` | implements `AsrSession` |
| `WakeEngine` | the word and detector logic of r2vt4 | |
| `VtWordManager` | `vt_word_manager.cpp`, composed with `WakeEngine` | implements the engine's next-state relation |
| `Framing` | `VoiceActivation::process` | |
| `VadReport` | - | abstract: what `check_voice_activity` promises `processfrm` |
| `VoiceDetector` | `VoiceDetector.cpp` and `check_voice_activity` | implements `VadReport` |
| `VadInterface` | the result of one call of `check_voice_activity` | `VoiceActivation` takes it as an input, `VoiceDetector` is proved to deliver it |
| `AudioHistory` | `zbuff.cpp`, the batches of `zvt.cpp`, the reads of `zvbvmem.cpp` and `zvtdet.cpp` | |
| `VoiceService` | `VoiceService.cpp` of `src/legacy` | |
| `*Proofs` | - | theorems about the module of that name |
| `MCEventHub`, `MCVtWordManager` | - | instances for TLC where the module alone is not enough |

### EventHub
A step is what a thread does between two points where another thread can
interfere: taking the mutex, entering `condition.wait`, every plain access to
`thread_exit`, `token` and `event_callback`.  `LoopTest` evaluates the wait
predicate, `LoopSleep` releases the mutex and blocks; `Notify` wakes the event
thread only if it is asleep.  The two operands of the call on line 53 are read in
either order.  The standard library's wait and its spurious wake-ups are modelled
from their use.  The uninitialised token starts with an arbitrary value.

### VoiceActivation
One call of `processfrm` is the sequence of steps `Detect`, `CheckVad`,
`StartSession`, `CancelSession`, `ResumeSession`, `StreamData`, `VadOff` (`pc`),
cut where the code reads `need_asr` or `awaked`.  `control(AWAKE)` is one store;
`control(SLEEP)` two stores in either order, each a step (`ControlStore`).  What
the engine and the voice detector report is chosen freely within what they can
report; for the detector that is `CallResults` of `VadInterface`: a wake word forces a
start; otherwise segments alternate.  A call may
start and end a segment, because a word's history of several frames is given
to the detector at once and frames left from it are seen by later calls.  The coder's buffers are their
lengths, in frames.  `open` and `got` are the client's view: a session is open,
and how much of it has been received.

### WakeEngine
`r2_vbv_process` and `r2_vbv_setwords` run under the same spin lock and are one step
each; `r2_vbv_getdetwordinfo` is a step of its own, because the code calls it
after the lock is released.  `found` holds the processing thread between the two.
A detector is ready, in process (its word ended and it waits for silence) or
finished; which outcome a batch of frames has is an input, as the scores come from
a neural network.

`SetWords` deletes the `ZVtWord` objects the existing detectors point to (`zvtmem.cpp:105`).
`dangling` says that they are deleted and the detectors still there.  When no detection is
current the next call replaces the detectors before any of them reads its word; during a
detection, or when `r2_vbv_reset` comes first, it does not, and a batch (`Reads`) or the reset
reads freed memory.  That is undefined behaviour: from then on (`wild`) every detector may have
any outcome the control flow allows (`Garbled`), and nothing is owed any more, as the
process may have stopped.  Damage such a read or a crash does outside the detectors is not modelled.
`hasty` remembers that words were deleted during a detection or the detectors reset before
their replacement; `OnlyHastyChangesHarm` says that there is no other way to the bad read.
That such a change does lead to it is what the model shows, but no line of the repository
promises that words may be changed during a detection, so no run states it as a violation.

`asserts` collects the lines of the assertions of
`zvbvmem.cpp` that failed (the build files do not define `NDEBUG`; the model goes on
after a failure so that the first one can be told from its consequences).

### VtWordManager
It extends `WakeEngine`: the engine's thread runs beside the client threads.  Every
part of a method that runs under `vt_mutex` is a step.  The search loop of
`remove_vt_word` never advances, so a thread looking for a word that is not at the
front takes the mutex and keeps it (`spin`).

### Framing
A sample is its number in the input stream, so a frame says where its samples come
from.  A call that is rejected (null input, a size that is not a whole number of samples)
changes nothing.  `damage` is a history variable: it remembers that a
chunk was put on top of waiting samples.

### VoiceDetector
The detector and the loop that drives it; the unit is the frame, and a frame is its
number since the last restart.  `VD_NewVad(1)` selects the energy mode, in which there is one
probability for each frame given; whether it says voice is an input, and so is the
verdict of the pitch extractor, which lags and can refuse a beginning.
`JudgePitchVoiceEnd` always returns false and is left out.  `InputWave` gives the set of
detectors that one frame can lead to; `Frame` is one pass of the loop of
`check_voice_activity`, `Call` its entry with one frame or with a word's history.
The engine reports a word at most once in a batch of 12 frames, by which time what an earlier
history left over has been examined, so `vad_input` is empty at a word.
The frames left over when a segment ends inside a history are counted; their content
(the move on line 563) is not kept, as the segment after it is numbered from the restart.

### AudioHistory
The unit is the frame, because `ZNs` asserts that it gets and gives whole frames, and a
ring cell holds the number of its frame.  A call of `Process` puts its frames into both
rings, carries over the incomplete batch, and lets the detectors read: the energy and
silence checks, the second localisation, the silence after the word, and the word's history
for `processfrm`.  `reads` pairs every window read with the frames it should hold.  Both 5 s
rings are fed alike.  At most one word is pending (the assertion whose exception
`engine_secsl` shows), and a word lies at most `MaxBack` frames back, so that the
assertions of `GetLastAudio` hold; the branch of `PutAudio` for more than a whole ring is
unreachable.  The look-ahead of the features is part of `back`, `Wait` and `CfLag`.

### VoiceService
Binder calls (`init`, `start_siren`, `network_state_change`), the event thread (`onEvent`) and the
response threads (`onResponse`) interleave.  Sections under `siren_mutex` and
`session_mutex` are one step; `net` is the holder of `speech_mutex`; `session_id` is
shared without a lock, so `vad_start` and the assignment of its result are two steps, and
so are the connection, the clearing of the session, the new state and the creation of the
response thread in `network_state_change`.
The siren and the speech client are libraries, modelled by what the service relies on: the
siren closes every utterance with END or CANCEL, also when its stream is stopped; the
ids of sessions are new; a released connection starts no session and gives no result.
`asr_finished`, `local_sleep` and the activation only decide whether an utterance that is
cut off cancels its session, which is a choice here.  One VAD_DATA stands
for all the audio of an utterance.

## 3. Runs

| Run | Distinct states | Shows |
|---|---|---|
| `event_hub` | 14,860 | `FrontOfNonEmpty`, `NoLostWakeup`, `RegisteredPairUsed`, `EventuallyDelivered`, `JoinReturnsOutsideWindow`, `ImplementsChannel` |
| `event_hub_free` | violation | `FreeReturns`: a notification between test and sleep is lost, Free hangs |
| `session` | 420,846 | types, `PausedIffCanceled`, `NoGapNoRepeat`, `EndIsComplete`, `SleepSilences`, `SleepClosesSession`, `ImplementsSession` |
| `engine` | 45,469 | `NeverWordless`, `FreshUnlessPending`, `WorkingMatchesCurrent`, `SecSlFailsFirst`, `OnlyHastyChangesHarm`, `LookupRightUnlessPending`, `BufferIsReleased` |
| `engine_secsl` | violation | `SecSlFindsIdleBuffer`: a second word ends while the first waits for silence |
| `words` | 146,780 | `ListsAgree` |
| `words_spin` | violation | `RemoveReturns`: removing a word that is not the first never returns |
| `framing` | 403 | types, `CountsAgree`, `FramesAreInput` |
| `framing_short` | violation | `FramesAlwaysInput`: two chunks shorter than a frame |
| `segments` | 242,699 | `NeverFull`, `NeverDeaf`, `SegmentIntact`, `EndWindowInBuffer`, `SegmentComplete`, `SegmentEnds`, `ImplementsReport` |
| `history` | 4,421 | `RingHoldsLast`, `EngineBehind`, `BeamAudioCurrent`, `WindowsRight` |
| `service` | 156,604 | `CloseRespected`, `ResultsAreRead`, `AudioToItsSession`, `ClosedByItsOwn`, `SessionFreed` |

Every module has its type invariant (`TypeOK`, `EngineTypeOK`) proved for all instances; two runs
(`session`, `framing`), where it bounds counters that others index with, also check it.

A violation run states what the repository's own header, documentation or assertion says
and shows the behaviour of the code that contradicts it; `findings` quotes the line.

What the passing properties leave open is part of their statement.
`RegisteredPairUsed` speaks of events produced after the registration (an earlier
event may be delivered with a mixed pair).  `AsrSession` allows a CANCEL
without an open session, because `reset_asr` clears `canceled` before it tests
it, and without local voice detection (`vad_enable = false`) it allows a session
without an end.  `ListsAgree` excepts the empty list: removing the last
word leaves the engine listening for it.  `SleepClosesSession` is about
`vad_enable = true`.  `LookupRightUnlessPending` excepts a change of the list between
detection and lookup, after which the information can be another word's.
`FreshUnlessPending` is about the time when no change is pending; what happens to the old
detectors while one is pending is what `OnlyHastyChangesHarm` is about.  `BufferIsReleased`
promises nothing once a deleted word has been read.
`ResultsAreRead` excepts the moment in `network_state_change` between the connection and
the creation of its response thread.
`AudioToItsSession` is about local detection: with `cloud_vad_enable` one session spans
several utterances.  `SessionFreed` speaks of sessions about which a result is still to
be handled: in cloud mode, if the last result is handled before `session_id` is
assigned (line 247), the session stays open until the next connection.

### Bounds
- `EventHub`: three events (one in the callback, one queued, one being sent) and two
  registrations (one replaces another).  A fourth event meets no new case: the
  loop treats each alike.
- `VoiceActivation`: blocks of 2, a session too long after 4, resumption after more
  than 1, lengths 0, 1 and 3, at most 6 in the buffer: a block can be
  incomplete, complete or exceeded, and both thresholds can be missed, met and
  passed within one utterance.  The real values are larger multiples of the same
  shape (`r2mem_cod`'s constructor), and the proofs hold for all of them.
- `WakeEngine`: three words, one with right-silence detection, lists up to two
  words (so two detections can overlap), a wait of two batches (the code's 36 frames
  are three batches of 12; two already tells "still waiting" from "now").
- `VtWordManager`: two threads, two words besides the default one, lists up to two;
  threads and words are interchangeable (symmetry; only invariants are checked).
  `MaxLen` bounds the additions.  States in which a deleted word has been read are checked and
  not followed (`Defined`): the `engine` run follows them, and the proofs need no such bound.
- `Framing`: frames of 3 and chunks of 0 to 8 samples: none, less than, exactly and
  more than one and two frames, with every offset; 20 samples in all.
- `VoiceDetector`: 12 frames of buffer, speech of 6 to 8 frames, silence of 3 or 10, histories
  up to 8.  The values keep the relations of the real ones (6000; 90 to 1000; 45 or 2000;
  below 500), which `DetectorAssumption` names: the long silence cannot be reached within
  the longest speech, trimming starts at half the buffer.  `MaxSilence` only bounds the
  frames before speech, after trimming has happened.
- `AudioHistory`: inputs of 1 to 3 frames, batches of 2, rings that wrap several times.
- `VoiceService`: two utterances and two connections (an old and a new session, an old and a
  new response thread), two entries in each queue.

### Fairness
- `EventHub`: a runnable event thread, a registration and a destructor that have begun
  go on.  Nobody has to send, register or free, and no spurious wake-up is owed.
- `VoiceActivation`: audio keeps arriving (the microphone does) and a control call that
  has begun finishes.
- `WakeEngine`: audio keeps arriving and what was detected is looked up, as long as no deleted
  word has been read.  No client has to change the words.
- `VoiceDetector`: audio keeps arriving, and a call that has begun returns.
- `VoiceService`: the threads run, a network change that has begun finishes, the siren ends every utterance
  and the speech service every session (with an error at the latest).  No client has to call.
- `VtWordManager`: every client thread that can go on does; only a spinning thread keeps
  the mutex.  Nothing is owed after a deleted word has been read.

Deadlock is checked except in the event hub, which stops when it has been freed.

## 4. Proofs

All theorems are checked by TLAPS for every value of the constants that satisfies the
named assumptions (`ConstAssumption`, `EngineAssumption`, `ThreadAssumption`,
`DetectorAssumption`, `HistoryAssumption`, `ServiceAssumption`: the
numbers are natural numbers, block, frame and list sizes positive where the code
divides by or indexes with them, the default word is one without right silence, and the lengths of the
detector and of the rings are related as the constructors' are).

- `EventHubProofs`.  `Invariance` proves an inductive invariant that
  adds to the types who holds the mutex in which state (`MutexInv`), how destructor and
  event thread agree on the exit flag (`ExitInv`), and that the queue and the event in hand
  are the events after the delivered ones, in order (`QueueInv`); `PairInv` adds that an
  operand read for an event produced after the registration is the registered one.  From them:
  `NeverPopsEmpty`, `RegistrationRespected`, and `SafeChannel`
  (the safety part of `EventChannel`).  `WakeInv` (before the thread sleeps its list is
  empty, and an event added later wakes it) gives `NoEventWaitsForASleeper`: no wake-up of a
  sender is lost (`NoLostWakeup`).  `EventThreadProgress` and `ExitIsNoticed` are about delivery and the
  destructor (below).
- `VoiceActivationProofs`.  The properties are not inductive by themselves: what
  holds at a step depends on what the earlier steps of the same call saw.  The
  invariant adds `StepInv` (what is known of the flags at each `pc`), `SegmentInv`
  (`vad_flag` and `has_vad` against this call's result), `RewindInv` (a cancelled
  utterance has been rewound, so a resumption starts at its beginning), `OpenInv` (with the
  local VAD a session the client sees as open is streaming), `QuietInv` (a
  handle quiet since the call began has no flag that could start audio) and
  `CompleteInv` (at `VadOff` everything coded is sent).  From it:
  `CoderFollowsSession`, `StreamIsGapless`, `EndComplete`, `SleepIsSilent` and
  the refinement `WellFormedSessions`.  `SleepClosesByFirstFrame` says how soon SLEEP takes
  effect: with the first frame that begins after it.
- `WakeEngineProofs`.  The invariant adds `CurrentInv` (the current detector is past its
  word's end), `WorkingHasCurrent` (the buffer never works without a current detection, also after a failed assertion or a
  bad read) and `FoundIsCurrent`
  (a word waiting to be looked up is the current detector's).  From it
  `AlwaysSomeWord`, `DetectorsFresh`, `WorkingFollowsCurrent`, `OnlySecSlFails`,
  `LookupRight`.  `NoRightSilenceNoFailure` and `OneWordNoFailure` delimit the failing
  assertion of line 314: it needs a word with right-silence detection and a second word
  in the list (or, for the first, a deleted word that has been read).  `QuietChangesHarmless` proves
  `OnlyHastyChangesHarm`: deleted words that no hasty change has exposed belong to detectors of which
  none is current, and those are replaced by the next call.
- `VtWordManagerProofs`.  `ManagerImplementsEngine` shows that manager and engine
  together only take steps of the engine with some list, so `EngineInv` carries over;
  `ManagerAndEngineAgree` rests on the fact that whoever changed the list has still to
  hand it on (`ManagerInv` adds the types of the calls' arguments).  `ManagedEngineSound`,
  `ManagedLookupRight`, `ManagedQuietChanges` and `ManagedNoRightSilence` state what carries over, and
  `ClientsWordsListenedFor` joins the two halves, from the client's list to the detectors.
  `OnlyLaterWordsHang` delimits the hang that `words_spin` shows: the thread that keeps the
  mutex looks for a word that is not the first, and from then on nothing about the words changes.
  They hold for any number of threads.
- `FramingProofs`.  The invariant adds `BuffInv`: unless damaged, the buffer
  begins with the samples given last.  From it `NoSampleLost`, `StreamInOrder`, and
  `LongChunksInOrder`: without chunks shorter than a frame the exception of
  `FramesAreInput` never occurs.
- `VoiceDetectorProofs`.  `NeverDeaf` and the others are not inductive: they rest on how
  long the buffers can be.  The invariant says that between two passes the detector is
  `Quiet` (no speech, at most half the buffer and a little more) or `Open` (speech from
  frame 0, at most `MaxSpeech`), as `has_vad` says, that what was handed out is what an open
  detector holds (`SegmentInv`), and that in a wake word's call the segment begins with the
  first frame and the history is too short to end it (`CallInv`).  `FeedQuiet` and
  `FeedOpen` show what one frame does for every verdict of energies and pitch; in
  particular a beginning and an end never come with the same frame, because a segment that
  begins is shorter than the shortest speech.  From it all invariants of the run,
  `SegmentsComplete` and the refinement `ReportImplemented`.  `CallIsOneStep` and
  `CallBeginsWithBefore` compose it with `VoiceActivation`: the loop of frames that one call runs
  returns a member of `CallResults` for the `has_vad` and `force_start` at its beginning and
  leaves `has_vad` as `OpenAfter` says, which is all that `VoiceActivation` assumes of it.
- `AudioHistoryProofs`.  The invariant `History` says what every cell of a ring holds as a function of the
  position; putting audio keeps it and `GetLastAudio` reads from it.  From it
  `RingsHoldLast`, `NoFrameLost`, `BeamAudioComplete`, `EveryWindowRight`, for rings,
  batches and inputs of any length.
- `VoiceServiceProofs`.  `AudioGoesToItsSession` needs the order of everything between siren and
  event thread: the pending events, with the one in hand, form a chain START, DATA,
  END or CANCEL of consecutive utterances (`Ordered`), and `session_id` belongs to the utterance
  in hand (`SessionOfUtterance`).  `SessionsCloseThemselves` rests on the same order:
  when an utterance starts a session no session is open (`NoneOpenInvariant`), so the assignment of line 247
  replaces none.  `ClosedStaysClosed` and `SomeoneReads` need only what their own lemmas say; all hold for any number of
  utterances, connections and threads.  `SessionHasItsEnd` adds `ClosersInv`: behind every event
  of an utterance in the queue is the one that closes it, unless the siren is still recording.

Liveness itself is out of this prover's reach, but what it rests on besides fairness is not:
a quantity that every step of the fair process decreases and no other step increases, or
the fact that what is waited for is not lost.  These are proved, as action properties or
invariants, for every value of the constants:

| Liveness property | Proved core |
|---|---|
| `EventuallyDelivered`, `JoinReturnsOutsideWindow` | `EventThreadProgress`: each step of the event thread decreases `Measure` (undelivered events, then stages), only a new event increases it; `NoEventWaitsForASleeper`; `ExitIsNoticed`: a notification outside the window finds the thread awake for good |
| `SleepClosesSession` | `SleepClosesByFirstFrame`; `FramesAdvance`: a frame is a bounded number of steps |
| `BufferIsReleased` | `WaitComesToAnEnd`: while the buffer goes on working each batch shortens the wait of its detection, and nothing else lengthens it |
| `SegmentEnds` | `SegmentsShrink`: each frame of a segment uses up some of `MaxSpeech` |
| `SessionFreed` | `SessionHasItsEnd` (local detection); `ResultIsKept` (detection by the cloud): while the connection lasts a result to come is not lost |

Only model-checked: the liveness properties (`EventuallyDelivered`,
`JoinReturnsOutsideWindow`, `SleepClosesSession`, `BufferIsReleased`, `SegmentEnds`,
`SessionFreed`, the liveness part of `ImplementsChannel`): the step from their cores to the
properties needs fairness and `ENABLED`, beyond this prover; and the
violations, which are counterexamples.  Only proved: `ImplementsEngine`, which is slow
to check with TLC, the composition (`CallIsOneStep`, `CallBeginsWithBefore`) and the cores in the table.

## 5. Not modelled, and the plan

Not modelled because it is arithmetic on audio: the acoustic model and its scores, beam
forming, noise suppression, localisation, the pitch extractor, sample scaling, the
opus codec, echo cancellation (`r2ad3`, `r2ssp`, the latter largely the WebRTC library, which
makes up nearly all of the repository's lines).  Not modelled because it only forwards: the C
interface, the JNI binding, binder marshalling and the tables.  `src/test` and the `test_*`
directories are drivers; `src/3rd-party`, `src/jni`, `src/ztvad/webrtc` and `src/ztvad/kaldi-pitch`
are vendored or build files.

Done: `EventHub` with `EventChannel`, `VoiceActivation` with `AsrSession`, `WakeEngine` with
`VtWordManager`, `Framing`, `VoiceDetector` with `VadReport`, `AudioHistory`, `VoiceService`, each with its
proofs.

Left, in this order:

1. Configuration and life cycle: `init`, `set_parameters`, `enter_vbv`, the store that
   the handles of `zvbvapi.cpp` share and the first free deletes.
2. The content of what line 563 moves after a segment ended inside a word's history.
3. The session bookkeeping of the Java handler on top of `AsrSession`.
