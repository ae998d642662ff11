---------------------------- MODULE VadInterface ----------------------------
(***************************************************************************)
(* What a call of check_voice_activity tells processfrm, as a function of   *)
(* what holds when it begins: VoiceActivation takes it as an input,         *)
(* VoiceDetector is shown to deliver it.                                    *)
(***************************************************************************)

(* The VAD_ON and VAD_OFF masks a call may return.  A wake word forces the    *)
(* start; otherwise a segment starts, ends, or starts and ends within the     *)
(* frames of this call.                                                       *)
CallResults(open, wake) ==
    IF wake THEN {{"on"}}
    ELSE IF open THEN {{}, {"off"}} ELSE {{}, {"on"}, {"on", "off"}}

(* has_vad after a call that began with open and returned result. *)
OpenAfter(open, result) == "off" \notin result /\ (open \/ "on" \in result)
=============================================================================
