---------------------------- MODULE EventChannel ----------------------------
(***************************************************************************)
(* What a client of VsysActivation_RegisterVoiceEventCallback is promised:  *)
(* the events of one handle reach the callback one at a time, in the order  *)
(* in which the processing thread produced them, each once; while the       *)
(* handle is open every event is eventually delivered; once the handle has  *)
(* been freed the callback is never entered again.  Events still waiting    *)
(* when the handle is being freed may be dropped.                           *)
(*                                                                          *)
(* Events are numbered in the order they are produced.                      *)
(***************************************************************************)
EXTENDS Naturals, Sequences

VARIABLES
    sent,        \* number of events produced so far
    delivered,   \* the sequence of events handed to the callback
    phase        \* "open", "closing" (inside Free) or "closed" (Free returned)

vars == <<sent, delivered, phase>>

Init ==
    /\ sent = 0
    /\ delivered = <<>>
    /\ phase = "open"

Send ==
    /\ phase = "open"
    /\ sent' = sent + 1
    /\ UNCHANGED <<delivered, phase>>

Deliver ==
    /\ phase # "closed"
    /\ Len(delivered) < sent
    /\ delivered' = Append(delivered, Len(delivered) + 1)
    /\ UNCHANGED <<sent, phase>>

Close ==
    /\ \/ phase = "open" /\ phase' = "closing"
       \/ phase = "closing" /\ phase' = "closed"
    /\ UNCHANGED <<sent, delivered>>

Next == Send \/ Deliver \/ Close

SafeSpec == Init /\ [][Next]_vars

(* An open handle does not sit on an undelivered event. *)
Spec == SafeSpec /\ WF_vars(phase = "open" /\ Deliver)
=============================================================================
