----------------------------- MODULE AsrSession -----------------------------
(***************************************************************************)
(* The stream of VAD_START / VAD_DATA / VAD_END / VAD_CANCEL events as a    *)
(* client that forwards it to a recogniser has to understand it.            *)
(*                                                                          *)
(* A session opens with START, carries DATA, and closes with END or CANCEL. *)
(* A CANCEL may also arrive while no session is open: it then means         *)
(* nothing.  With the local VAD off nobody announces the end of a           *)
(* session, and the next START replaces it.                                 *)
(***************************************************************************)
EXTENDS Naturals

VARIABLES
    localVad,   \* the handle was created with vad_enable = true
    open,       \* a session is open
    ev          \* the event of the last step, "none" if it had none

vars == <<localVad, open, ev>>

Init ==
    /\ localVad \in BOOLEAN
    /\ open = FALSE
    /\ ev = "none"

Start ==
    /\ localVad => ~open
    /\ open' = TRUE /\ ev' = "START" /\ UNCHANGED localVad

Data ==
    /\ open
    /\ ev' = "DATA" /\ UNCHANGED <<localVad, open>>

End ==
    /\ localVad /\ open
    /\ open' = FALSE /\ ev' = "END" /\ UNCHANGED localVad

Cancel ==
    /\ open' = FALSE /\ ev' = "CANCEL" /\ UNCHANGED localVad

Quiet ==
    /\ ev' = "none" /\ UNCHANGED <<localVad, open>>

Next == Start \/ Data \/ End \/ Cancel \/ Quiet

Spec == Init /\ [][Next]_vars
=============================================================================
