----------------------------- MODULE VadReport ------------------------------
(***************************************************************************)
(* What check_voice_activity promises the session logic of processfrm:      *)
(* segments of speech begin and end in turn, a call reports each change it  *)
(* saw, it returns at the first end, and the call made for a wake word      *)
(* reports a beginning and nothing else.                                    *)
(***************************************************************************)
EXTENDS Naturals

VARIABLES
    open,     \* a segment is open
    busy,     \* a call is in progress
    awake,    \* the call was made for a wake word
    report    \* the changes of this call, or of the last one

vars == <<open, busy, awake, report>>

Init == open = FALSE /\ busy = FALSE /\ awake = FALSE /\ report = {}

(* A detected word first drops the segment that is open. *)
Call(word, wake) ==
    /\ ~busy /\ busy' = TRUE
    /\ wake => word
    /\ awake' = wake /\ report' = {}
    /\ open' = (open /\ ~word)

On == /\ busy /\ ~open /\ report = {}
      /\ open' = TRUE /\ report' = {"on"}
      /\ busy' \in BOOLEAN /\ UNCHANGED awake

Off == /\ busy /\ open /\ ~awake
       /\ open' = FALSE /\ report' = report \cup {"off"}
       /\ busy' = FALSE /\ UNCHANGED awake

Return == /\ busy /\ busy' = FALSE
          /\ awake => report = {"on"}
          /\ UNCHANGED <<open, awake, report>>

Next == (\E word, wake \in BOOLEAN : Call(word, wake)) \/ On \/ Off \/ Return

Spec == Init /\ [][Next]_vars
=============================================================================
