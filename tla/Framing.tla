------------------------------ MODULE Framing ------------------------------
(***************************************************************************)
(* VoiceActivation::process: audio arrives in chunks of any size and is     *)
(* handed to processfrm in frames of frame_size samples; what does not fill *)
(* a frame waits in buff for the next chunk.                                *)
(*                                                                          *)
(* A sample is its number in the input stream; 0 is memory never written.   *)
(* All microphones are cut alike, so one stands for them.                   *)
(***************************************************************************)
EXTENDS Naturals, Sequences

CONSTANTS
    frame_size,
    Chunks,        \* samples per channel in one call of process
    MaxFed         \* bound: samples in one behaviour

ASSUME ConstAssumption ==
    frame_size \in Nat \ {0} /\ Chunks \subseteq Nat /\ MaxFed \in Nat

VARIABLES
    buff,          \* one frame of samples
    buff_offset,   \* samples waiting in it
    fed,           \* history: samples given to process so far
    handed,        \* history: samples handed to processfrm before this call
    frames,        \* history: the frames handed to processfrm by this call
    damage         \* history: "buff" when a chunk left a partly filled buff partly
                   \* filled, "frame" when this call's first frame took that buff

vars == <<buff, buff_offset, fed, handed, frames, damage>>
Index == 0..(frame_size - 1)

(* The constructor, and init's malloc_buffer2. *)
Init ==
    /\ buff = [k \in Index |-> 0] /\ buff_offset = 0
    /\ fed = 0 /\ handed = 0 /\ frames = <<>> /\ damage = "none"

-----------------------------------------------------------------------------
(* Sample k of data_mul, the converted chunk. *)
Data(k) == fed + k + 1

NumFramesMutant(n) == (n + buff_offset + 1) \div frame_size
NumFrames(n) == (n + buff_offset) \div frame_size

(* The later frames are read from where the chunk begins. *)
FrameMutant(i) ==
    [k \in Index |-> IF i > 1 THEN Data((i - 1) * frame_size + k)
                     ELSE IF k < buff_offset THEN buff[k] ELSE Data(k - buff_offset)]

(* Frame i of the loop: the first one completes what waits in buff, the       *)
(* others are read from the chunk alone.                                      *)
Frame(i) ==
    [k \in Index |-> IF i = 1 /\ k < buff_offset THEN buff[k]
                     ELSE Data((i - 1) * frame_size + k - buff_offset)]

LeftoverMutant(n) == n + buff_offset
Leftover(n) == (n + buff_offset) % frame_size

(* The last memcpy puts the end of the chunk at the beginning of buff.        *)
Length(n) == IF n + buff_offset > frame_size THEN Leftover(n) ELSE n

NewBuff(n, last) ==
    [k \in Index |-> IF k < Length(n) THEN Data(n - Length(n) + k) ELSE last[k]]

process(n) ==
    LET num == NumFrames(n)
    IN  /\ fed + n <= MaxFed
        /\ fed' = fed + n
        /\ handed' = handed + Len(frames) * frame_size
        /\ frames' = [i \in 1..num |-> Frame(i)]
        /\ buff_offset' = Leftover(n)
        /\ buff' = NewBuff(n, IF num = 0 THEN buff ELSE Frame(num))
        /\ damage' = CASE num > 0 -> (IF damage = "buff" THEN "frame" ELSE "none")
                       [] num = 0 -> (IF damage = "buff" \/ (n > 0 /\ buff_offset > 0)
                                      THEN "buff" ELSE "none")

Next == \E n \in Chunks : process(n)

Spec == Init /\ [][Next]_vars

-----------------------------------------------------------------------------
(* Types: the waiting samples never fill buff. *)
TypeOK ==
    /\ buff \in [Index -> Nat] /\ buff_offset \in Index
    /\ fed \in Nat /\ handed \in Nat /\ damage \in {"none", "buff", "frame"}
    /\ frames \in Seq([Index -> Nat])

(* Every sample given to process is in a frame handed on or waits in buff.    *)
CountsAgree == fed = handed + Len(frames) * frame_size + buff_offset

(* The frames process hands on are the input stream, in order, without gap or *)
(* repetition, whatever the sizes of the chunks, except for a frame of which  *)
(* a chunk too short to complete it was an inner part; the damage stays in    *)
(* that frame.                                                                *)
FramesAreInput ==
    \A i \in 1..Len(frames) :
        (i = 1 /\ damage = "frame") \/
        \A k \in Index : frames[i][k] = handed + (i - 1) * frame_size + k + 1

(* The example of the Android documentation hands on whatever was read        *)
(* (c > 0): the frames are the input stream for chunks of every size.         *)
FramesAlwaysInput ==
    \A i \in 1..Len(frames), k \in Index :
        frames[i][k] = handed + (i - 1) * frame_size + k + 1
=============================================================================
