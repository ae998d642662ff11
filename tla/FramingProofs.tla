--------------------------- MODULE FramingProofs ---------------------------
(***************************************************************************)
(* Machine-checked proofs about Framing, for every frame size and every     *)
(* sequence of chunk sizes.                                                 *)
(***************************************************************************)
EXTENDS Framing, TLAPS

(* Unless a short chunk has damaged it, buff begins with the samples that     *)
(* were given last and not handed on.                                         *)
BuffInv ==
    damage # "buff" =>
        \A k \in Index : k < buff_offset => buff[k] = fed - buff_offset + k + 1

(* The inductive invariant. *)
IInv == TypeOK /\ CountsAgree /\ BuffInv /\ FramesAreInput

-----------------------------------------------------------------------------
(* The constructor establishes the invariant. *)
LEMMA InitIInv == Init => IInv
  <1> SUFFICES ASSUME Init PROVE IInv
    OBVIOUS
  <1> USE ConstAssumption DEF Init
  <1>1. frames \in Seq([Index -> Nat]) /\ Len(frames) = 0
    OBVIOUS
  <1>2. TypeOK
    BY <1>1 DEF TypeOK, Index
  <1>3. CountsAgree /\ BuffInv /\ FramesAreInput
    BY <1>1 DEF CountsAgree, BuffInv, FramesAreInput, Index
  <1> QED BY <1>2, <1>3 DEF IInv

(* Division: the frames and the rest make up what there is. *)
LEMMA Division ==
    ASSUME NEW x \in Nat
    PROVE  /\ x \div frame_size \in Nat /\ x % frame_size \in 0..(frame_size - 1)
           /\ x = (x \div frame_size) * frame_size + (x % frame_size)
           /\ (x \div frame_size = 0) <=> x < frame_size
  BY ConstAssumption

(* One call of process, whatever the size of its chunk. *)
LEMMA ProcessIInv ==
    ASSUME IInv, NEW n \in Chunks, process(n)
    PROVE  IInv'
  <1> USE DEF IInv
  <1> DEFINE num == NumFrames(n)
             lo == Leftover(n)
             F == frame_size
  <1>1. /\ F \in Nat /\ F > 0 /\ n \in Nat /\ fed \in Nat /\ handed \in Nat
        /\ buff_offset \in Nat /\ buff_offset < F /\ Len(frames) \in Nat
    BY ConstAssumption DEF TypeOK, Index
  <1>2. /\ fed' = fed + n /\ handed' = handed + Len(frames) * F
        /\ frames' = [i \in 1..num |-> Frame(i)] /\ buff_offset' = lo
        /\ buff' = NewBuff(n, IF num = 0 THEN buff ELSE Frame(num))
    BY DEF process
  <1>3. /\ num \in Nat /\ lo \in Index
        /\ n + buff_offset = num * F + lo
        /\ (num = 0) <=> n + buff_offset < F
    <2>1. n + buff_offset \in Nat
      BY <1>1
    <2> QED BY <2>1, Division DEF NumFrames, Leftover, Index
  <1> HIDE DEF num, lo
  <1>4. fed = handed' + buff_offset /\ handed' \in Nat
    BY <1>1, <1>2 DEF CountsAgree
  <1>5. ASSUME NEW i \in 1..num, NEW k \in Index
        PROVE  /\ Frame(i)[k] \in Nat
               /\ ~(i = 1 /\ k < buff_offset) =>
                     Frame(i)[k] = handed' + (i - 1) * F + k + 1
               /\ i = 1 /\ k < buff_offset => Frame(i)[k] = buff[k]
    <2>1. k \in Nat /\ k < F /\ (i - 1) * F \in Nat
      BY <1>1, <1>3 DEF Index
    <2>2. i # 1 => (i - 1) * F >= F
      <3>1. i # 1 => i - 2 \in Nat
        BY <1>3
      <3>2. i # 1 => (i - 2) * F \in Nat /\ (i - 1) * F = (i - 2) * F + F
        BY <1>1, <3>1
      <3> QED BY <1>1, <2>1, <3>2
    <2>3. Frame(i)[k] = IF i = 1 /\ k < buff_offset THEN buff[k]
                        ELSE fed + ((i - 1) * F + k - buff_offset) + 1
      BY DEF Frame, Data
    <2>4. buff[k] \in Nat
      BY DEF TypeOK
    <2>5. ~(i = 1 /\ k < buff_offset) => (i - 1) * F + k - buff_offset \in Nat
      <3>1. i = 1 => (i - 1) * F = 0
        BY <1>1
      <3> QED BY <1>1, <2>1, <2>2, <3>1
    <2>6. CASE i = 1 /\ k < buff_offset
      BY <2>3, <2>4, <2>6
    <2>7. CASE ~(i = 1 /\ k < buff_offset)
      <3> DEFINE p == (i - 1) * F
      <3>1. p \in Nat /\ p + k - buff_offset \in Nat
        BY <2>1, <2>5, <2>7
      <3>2. Frame(i)[k] = fed + (p + k - buff_offset) + 1
        BY <2>3, <2>7
      <3> HIDE DEF p
      <3>3. fed + (p + k - buff_offset) + 1 = handed' + p + k + 1
        BY <1>1, <1>4, <2>1, <3>1
      <3>4. Frame(i)[k] \in Nat
        BY <1>1, <3>1, <3>2
      <3>5. Frame(i)[k] = handed' + (i - 1) * F + k + 1
        BY <3>2, <3>3 DEF p
      <3> QED BY <2>7, <3>4, <3>5
    <2> QED BY <2>6, <2>7
  <1>6. \A i \in 1..num : Frame(i) \in [Index -> Nat]
    <2> TAKE i \in 1..num
    <2>1. Frame(i) = [k \in Index |-> Frame(i)[k]]
      BY DEF Frame
    <2> QED BY <1>5, <2>1
  <1>7. frames' \in Seq([Index -> Nat]) /\ Len(frames') = num
    BY <1>2, <1>3, <1>6
  <1>8. damage' \in {"none", "buff", "frame"}
    BY <1>3 DEF process, num
  <1>9. num # 0 => num * F >= F /\ num * F \in Nat
    <2>1. num # 0 => num - 1 \in Nat
      BY <1>3
    <2>2. num # 0 => (num - 1) * F \in Nat /\ num * F = (num - 1) * F + F
      BY <1>1, <1>3, <2>1
    <2> QED BY <1>1, <2>2
  <1>10. num = 0 => num * F = 0
    BY <1>1
  <1>11. lo \in Nat /\ lo < F
    BY <1>1, <1>3 DEF Index
  <1> DEFINE len == Length(n)
             last == IF num = 0 THEN buff ELSE Frame(num)
  <1>12. /\ n + buff_offset > F => len = lo
         /\ ~(n + buff_offset > F) => len = n
    BY DEF Length, lo
  <1> HIDE DEF len
  <1>13. len \in Nat /\ n - len \in Nat
    <2>1. CASE n + buff_offset > F
      <3>1. num # 0
        BY <1>1, <1>3, <2>1
      <3> QED BY <1>1, <1>3, <1>9, <1>11, <1>12, <2>1, <3>1
    <2>2. CASE ~(n + buff_offset > F)
      BY <1>1, <1>12, <2>2
    <2> QED BY <2>1, <2>2
  <1>14. last \in [Index -> Nat]
    <2>1. CASE num = 0
      BY <2>1 DEF TypeOK
    <2>2. CASE num # 0
      BY <1>3, <1>6, <2>2
    <2> QED BY <2>1, <2>2
  <1>15. \A k \in Index : buff'[k] = IF k < len THEN fed + (n - len + k) + 1 ELSE last[k]
    BY <1>2 DEF NewBuff, Data, len
  <1>16. buff' \in [Index -> Nat]
    <2>1. buff' = [k \in Index |-> buff'[k]]
      BY <1>2 DEF NewBuff
    <2>2. \A k \in Index : k \in Nat
      BY <1>1 DEF Index
    <2> HIDE DEF last
    <2>3. \A k \in Index : buff'[k] \in Nat
      BY <1>1, <1>13, <1>14, <1>15, <2>2
    <2> QED BY <2>1, <2>3
  <1>17. TypeOK'
    <2>1. fed' \in Nat
      BY <1>1, <1>2
    <2>2. buff_offset' \in Index
      BY <1>2, <1>3
    <2> QED BY <1>4, <1>7, <1>8, <1>16, <2>1, <2>2 DEF TypeOK, Index
  <1>18. CountsAgree'
    <2> DEFINE p == num * F
    <2>1. p \in Nat
      BY <1>1, <1>3
    <2>2. n + buff_offset = p + lo /\ p = num * F
      BY <1>3
    <2> HIDE DEF p
    <2>3. fed' = handed' + p + lo
      <3>1. fed' = fed + n /\ n \in Nat /\ buff_offset \in Nat
        BY <1>1, <1>2
      <3>2. n + buff_offset = p + lo /\ lo \in Nat
        BY <1>11, <2>2
      <3> HIDE DEF IInv
      <3> QED BY <1>4, <2>1, <3>1, <3>2
    <2>4. fed' = handed' + Len(frames') * frame_size + buff_offset'
      BY <1>2, <1>7, <2>2, <2>3
    <2> QED BY <2>4 DEF CountsAgree
  <1>19. BuffInv'
    <2> SUFFICES ASSUME damage' # "buff", NEW k \in Index, k < lo
                 PROVE  buff'[k] = fed' - lo + k + 1
      BY <1>2 DEF BuffInv
    <2>0. k \in Nat
      BY <1>1 DEF Index
    <2>1. CASE n + buff_offset > F
      BY <1>1, <1>2, <1>11, <1>12, <1>15, <2>0, <2>1
    <2>2. CASE n + buff_offset = F
      <3>1. num # 0
        BY <1>1, <1>3, <2>2
      <3>2. lo = 0
        BY <1>1, <1>3, <1>9, <1>11, <2>2, <3>1
      <3> QED BY <2>0, <3>2
    <2>3. CASE n + buff_offset < F
      <3>1. num = 0 /\ lo = n + buff_offset /\ len = n
        BY <1>1, <1>3, <1>10, <1>11, <1>12, <2>3
      <3>2. damage # "buff" /\ (n = 0 \/ buff_offset = 0)
        BY <1>1, <3>1 DEF process, num
      <3>3. CASE n = 0
        BY <1>1, <1>2, <1>15, <2>0, <3>1, <3>2, <3>3 DEF BuffInv
      <3>4. CASE buff_offset = 0
        BY <1>1, <1>2, <1>15, <2>0, <3>1, <3>4
      <3> QED BY <3>2, <3>3, <3>4
    <2> QED BY <1>1, <2>1, <2>2, <2>3
  <1>20. FramesAreInput'
    <2> SUFFICES ASSUME NEW i \in 1..num, ~(i = 1 /\ damage' = "frame"), NEW k \in Index
                 PROVE  Frame(i)[k] = handed' + (i - 1) * F + k + 1
      BY <1>2, <1>7 DEF FramesAreInput
    <2>0. k \in Nat
      BY <1>1 DEF Index
    <2>1. CASE i = 1 /\ k < buff_offset
      <3>1. num # 0
        BY <1>3
      <3>2. damage # "buff"
        BY <1>3, <2>1, <3>1 DEF process, num
      <3>3. Frame(i)[k] = fed - buff_offset + k + 1
        BY <1>5, <2>1, <3>2 DEF BuffInv
      <3>4. (i - 1) * F = 0
        BY <1>1, <2>1
      <3> QED BY <1>1, <1>4, <2>0, <3>3, <3>4
    <2>2. CASE ~(i = 1 /\ k < buff_offset)
      BY <1>5, <2>2
    <2> QED BY <2>1, <2>2
  <1> QED BY <1>17, <1>18, <1>19, <1>20

-----------------------------------------------------------------------------
(* The inductive invariant holds in every reachable state. *)
THEOREM Invariance == Spec => []IInv
  <1>1. IInv /\ [Next]_vars => IInv'
    <2> SUFFICES ASSUME IInv, [Next]_vars PROVE IInv'
      OBVIOUS
    <2>1. CASE Next
      BY <2>1, ProcessIInv DEF Next
    <2>2. CASE UNCHANGED vars
      BY <2>2 DEF vars, IInv, TypeOK, CountsAgree, BuffInv, FramesAreInput
    <2> QED BY <2>1, <2>2
  <1> QED BY InitIInv, <1>1, PTL DEF Spec

(* The waiting samples never fill buff. *)
THEOREM TypeCorrect == Spec => []TypeOK
  <1>1. IInv => TypeOK BY DEF IInv
  <1> QED BY <1>1, Invariance, PTL

(* No sample is dropped or counted twice, for any chunk sizes. *)
THEOREM NoSampleLost == Spec => []CountsAgree
  <1>1. IInv => CountsAgree BY DEF IInv
  <1> QED BY <1>1, Invariance, PTL

(* The frames are the input stream but for a frame that took a short chunk. *)
THEOREM StreamInOrder == Spec => []FramesAreInput
  <1>1. IInv => FramesAreInput BY DEF IInv
  <1> QED BY <1>1, Invariance, PTL

(* If every chunk is empty or at least a frame, the frames are the input      *)
(* stream.                                                                    *)
THEOREM LongChunksInOrder ==
    ASSUME \A n \in Chunks : n = 0 \/ n >= frame_size
    PROVE  Spec => []FramesAlwaysInput
  <1>1. Init => damage = "none"
    BY DEF Init
  <1>2. IInv /\ damage = "none" /\ [Next]_vars => (damage = "none")'
    <2> SUFFICES ASSUME IInv, damage = "none", NEW n \in Chunks, process(n)
                 PROVE  damage' = "none"
      BY DEF Next, vars
    <2>1. n \in Nat /\ buff_offset \in Nat /\ n + buff_offset \in Nat
      BY ConstAssumption DEF IInv, TypeOK, Index
    <2>2. n # 0 => NumFrames(n) # 0 /\ NumFrames(n) \in Nat
      BY <2>1, Division, ConstAssumption DEF NumFrames
    <2>3. NumFrames(n) \in Nat
      BY <2>1, Division DEF NumFrames
    <2> QED BY <2>1, <2>2, <2>3 DEF process
  <1>3. IInv /\ damage = "none" => FramesAlwaysInput
    BY DEF IInv, FramesAreInput, FramesAlwaysInput
  <1> QED BY <1>1, <1>2, <1>3, Invariance, PTL DEF Spec
=============================================================================
