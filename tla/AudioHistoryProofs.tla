------------------------- MODULE AudioHistoryProofs -------------------------
(***************************************************************************)
(* Proofs about AudioHistory, for rings, batches, inputs and windows of any *)
(* length that HistoryAssumption admits.                                    *)
(*                                                                          *)
(* The argument: what every cell of a ring holds is a linear function of    *)
(* the position (RingIs), putting audio keeps it and GetLastAudio reads the *)
(* frames asked for from it.  The rest is counting from the right end.      *)
(***************************************************************************)
EXTENDS AudioHistory, SequenceTheorems, TLAPS

(* Frame x, or silence when it came before from. *)
At(from, x) == IF x > from THEN x ELSE 0

(* Cells in front of pos hold the last frames, those behind it a round older. *)
Cell(n, pos, max, k) == IF k < pos THEN n - pos + k + 1 ELSE n - pos - max + k + 1

RingIs(r, max, n, from) ==
    \A k \in 0..(max - 1) : r.data[k] = At(from, Cell(n, r.pos, max, k))

(* Where the position is after len more cells. *)
Advance(pos, len, max) == IF pos + len < max THEN pos + len ELSE pos + len - max

(* s is the frames after frame n. *)
Following(s, n) == s \in Seq(Nat) /\ \A i \in 1..Len(s) : s[i] = n + i

(* The constants, one by one. *)
LEMMA ConstantTypes ==
    /\ N \in Nat \ {0} /\ W \in Nat \ {0} /\ B \in Nat \ {0}
    /\ Skip \in Nat /\ Off \in Nat /\ Pad \in Nat /\ Wait \in Nat /\ RightOff \in Nat
    /\ MaxBack \in Nat /\ RightOff <= Wait + Skip + Off + Pad
BY HistoryAssumption

(* A clean ring has seen nothing since frame n. *)
LEMMA CleanRing ==
    ASSUME NEW max \in Nat \ {0}, NEW n \in Nat
    PROVE  Clean(max) \in Rings(max) /\ RingIs(Clean(max), max, n, n)
BY SMT DEF Clean, Rings, RingIs, At, Cell

(* What PutAudio does to one cell. *)
LEMMA PutCell ==
    ASSUME NEW max \in Nat \ {0}, NEW r \in Rings(max), NEW s \in Seq(Nat),
           Len(s) < max
    PROVE  LET p == PutAudio(r, max, s)
               len == Len(s)
           IN  /\ p \in Rings(max)
               /\ p.pos = Advance(r.pos, len, max)
               /\ \A k \in 0..(max - 1) :
                    p.data[k] = IF r.pos <= k /\ k < r.pos + len THEN s[1 + k - r.pos]
                                ELSE IF k + max < r.pos + len THEN s[1 + k + max - r.pos]
                                ELSE r.data[k]
<1> DEFINE len == Len(s)
           len1 == IF len < max - r.pos THEN len ELSE max - r.pos
           pos1 == IF r.pos + len1 = max THEN 0 ELSE r.pos + len1
           d1 == Copy(r.data, r.pos, s, 0, len1)
           d2 == Copy(d1, pos1, s, len1, len - len1)
           p == PutAudio(r, max, s)
<1>0. r.pos \in 0..(max - 1) /\ r.data \in [0..(max - 1) -> Nat]
  BY DEF Rings
<1>1. len \in Nat /\ len < max /\ r.pos \in 0..(max - 1)
  BY <1>0
<1>2. len1 \in 0..len /\ pos1 \in 0..(max - 1)
      /\ (len - len1 > 0 => len1 = max - r.pos /\ pos1 = 0)
  BY <1>1, SMT
<1>3. \A i \in 1..len : s[i] \in Nat
  BY DEF len
<1>4. p = [data |-> d2, pos |-> pos1 + len - len1]
  BY DEF PutAudio
<1>5. d1 = [k \in 0..(max - 1) |->
              IF r.pos <= k /\ k < r.pos + len1 THEN s[0 + 1 + k - r.pos] ELSE r.data[k]]
  BY <1>0 DEF Copy
<1>6. d2 = [k \in 0..(max - 1) |->
              IF pos1 <= k /\ k < pos1 + (len - len1) THEN s[len1 + 1 + k - pos1] ELSE d1[k]]
  BY <1>5 DEF Copy
<1> HIDE DEF len, len1, pos1, d1, d2, p
<1>7. ASSUME NEW k \in 0..(max - 1)
      PROVE  d2[k] = IF r.pos <= k /\ k < r.pos + len THEN s[1 + k - r.pos]
                     ELSE IF k + max < r.pos + len THEN s[1 + k + max - r.pos]
                     ELSE r.data[k]
  <2>1. d1[k] = IF r.pos <= k /\ k < r.pos + len1 THEN s[1 + k - r.pos] ELSE r.data[k]
    <3>1. 0 + 1 + k - r.pos = 1 + k - r.pos
      BY <1>1
    <3> QED BY <1>5, <3>1
  <2>2. d2[k] = IF pos1 <= k /\ k < pos1 + (len - len1) THEN s[len1 + 1 + k - pos1] ELSE d1[k]
    BY <1>6
  <2>3. CASE len1 = len
    <3>1. ~(pos1 <= k /\ k < pos1 + (len - len1))
      BY <2>3, <1>1, <1>2
    <3>2. ~(k + max < r.pos + len)
      BY <2>3, <1>1, <1>2 DEF len1
    <3> QED BY <2>1, <2>2, <2>3, <3>1, <3>2
  <2>4. CASE len1 # len
    <3>1. len1 = max - r.pos /\ pos1 = 0
      BY <2>4, <1>1, <1>2
    <3>2. CASE k < len - len1
      <4>1. k < r.pos /\ k + max < r.pos + len /\ len1 + 1 + k - pos1 = 1 + k + max - r.pos
        BY <3>1, <3>2, <1>1, <1>2
      <4>2. ~(r.pos <= k)
        BY <4>1, <1>1
      <4>3. pos1 <= k /\ k < pos1 + (len - len1)
        BY <3>1, <3>2, <1>1, <1>2
      <4> QED BY <2>2, <4>1, <4>2, <4>3
    <3>3. CASE ~(k < len - len1)
      <4>1. ~(pos1 <= k /\ k < pos1 + (len - len1)) /\ ~(k + max < r.pos + len)
        BY <3>1, <3>3, <1>1
      <4>2. (r.pos <= k /\ k < r.pos + len1) <=> (r.pos <= k /\ k < r.pos + len)
        BY <3>1, <1>1, <1>2
      <4> QED BY <2>1, <2>2, <4>1, <4>2
    <3> QED BY <3>2, <3>3
  <2> QED BY <2>3, <2>4
<1>8. ASSUME NEW k \in 0..(max - 1) PROVE d2[k] \in Nat
  <2>1. r.pos <= k /\ k < r.pos + len => s[1 + k - r.pos] \in Nat
    BY <1>1, <1>3
  <2>2. k + max < r.pos + len => s[1 + k + max - r.pos] \in Nat
    BY <1>1, <1>3
  <2>3. r.data[k] \in Nat
    BY <1>0
  <2> QED BY <1>7, <2>1, <2>2, <2>3
<1>9. d2 \in [0..(max - 1) -> Nat]
  BY <1>6, <1>8
<1>10. pos1 + len - len1 = Advance(r.pos, len, max)
  BY <1>1, <1>2 DEF len1, pos1, Advance
<1>11. pos1 + len - len1 \in 0..(max - 1)
  BY <1>10, <1>1 DEF Advance
<1>12. p \in Rings(max)
  BY <1>4, <1>9, <1>11 DEF Rings
<1> QED BY <1>4, <1>7, <1>10, <1>12 DEF p, len

(* Where the cell k of a ring of max cells stands before and after len        *)
(* frames are put at q.                                                       *)
RoundRight(max, q, len, k, n) ==
    LET new == Cell(n + len, Advance(q, len, max), max, k)
    IN  /\ q <= k /\ k < q + len => new = n + (1 + k - q)
        /\ k + max < q + len => ~(q <= k) /\ new = n + (1 + k + max - q)
        /\ ~(q <= k /\ k < q + len) /\ ~(k + max < q + len) => new = Cell(n, q, max, k)

(* The arithmetic of a round, for rings of any size. *)
LEMMA RoundArithmetic ==
    ASSUME NEW max \in Nat, NEW q \in Nat, q < max, NEW len \in Nat, len < max,
           NEW k \in Nat, k < max, NEW n \in Nat
    PROVE  RoundRight(max, q, len, k, n)
<1> USE DEF RoundRight
<1>1. CASE q + len < max
  <2>1. Advance(q, len, max) = q + len
    BY <1>1 DEF Advance
  <2>2. Cell(n + len, Advance(q, len, max), max, k)
          = IF k < q + len THEN n + len - (q + len) + k + 1
                           ELSE n + len - (q + len) - max + k + 1
    BY <2>1 DEF Cell
  <2>3. CASE k < q + len
    BY <1>1, <2>2, <2>3 DEF Cell
  <2>4. CASE ~(k < q + len)
    BY <1>1, <2>2, <2>4 DEF Cell
  <2> QED BY <2>3, <2>4
<1>2. CASE ~(q + len < max)
  <2>1. Advance(q, len, max) = q + len - max
    BY <1>2 DEF Advance
  <2>2. Cell(n + len, Advance(q, len, max), max, k)
          = IF k < q + len - max THEN n + len - (q + len - max) + k + 1
                                 ELSE n + len - (q + len - max) - max + k + 1
    BY <2>1 DEF Cell
  <2> QED BY <1>2, <2>2 DEF Cell
<1> QED BY <1>1, <1>2

(* Putting the frames after frame n keeps the ring in order, wherever it      *)
(* wraps.                                                                     *)
LEMMA PutKeepsRing ==
    ASSUME NEW max \in Nat \ {0}, NEW r \in Rings(max), NEW n \in Nat,
           NEW from \in Nat, from <= n, RingIs(r, max, n, from),
           NEW s, Following(s, n), Len(s) < max
    PROVE  /\ PutAudio(r, max, s) \in Rings(max)
           /\ RingIs(PutAudio(r, max, s), max, n + Len(s), from)
<1> DEFINE p == PutAudio(r, max, s)
           len == Len(s)
<1>1. /\ p \in Rings(max)
      /\ p.pos = Advance(r.pos, len, max)
      /\ \A k \in 0..(max - 1) :
           p.data[k] = IF r.pos <= k /\ k < r.pos + len THEN s[1 + k - r.pos]
                       ELSE IF k + max < r.pos + len THEN s[1 + k + max - r.pos]
                       ELSE r.data[k]
  BY PutCell DEF Following
<1>2. /\ len \in Nat /\ len < max /\ r.pos \in 0..(max - 1)
      /\ \A i \in 1..len : s[i] = n + i
  BY DEF Following, Rings
<1> HIDE DEF p, len
<1>3. ASSUME NEW k \in 0..(max - 1)
      PROVE  p.data[k] = At(from, Cell(n + len, p.pos, max, k))
  <2> DEFINE new == Cell(n + len, p.pos, max, k)
  <2>1. /\ r.pos <= k /\ k < r.pos + len => new = n + (1 + k - r.pos)
        /\ k + max < r.pos + len => ~(r.pos <= k) /\ new = n + (1 + k + max - r.pos)
        /\ ~(r.pos <= k /\ k < r.pos + len) /\ ~(k + max < r.pos + len) =>
             new = Cell(n, r.pos, max, k)
    <3>1. /\ max \in Nat /\ r.pos \in Nat /\ r.pos < max /\ len \in Nat /\ len < max
          /\ k \in Nat /\ k < max
      BY <1>2
    <3>2. p.pos = Advance(r.pos, len, max)
      BY <1>1
    <3>3. RoundRight(max, r.pos, len, k, n)
      BY <3>1, RoundArithmetic
    <3> QED BY <3>2, <3>3 DEF RoundRight
  <2> HIDE DEF new
  <2>2. CASE r.pos <= k /\ k < r.pos + len
    <3>1. 1 + k - r.pos \in 1..len
      BY <2>2, <1>2
    <3>2. p.data[k] = new
      BY <2>1, <2>2, <3>1, <1>1, <1>2
    <3>3. new > from
      BY <2>1, <2>2, <3>1, <1>2
    <3> QED BY <3>2, <3>3 DEF At, new
  <2>3. CASE k + max < r.pos + len
    <3>1. 1 + k + max - r.pos \in 1..len
      BY <2>3, <1>2
    <3>2. p.data[k] = new
      BY <2>1, <2>3, <3>1, <1>1, <1>2
    <3>3. new > from
      BY <2>1, <2>3, <3>1, <1>2
    <3> QED BY <3>2, <3>3 DEF At, new
  <2>4. CASE ~(r.pos <= k /\ k < r.pos + len) /\ ~(k + max < r.pos + len)
    <3>1. p.data[k] = r.data[k]
      BY <2>4, <1>1
    <3>2. r.data[k] = At(from, Cell(n, r.pos, max, k))
      BY DEF RingIs
    <3> QED BY <2>1, <2>4, <3>1, <3>2 DEF new
  <2> QED BY <2>2, <2>3, <2>4
<1> QED BY <1>1, <1>3 DEF RingIs, p, len

(* GetLastAudio of such a ring gives the frames asked for.                    *)
LEMMA GetGivesFrames ==
    ASSUME NEW max \in Nat \ {0}, NEW r \in Rings(max), NEW n \in Nat,
           NEW from \in Nat, RingIs(r, max, n, from),
           NEW start \in 0..(max - 1), NEW end \in Nat
    PROVE  GetLastAudio(r, max, start, end) = Frames(n, from, start, end)
<1>1. r.pos \in 0..(max - 1)
  BY DEF Rings
<1>2. ASSUME NEW j \in 1..(start - end)
      PROVE  (IF start < r.pos THEN r.data[r.pos - start + j - 1]
              ELSE IF end > r.pos \/ j <= start - r.pos THEN r.data[max + r.pos - start + j - 1]
              ELSE r.data[j - 1 - (start - r.pos)])
             = At(from, n - start + j)
  <2>1. CASE start < r.pos
    <3>1. r.pos - start + j - 1 \in 0..(max - 1) /\ r.pos - start + j - 1 < r.pos
      BY <1>1, <2>1
    <3>2. n - r.pos + (r.pos - start + j - 1) + 1 = n - start + j
      BY <1>1
    <3> QED BY <2>1, <3>1, <3>2 DEF RingIs, Cell
  <2>2. CASE ~(start < r.pos) /\ (end > r.pos \/ j <= start - r.pos)
    <3>1. max + r.pos - start + j - 1 \in 0..(max - 1)
          /\ ~(max + r.pos - start + j - 1 < r.pos)
      BY <1>1, <2>2
    <3>2. n - r.pos - max + (max + r.pos - start + j - 1) + 1 = n - start + j
      BY <1>1
    <3> QED BY <2>2, <3>1, <3>2 DEF RingIs, Cell
  <2>3. CASE ~(start < r.pos) /\ ~(end > r.pos \/ j <= start - r.pos)
    <3>1. j - 1 - (start - r.pos) \in 0..(max - 1) /\ j - 1 - (start - r.pos) < r.pos
      BY <1>1, <2>3
    <3>2. n - r.pos + (j - 1 - (start - r.pos)) + 1 = n - start + j
      BY <1>1
    <3> QED BY <2>3, <3>1, <3>2 DEF RingIs, Cell
  <2> QED BY <2>1, <2>2, <2>3
<1> QED BY <1>2 DEF GetLastAudio, Frames, At
-----------------------------------------------------------------------------
(* The batches.                                                               *)

LEMMA LeftRange ==
    ASSUME NEW s, Len(s) \in Nat
    PROVE  /\ Left(s) \in 0..(B - 1) /\ Left(s) <= Len(s)
           /\ Len(s) < B => Left(s) = Len(s)
<1>1. B \in Nat \ {0}
  BY HistoryAssumption
<1> QED BY <1>1 DEF Left

(* The last m elements of a sequence. *)
LEMMA LastElements ==
    ASSUME NEW s \in Seq(Nat), NEW m \in 0..Len(s)
    PROVE  LET c == SubSeq(s, Len(s) - m + 1, Len(s))
           IN  /\ c \in Seq(Nat) /\ Len(c) = m
               /\ \A k \in 1..m : c[k] = s[Len(s) - m + k]
<1> DEFINE len == Len(s)
           a == len - m + 1
           c == SubSeq(s, a, len)
<1>1. len \in Nat /\ m \in Nat /\ m <= len /\ \A i \in 1..len : s[i] \in Nat
  OBVIOUS
<1> HIDE DEF len
<1>2. a \in Int /\ len \in Int /\ \A i \in a..len : s[i] \in Nat
  BY <1>1
<1>3. len - a + 1 = m /\ (m = 0 => ~(a <= len)) /\ (m # 0 => a <= len)
  BY <1>1
<1> HIDE DEF a, c
<1>4. /\ c \in Seq(Nat) /\ Len(c) = (IF a <= len THEN len - a + 1 ELSE 0)
      /\ \A i \in 1..(len - a + 1) : c[i] = s[a + i - 1]
  BY <1>2, SubSeqProperties DEF c
<1>5. Len(c) = m
  BY <1>3, <1>4
<1>6. ASSUME NEW k \in 1..m PROVE c[k] = s[len - m + k]
  <2>1. a + k - 1 = len - m + k
    BY <1>1 DEF a
  <2> QED BY <1>3, <1>4, <2>1
<1> QED BY <1>4, <1>5, <1>6 DEF a, c, len

(* The frames the engine has not been given are the last ones of the buffer.  *)
LEMMA CarryFollows ==
    ASSUME NEW s \in Seq(Nat), NEW n \in Nat,
           \A k \in 1..Len(s) : s[k] = n - Len(s) + k
    PROVE  /\ Carry(s) \in Seq(Nat) /\ Len(Carry(s)) = Left(s)
           /\ \A k \in 1..Left(s) : Carry(s)[k] = n - Left(s) + k
<1>1. Len(s) \in Nat /\ Left(s) \in 0..Len(s) /\ (Len(s) < B => Left(s) = Len(s))
  BY LeftRange
<1>2. CASE Len(s) >= B
  <2> DEFINE c == SubSeq(s, Len(s) - Left(s) + 1, Len(s))
  <2>1. Carry(s) = c
    BY <1>2 DEF Carry
  <2>2. c \in Seq(Nat) /\ Len(c) = Left(s)
        /\ \A k \in 1..Left(s) : c[k] = s[Len(s) - Left(s) + k]
    BY <1>1, LastElements
  <2> HIDE DEF c
  <2>3. ASSUME NEW k \in 1..Left(s) PROVE c[k] = n - Left(s) + k
    <3> DEFINE l == Left(s)
               i == Len(s) - l + k
    <3>1. i \in 1..Len(s) /\ n - Len(s) + i = n - l + k
      BY <1>1
    <3>2. s[i] = n - Len(s) + i
      BY <3>1
    <3> QED BY <2>2, <3>1, <3>2
  <2> QED BY <2>1, <2>2, <2>3
<1>3. CASE ~(Len(s) >= B)
  <2>1. Carry(s) = s /\ Left(s) = Len(s)
    BY <1>1, <1>3, HistoryAssumption DEF Carry
  <2> QED BY <2>1
<1> QED BY <1>2, <1>3

-----------------------------------------------------------------------------
(* The inductive invariant. *)
History ==
    /\ TypeOK /\ since <= processed
    /\ RingIs(aud, N, total, 0) /\ RingIs(wav, W, processed, since)
    /\ EngineBehind /\ BeamAudioCurrent

(* What Process makes of the input, before the engine looks for words.        *)
Given(n, chunk, all) ==
    /\ n \in 1..MaxChunk /\ chunk = [i \in 1..n |-> total + i]
    /\ all = Carry(in) \o chunk
    /\ total' = total + n
    /\ aud' = PutAudio(aud, N, chunk) /\ in' = all
    /\ processed' = processed + Len(Batch(all))
    /\ wav' = PutAudio(wav, W, Batch(all))
    /\ UNCHANGED since

(* Rings, batch and counts after an input. *)
LEMMA InputKept ==
    ASSUME History, NEW n, NEW chunk, NEW all, Given(n, chunk, all)
    PROVE  /\ total' \in Nat /\ processed' \in Nat /\ since' \in Nat /\ since' <= processed'
           /\ Following(chunk, total) /\ Len(chunk) = n /\ n \in Nat
           /\ aud' \in Rings(N) /\ RingIs(aud', N, total', 0)
           /\ wav' \in Rings(W) /\ RingIs(wav', W, processed', since')
           /\ in' \in Seq(Nat) /\ EngineBehind'
           /\ Left(all) \in 0..(B - 1) /\ processed' + Left(all) = total'
           /\ processed' >= processed
           /\ Len(Batch(all)) = processed' - processed
<1>1. /\ B \in Nat \ {0} /\ N \in Nat \ {0} /\ W \in Nat \ {0} /\ MaxChunk \in Nat
      /\ MaxChunk < N /\ MaxChunk + B <= W
  BY HistoryAssumption
<1>2. /\ total \in Nat /\ processed \in Nat /\ since \in Nat /\ since <= processed
      /\ aud \in Rings(N) /\ wav \in Rings(W) /\ in \in Seq(Nat)
  BY DEF History, TypeOK
<1>3. /\ processed + Left(in) = total
      /\ \A k \in 1..Len(in) : in[k] = total - Len(in) + k
  BY DEF History, EngineBehind
<1>4. n \in Nat /\ n >= 1 /\ n <= MaxChunk
  BY <1>1 DEF Given
<1>5. Following(chunk, total) /\ Len(chunk) = n
  <2>1. chunk \in [1..n -> Nat] /\ \A i \in 1..n : chunk[i] = total + i
    BY <1>2, <1>4 DEF Given
  <2>2. chunk \in Seq(Nat) /\ Len(chunk) = n
    BY <2>1, <1>4
  <2> QED BY <2>1, <2>2 DEF Following
<1>6. aud' \in Rings(N) /\ RingIs(aud', N, total', 0)
  <2>1. RingIs(aud, N, total, 0)
    BY DEF History
  <2>2. Len(chunk) < N
    BY <1>1, <1>4, <1>5
  <2>3. PutAudio(aud, N, chunk) \in Rings(N)
        /\ RingIs(PutAudio(aud, N, chunk), N, total + Len(chunk), 0)
    <3>1. 0 \in Nat /\ 0 <= total
      BY <1>2
    <3> QED BY <1>1, <1>2, <1>5, <2>1, <2>2, <3>1, PutKeepsRing
  <2> QED BY <2>3, <1>5 DEF Given
<1> DEFINE c == Carry(in)
           l == Left(in)
<1>7. /\ c \in Seq(Nat) /\ Len(c) = l
      /\ \A k \in 1..l : c[k] = total - l + k
  BY <1>2, <1>3, CarryFollows
<1>8. l \in 0..(B - 1) /\ l \in Nat
  <2>1. Len(in) \in Nat
    BY <1>2
  <2> QED BY <2>1, LeftRange, <1>1
<1>a. processed + l = total
  BY <1>3
<1> HIDE DEF c, l
<1>9. /\ all \in Seq(Nat) /\ Len(all) = l + n
      /\ \A k \in 1..(l + n) : all[k] = IF k <= l THEN c[k] ELSE chunk[k - l]
  <2>1. all = c \o chunk
    BY DEF Given, c
  <2>2. chunk \in Seq(Nat)
    BY <1>5 DEF Following
  <2> QED BY <1>5, <1>7, <2>1, <2>2, ConcatProperties
<1>10. \A k \in 1..Len(all) : all[k] = total - l + k
  <2>1. ASSUME NEW k \in 1..(l + n) PROVE all[k] = total - l + k
    <3>1. CASE k <= l
      <4>1. all[k] = c[k] /\ k \in 1..l
        BY <3>1, <1>8, <1>9
      <4> QED BY <4>1, <1>7
    <3>2. CASE ~(k <= l)
      <4>1. k - l \in 1..n /\ total + (k - l) = total - l + k
        BY <3>2, <1>2, <1>4, <1>8
      <4>2. all[k] = chunk[k - l]
        BY <3>2, <1>9
      <4>3. chunk[k - l] = total + (k - l)
        BY <4>1, <1>5 DEF Following
      <4> QED BY <4>1, <4>2, <4>3
    <3> QED BY <3>1, <3>2
  <2> QED BY <2>1, <1>9
<1> DEFINE m == Left(all)
           b == Batch(all)
<1>11. m \in 0..(B - 1) /\ m \in Nat /\ m <= l + n
  <2>1. Len(all) \in Nat
    BY <1>4, <1>8, <1>9
  <2>2. Left(all) \in 0..(B - 1) /\ Left(all) <= Len(all)
    BY <2>1, LeftRange
  <2> QED BY <2>2, <1>1, <1>9
<1> HIDE DEF m
<1>12. b \in Seq(Nat) /\ Len(b) = l + n - m /\ \A k \in 1..Len(b) : b[k] = all[k]
  <2> DEFINE e == l + n - m
  <2>1. b = SubSeq(all, 1, e)
    <3>0. Len(all) = l + n
      BY <1>9
    <3>1. Len(all) - Left(all) = e
      BY <3>0, <1>4, <1>8, <1>11 DEF m
    <3> QED BY <3>1 DEF Batch, b
  <2>2. e \in Nat /\ e <= l + n
    BY <1>4, <1>8, <1>11
  <2> HIDE DEF e
  <2>3. 1 \in Int /\ e \in Int /\ \A i \in 1..e : all[i] \in Nat
    BY <2>2, <1>4, <1>8, <1>9
  <2>4. /\ b \in Seq(Nat) /\ Len(b) = (IF 1 <= e THEN e - 1 + 1 ELSE 0)
        /\ \A i \in 1..(e - 1 + 1) : b[i] = all[1 + i - 1]
    BY <2>1, <2>3, SubSeqProperties
  <2>5. Len(b) = e /\ e - 1 + 1 = e
    BY <2>2, <2>4
  <2>6. \A i \in 1..e : 1 + i - 1 = i
    BY <2>2
  <2> QED BY <2>4, <2>5, <2>6 DEF e
<1> HIDE DEF b
<1>13. Len(b) \in Nat /\ Len(b) < W
  BY <1>1, <1>4, <1>8, <1>11, <1>12
<1>14. Following(b, processed)
  <2>1. ASSUME NEW i \in 1..Len(b) PROVE b[i] = processed + i
    <3>1. i \in 1..Len(all) /\ total - l + i = processed + i
      BY <1>a, <1>2, <1>4, <1>8, <1>9, <1>11, <1>12
    <3> QED BY <3>1, <1>10, <1>12
  <2> QED BY <2>1, <1>12 DEF Following
<1>15. wav' \in Rings(W) /\ RingIs(wav', W, processed', since')
  <2>1. RingIs(wav, W, processed, since)
    BY DEF History
  <2>2. PutAudio(wav, W, b) \in Rings(W)
        /\ RingIs(PutAudio(wav, W, b), W, processed + Len(b), since)
    BY <1>1, <1>2, <1>13, <1>14, <2>1, PutKeepsRing
  <2> QED BY <2>2 DEF b, Given
<1>16. processed' = processed + Len(b) /\ total' = total + n /\ in' = all /\ since' = since
  BY DEF b, Given
<1>17. processed' + m = total'
  BY <1>16, <1>a, <1>2, <1>4, <1>8, <1>11, <1>12
<1>18. EngineBehind'
  <2>1. ASSUME NEW k \in 1..Len(all) PROVE all[k] = total' - Len(all) + k
    <3>1. all[k] = total - l + k
      BY <1>10
    <3>2. total' - Len(all) + k = total - l + k
      BY <1>2, <1>4, <1>8, <1>9, <1>16
    <3> QED BY <3>1, <3>2
  <2>2. processed' + Left(all) = total'
    BY <1>17 DEF m
  <2> QED BY <2>1, <2>2, <1>16 DEF EngineBehind, Left
<1>19. /\ total' \in Nat /\ processed' \in Nat /\ since' \in Nat /\ since' <= processed'
       /\ processed' >= processed
  BY <1>2, <1>4, <1>13, <1>16
<1>20. Len(Batch(all)) = processed' - processed
  BY <1>2, <1>13, <1>16 DEF b
<1> QED BY <1>4, <1>5, <1>6, <1>9, <1>11, <1>15, <1>16, <1>17, <1>18, <1>19, <1>20 DEF m
-----------------------------------------------------------------------------
(* The windows.                                                               *)

(* Frames is a sequence of frames. *)
IsFrames(s, n, from, len) ==
    /\ s \in Seq(Nat) /\ Len(s) = len
    /\ \A j \in 1..len : s[j] = At(from, n - len + j)

(* What Frames gives up to frame n. *)
LEMMA FramesSeq ==
    ASSUME NEW n \in Nat, NEW from \in Nat, NEW start \in Nat
    PROVE  IsFrames(Frames(n, from, start, 0), n, from, start)
<1> DEFINE F == Frames(n, from, start, 0)
<1>1. F = [j \in 1..start |-> At(from, n - start + j)]
  <2>1. start - 0 = start
    OBVIOUS
  <2> QED BY <2>1 DEF Frames, At
<1>2. ASSUME NEW j \in 1..start PROVE At(from, n - start + j) \in Nat
  BY DEF At
<1> HIDE DEF F
<1>3. F \in [1..start -> Nat]
  BY <1>1, <1>2
<1>4. F \in Seq(Nat) /\ Len(F) = start
  BY <1>3
<1> QED BY <1>1, <1>4 DEF F, IsFrames

(* A window of the beam-formed audio, counted from the last frame the engine  *)
(* has, in a buffer that reaches left frames further.                         *)
ReadIsRight(s, left, n, start, end) ==
    Read(s, left, n, start, end)[1] = Read(s, left, n, start, end)[2]

(* Such a window is right if the buffer is long enough. *)
LEMMA ReadRight ==
    ASSUME NEW t \in Nat, NEW n \in Nat, NEW left \in Nat, n + left = t,
           NEW L \in Nat, NEW s, s = Frames(t, 0, L, 0),
           NEW start \in Int, NEW end \in Nat, start + left <= L
    PROVE  ReadIsRight(s, left, n, start, end)
<1>1. /\ Len(s) = L /\ \A j \in 1..L : s[j] = At(0, t - L + j)
  <2>1. 0 \in Nat
    OBVIOUS
  <2>2. IsFrames(Frames(t, 0, L, 0), t, 0, L)
    BY <2>1, FramesSeq
  <2> QED BY <2>2 DEF IsFrames
<1> DEFINE a == start + left
           e == end + left
<1>2. a \in Int /\ e \in Int /\ a <= L /\ L \in Int
  OBVIOUS
<1>b. a - e = start - end
  OBVIOUS
<1>3. ASSUME NEW j \in 1..(start - end)
      PROVE  (IF a <= Len(s) \/ j > a - Len(s) THEN s[Len(s) - a + j] ELSE -1)
                = At(0, n - start + j)
  <2>1. L - a + j \in 1..L /\ t - L + (L - a + j) = n - start + j
    OBVIOUS
  <2>2. s[L - a + j] = At(0, n - start + j)
    BY <1>1, <2>1
  <2> QED BY <1>1, <1>2, <2>2
<1>4. GetBuff(s, a, e) = [j \in 1..(start - end) |-> At(0, n - start + j)]
  <2> HIDE DEF a, e
  <2> QED BY <1>2, <1>b, <1>3 DEF GetBuff
<1>5. Frames(n, 0, start, end) = [j \in 1..(start - end) |-> At(0, n - start + j)]
  BY DEF Frames, At
<1> QED BY <1>4, <1>5 DEF Read, ReadIsRight

(* The state after the rings were filled, and a word back frames before.      *)
Word(left, back, o) ==
    /\ total' \in Nat /\ processed' \in Nat /\ since' \in Nat
    /\ left \in 0..(B - 1) /\ processed' + left = total'
    /\ aud' \in Rings(N) /\ RingIs(aud', N, total', 0)
    /\ wav' \in Rings(W) /\ RingIs(wav', W, processed', since')
    /\ back \in 1..MaxBack /\ o \in 1..back

(* The audio my_dosecsl_callback takes is the last frames given. *)
LEMMA SecSlRight ==
    ASSUME NEW left, NEW back, NEW o, Word(left, back, o)
    PROVE  LET L == back + Skip + Off + Pad + left
           IN  L \in Nat /\ SecSl(aud', left, back) = Frames(total', 0, L, 0)
<1> DEFINE L == back + Skip + Off + Pad + left
<1>1. /\ total' \in Nat /\ left \in 0..(B - 1) /\ back \in 1..MaxBack
      /\ aud' \in Rings(N) /\ RingIs(aud', N, total', 0)
  BY DEF Word
<1>2. /\ {B, Skip, Off, Pad, MaxBack, N} \subseteq Nat /\ N # 0
      /\ MaxBack + Skip + Off + Pad + B <= N
  BY HistoryAssumption
<1>3. L \in 0..(N - 1) /\ L \in Nat
  BY <1>1, <1>2
<1>4. GetLastAudio(aud', N, L, 0) = Frames(total', 0, L, 0)
  <2> HIDE DEF L
  <2>1. N \in Nat \ {0} /\ 0 \in Nat
    BY <1>2
  <2> QED BY <1>1, <1>3, <2>1, GetGivesFrames
<1> QED BY <1>3, <1>4 DEF SecSl

(* The checks of a word read the right windows. *)
LEMMA WordReadsRight ==
    ASSUME NEW left, NEW back, NEW o, Word(left, back, o), since' = since,
           NEW r \in WordReads(SecSl(aud', left, back), wav', left, processed', back, o)
    PROVE  r[1] = r[2]
<1> DEFINE L == back + Skip + Off + Pad + left
           cfEnd == IF o > CfLag THEN o - CfLag ELSE 0
           s == SecSl(aud', left, back)
<1>1. /\ total' \in Nat /\ processed' \in Nat /\ since' \in Nat
      /\ left \in Nat /\ processed' + left = total'
      /\ wav' \in Rings(W) /\ RingIs(wav', W, processed', since')
  BY HistoryAssumption DEF Word
<1>2. /\ {B, Skip, Off, Pad, MaxBack, N, W, CfLag} \subseteq Nat /\ W # 0
      /\ MaxBack + Pad < W
  BY HistoryAssumption
<1>3. back \in 1..MaxBack /\ back \in Nat /\ o \in 1..back /\ o \in Nat
  BY <1>2 DEF Word
<1>4. L \in Nat /\ s = Frames(total', 0, L, 0)
  BY SecSlRight
<1>5. cfEnd \in Nat
  BY <1>2, <1>3
<1>6. \/ r = Read(s, left, processed', back + Pad, cfEnd)
      \/ r = <<GetLastAudio(wav', W, back + Pad, cfEnd),
               Frames(processed', since, back + Pad, cfEnd)>>
      \/ r = Read(s, left, processed', back, o)
      \/ r = Read(s, left, processed', back + Skip + Off, back + Skip)
  BY DEF WordReads
<1> HIDE DEF s, cfEnd
<1>7. CASE r = Read(s, left, processed', back + Pad, cfEnd)
  <2>1. back + Pad \in Int /\ back + Pad + left <= L
    BY <1>1, <1>2, <1>3
  <2> HIDE DEF L
  <2>2. ReadIsRight(s, left, processed', back + Pad, cfEnd)
    BY <1>1, <1>4, <1>5, <2>1, ReadRight
  <2> QED BY <1>7, <2>2 DEF ReadIsRight
<1>8. CASE r = <<GetLastAudio(wav', W, back + Pad, cfEnd),
                 Frames(processed', since, back + Pad, cfEnd)>>
  <2>1. back + Pad \in 0..(W - 1) /\ W \in Nat \ {0}
    BY <1>2, <1>3
  <2>2. GetLastAudio(wav', W, back + Pad, cfEnd) = Frames(processed', since', back + Pad, cfEnd)
    BY <1>1, <1>5, <2>1, GetGivesFrames
  <2> QED BY <1>8, <2>2
<1>9. CASE r = Read(s, left, processed', back, o)
  <2>1. back \in Int /\ back + left <= L
    BY <1>1, <1>2, <1>3
  <2> HIDE DEF L
  <2>2. ReadIsRight(s, left, processed', back, o)
    BY <1>1, <1>3, <1>4, <2>1, ReadRight
  <2> QED BY <1>9, <2>2 DEF ReadIsRight
<1>10. CASE r = Read(s, left, processed', back + Skip + Off, back + Skip)
  <2>1. back + Skip + Off \in Int /\ back + Skip \in Nat /\ back + Skip + Off + left <= L
    BY <1>1, <1>2, <1>3
  <2> HIDE DEF L
  <2>2. ReadIsRight(s, left, processed', back + Skip + Off, back + Skip)
    BY <1>1, <1>4, <2>1, ReadRight
  <2> QED BY <1>10, <2>2 DEF ReadIsRight
<1> QED BY <1>6, <1>7, <1>8, <1>9, <1>10

(* processfrm reads the right window. *)
LEMMA LookupRight ==
    ASSUME NEW left, NEW back, NEW o, Word(left, back, o)
    PROVE  Lookup(aud', left, processed', back)[1] = Lookup(aud', left, processed', back)[2]
<1> DEFINE S == back + left + Extra
<1>1. /\ total' \in Nat /\ processed' \in Nat /\ left \in 0..(B - 1) /\ back \in 1..MaxBack
      /\ aud' \in Rings(N) /\ RingIs(aud', N, total', 0) /\ processed' + left = total'
  BY DEF Word
<1>2. {B, Extra, MaxBack, N} \subseteq Nat /\ N # 0 /\ MaxBack + Extra + B <= N
  BY HistoryAssumption
<1>3. S \in 0..(N - 1)
  BY <1>1, <1>2
<1>4. GetLastAudio(aud', N, S, 0) = Frames(total', 0, S, 0)
  <2> HIDE DEF S
  <2>1. N \in Nat \ {0} /\ 0 \in Nat
    BY <1>2
  <2> QED BY <1>1, <1>3, <2>1, GetGivesFrames
<1> QED BY <1>1, <1>4 DEF Lookup
-----------------------------------------------------------------------------
(* The steps.                                                                 *)

(* What every input establishes, before the case of the words. *)
LEMMA BeamGrows ==
    ASSUME History, NEW n, NEW chunk, NEW all, Given(n, chunk, all)
    PROVE  /\ PutBuff(chunk) \in Seq(Nat)
           /\ m_bWorking => /\ PutBuff(chunk) = Frames(total', 0, Len(PutBuff(chunk)), 0)
                            /\ Len(PutBuff(chunk)) + due >= total' + RightOff
<1>1. /\ Following(chunk, total) /\ Len(chunk) = n /\ n \in Nat /\ total' \in Nat
  BY InputKept
<1>2. total' = total + n
  BY DEF Given
<1>3. /\ total \in Nat /\ bf \in Seq(Nat) /\ due \in Int /\ RightOff \in Nat
  BY HistoryAssumption DEF History, TypeOK
<1>4. chunk \in Seq(Nat) /\ \A i \in 1..n : chunk[i] = total + i
  BY <1>1 DEF Following
<1>5. CASE ~m_bWorking
  BY <1>3, <1>5 DEF PutBuff
<1>6. CASE m_bWorking
  <2> DEFINE l == Len(bf)
             s == bf \o chunk
             F == Frames(total', 0, l + n, 0)
  <2>1. PutBuff(chunk) = s
    BY <1>6 DEF PutBuff
  <2>2. /\ l \in Nat /\ bf = Frames(total, 0, l, 0) /\ l + due >= total + RightOff
    BY <1>3, <1>6 DEF History, BeamAudioCurrent
  <2> HIDE DEF l
  <2>3. /\ s \in Seq(Nat) /\ Len(s) = l + n
        /\ \A k \in 1..(l + n) : s[k] = IF k <= l THEN bf[k] ELSE chunk[k - l]
    BY <1>1, <1>3, <1>4, ConcatProperties DEF l
  <2>4. IsFrames(bf, total, 0, l)
    BY <1>3, <2>2, FramesSeq, 0 \in Nat
  <2>5. IsFrames(F, total', 0, l + n)
    <3>1. l + n \in Nat /\ 0 \in Nat
      BY <1>1, <2>2
    <3> QED BY <1>1, <3>1, FramesSeq
  <2> HIDE DEF s, F
  <2>6. ASSUME NEW k \in 1..(l + n) PROVE s[k] = F[k]
    <3>1. F[k] = At(0, total' - (l + n) + k)
      BY <2>5 DEF IsFrames
    <3>2. CASE k <= l
      <4>1. k \in 1..l /\ total' - (l + n) + k = total - l + k
        BY <3>2, <1>1, <1>2, <1>3, <2>2
      <4>2. s[k] = bf[k]
        BY <3>2, <2>3
      <4>3. bf[k] = At(0, total - l + k)
        BY <2>4, <4>1 DEF IsFrames
      <4> QED BY <3>1, <4>1, <4>2, <4>3
    <3>3. CASE ~(k <= l)
      <4>1. k - l \in 1..n /\ total' - (l + n) + k = total + (k - l) /\ total + (k - l) > 0
        BY <3>3, <1>1, <1>2, <1>3, <2>2
      <4>2. s[k] = chunk[k - l]
        BY <3>3, <2>3
      <4>3. chunk[k - l] = total + (k - l)
        BY <1>4, <4>1
      <4> QED BY <3>1, <4>1, <4>2, <4>3 DEF At
    <3> QED BY <3>2, <3>3
  <2>7. s = F
    <3>1. F \in Seq(Nat) /\ Len(F) = l + n
      BY <2>5 DEF IsFrames
    <3> QED BY <2>3, <2>6, <3>1, SeqEqual
  <2>8. Len(s) + due >= total' + RightOff
    <3>1. Len(s) = l + n
      BY <2>3
    <3> QED BY <3>1, <1>1, <1>2, <1>3, <2>2
  <2> QED BY <2>1, <2>3, <2>7, <2>8 DEF F
<1> QED BY <1>5, <1>6

(* A word's audio is a sequence, long enough for everything behind the word.  *)
LEMMA SecSlLong ==
    ASSUME NEW left, NEW back, NEW o, Word(left, back, o)
    PROVE  LET s == SecSl(aud', left, back)
           IN  /\ s \in Seq(Nat) /\ s = Frames(total', 0, Len(s), 0)
               /\ Len(s) = back + Skip + Off + Pad + left
<1> DEFINE L == back + Skip + Off + Pad + left
<1>1. L \in Nat /\ SecSl(aud', left, back) = Frames(total', 0, L, 0)
  BY SecSlRight
<1>2. total' \in Nat /\ 0 \in Nat
  BY DEF Word
<1> HIDE DEF L
<1>3. IsFrames(Frames(total', 0, L, 0), total', 0, L)
  BY <1>1, <1>2, FramesSeq
<1> QED BY <1>1, <1>3 DEF IsFrames, L

(* A word recognised o frames before the engine's end p: the silence behind   *)
(* it lies within the audio taken for it.                                     *)
DueRight(p, left, back, o) ==
    LET d == p - o + Wait
        L == back + Skip + Off + Pad + left
    IN  /\ d < p => /\ RightOff + p - d \in Int /\ p - d \in Nat
                     /\ RightOff + p - d + left <= L
        /\ ~(d < p) => d \in Nat /\ d # -1 /\ d >= p /\ L + d >= p + left + RightOff

(* The arithmetic of m_iFrmId_RightSil. *)
LEMMA DueArithmetic ==
    ASSUME NEW p \in Nat, NEW left \in Nat, NEW back \in Nat, NEW o \in Nat, o <= back
    PROVE  DueRight(p, left, back, o)
<1>1. /\ Skip \in Nat /\ Off \in Nat /\ Pad \in Nat /\ Wait \in Nat /\ RightOff \in Nat
      /\ RightOff <= Wait + Skip + Off + Pad
  BY ConstantTypes
<1> QED BY <1>1 DEF DueRight

(* The same when the silence is complete in a later call, L frames of audio.  *)
LateRight(p, left, d, L) ==
    /\ RightOff + p - d \in Int /\ p - d \in Nat
    /\ L + d >= p + left + RightOff => RightOff + p - d + left <= L

(* The arithmetic of ProcessMsg_RightSil. *)
LEMMA LateArithmetic ==
    ASSUME NEW p \in Nat, NEW left \in Nat, NEW d \in Nat, NEW L \in Nat, d < p
    PROVE  LateRight(p, left, d, L)
<1>1. RightOff \in Nat
  BY ConstantTypes
<1> QED BY <1>1 DEF LateRight

(* Process keeps the invariant and reads the right windows. *)
LEMMA ProcessStep ==
    ASSUME History, NEW n \in 1..MaxChunk, Process(n)
    PROVE  History' /\ WindowsRight'
<1>1. PICK chunk, all : /\ chunk = [i \in 1..n |-> total + i]
                        /\ all = Carry(in) \o chunk
  OBVIOUS
<1> DEFINE s == PutBuff(chunk)
           left == Left(all)
<1>2. Given(n, chunk, all)
  BY <1>1 DEF Process, Given
<1>3. /\ total' \in Nat /\ processed' \in Nat /\ since' \in Nat /\ since' <= processed'
      /\ aud' \in Rings(N) /\ RingIs(aud', N, total', 0)
      /\ wav' \in Rings(W) /\ RingIs(wav', W, processed', since')
      /\ in' \in Seq(Nat) /\ EngineBehind'
      /\ left \in 0..(B - 1) /\ processed' + left = total'
  BY <1>2, InputKept
<1>a. total' \in Nat /\ processed' \in Nat /\ left \in Nat /\ processed' + left = total'
  BY <1>3, ConstantTypes
<1>4. /\ s \in Seq(Nat)
      /\ m_bWorking => s = Frames(total', 0, Len(s), 0) /\ Len(s) + due >= total' + RightOff
  BY <1>2, BeamGrows
<1>5. /\ m_bWorking \in BOOLEAN /\ due \in Nat \cup {-1} /\ bf \in Seq(Nat)
      /\ m_bWorking <=> due # -1
  BY DEF History, TypeOK, BeamAudioCurrent
<1>6. since' = since
  BY <1>2 DEF Given
<1>7. /\ Skip \in Nat /\ Off \in Nat /\ Pad \in Nat /\ Wait \in Nat /\ RightOff \in Nat
      /\ MaxBack \in Nat /\ B \in Nat /\ RightOff <= Wait + Skip + Off + Pad
  BY ConstantTypes
<1>8. \/ NoWord(s)
      \/ RightSil(s, left)
      \/ \E back \in 1..MaxBack : \E o \in 1..back :
            Reject(left, back, o) \/ Detect(left, back, o) \/ DetectPre(left, back, o)
  BY <1>1 DEF Process
<1> HIDE DEF s, left
<1> SUFFICES /\ bf' \in Seq(Nat) /\ m_bWorking' \in BOOLEAN /\ due' \in Nat \cup {-1}
             /\ BeamAudioCurrent' /\ WindowsRight'
  BY <1>3 DEF History, TypeOK
<1>9. CASE NoWord(s)
  <2>1. bf' = s /\ reads' = {} /\ m_bWorking' = m_bWorking /\ due' = due
        /\ (due # -1 => due >= processed')
    BY <1>9 DEF NoWord
  <2> QED BY <2>1, <1>4, <1>5 DEF BeamAudioCurrent, WindowsRight
<1>10. CASE RightSil(s, left)
  <2>1. /\ due # -1 /\ due < processed' /\ bf' = <<>> /\ m_bWorking' = FALSE /\ due' = -1
        /\ reads' = {Read(s, left, processed', RightOff + processed' - due, processed' - due)}
    BY <1>10 DEF RightSil, RightRead
  <2>2. ReadIsRight(s, left, processed', RightOff + processed' - due, processed' - due)
    <3> DEFINE S == RightOff + processed' - due
               L == Len(s)
    <3>0. due \in Nat /\ due < processed' /\ L \in Nat
      BY <1>4, <1>5, <2>1
    <3>1. s = Frames(total', 0, L, 0) /\ L + due >= total' + RightOff
      BY <1>4, <1>5, <2>1
    <3>2. LateRight(processed', left, due, L)
      BY <1>a, <3>0, LateArithmetic
    <3>3. L + due >= processed' + left + RightOff
      BY <1>a, <3>1
    <3>5. S \in Int /\ processed' - due \in Nat /\ S + left <= L
      BY <3>2, <3>3 DEF LateRight
    <3> HIDE DEF S, L
    <3>4. ReadIsRight(s, left, processed', S, processed' - due)
      BY <1>a, <3>0, <3>1, <3>5, ReadRight
    <3> QED BY <3>4 DEF S
  <2>3. WindowsRight'
    BY <2>1, <2>2 DEF WindowsRight, ReadIsRight
  <2>4. BeamAudioCurrent' /\ m_bWorking' \in BOOLEAN
    BY <2>1 DEF BeamAudioCurrent
  <2> QED BY <2>1, <2>3, <2>4
<1>11. ASSUME NEW back \in 1..MaxBack, NEW o \in 1..back,
              Reject(left, back, o) \/ Detect(left, back, o) \/ DetectPre(left, back, o)
       PROVE  /\ bf' \in Seq(Nat) /\ m_bWorking' \in BOOLEAN /\ due' \in Nat \cup {-1}
              /\ BeamAudioCurrent' /\ WindowsRight'
  <2> DEFINE w == SecSl(aud', left, back)
             reads1 == WordReads(w, wav', left, processed', back, o)
             look == Lookup(aud', left, processed', back)
  <2>1. Word(left, back, o)
    BY <1>3 DEF Word
  <2>2. /\ w \in Seq(Nat) /\ w = Frames(total', 0, Len(w), 0)
        /\ Len(w) = back + Skip + Off + Pad + left
    BY <2>1, SecSlLong
  <2>3. \A r \in reads1 : r[1] = r[2]
    BY <2>1, <1>6, WordReadsRight
  <2>4. look[1] = look[2]
    BY <2>1, LookupRight
  <2> HIDE DEF w, reads1, look
  <2>5. CASE Reject(left, back, o)
    <3>1. /\ due = -1 /\ bf' = w /\ reads' = reads1 /\ m_bWorking' = m_bWorking /\ due' = due
      BY <2>5 DEF Reject, w, reads1
    <3> QED BY <3>1, <2>2, <2>3, <1>5 DEF BeamAudioCurrent, WindowsRight
  <2>6. CASE Detect(left, back, o)
    <3>1. /\ due = -1 /\ bf' = <<>> /\ reads' = reads1 \cup {look}
          /\ m_bWorking' = m_bWorking /\ due' = due
      BY <2>6 DEF Detect, w, reads1, look
    <3> QED BY <3>1, <2>3, <2>4, <1>5 DEF BeamAudioCurrent, WindowsRight
  <2>7. CASE DetectPre(left, back, o)
    <3> DEFINE d == processed' - o + Wait
               right == RightRead(w, left, processed', d)
    <3>1. /\ bf' = (IF d < processed' THEN <<>> ELSE w)
          /\ m_bWorking' = ~(d < processed') /\ due' = (IF d < processed' THEN -1 ELSE d)
          /\ reads' = reads1 \cup {look} \cup (IF d < processed' THEN {right} ELSE {})
      BY <2>7 DEF DetectPre, w, reads1, look
    <3>2. /\ d \in Int /\ left \in Nat /\ back \in Nat /\ o \in Nat /\ o <= back
          /\ Len(w) \in Nat
      BY <1>3, <1>7, <2>2
    <3>a. DueRight(processed', left, back, o)
      BY <1>a, <3>2, DueArithmetic
    <3>3. CASE d < processed'
      <4> DEFINE S == RightOff + processed' - d
                 L == Len(w)
      <4>1. S \in Int /\ processed' - d \in Nat /\ S + left <= L
        <5>1. Len(w) = back + Skip + Off + Pad + left
          BY <2>2
        <5> QED BY <3>a, <3>3, <5>1 DEF DueRight
      <4>2. ReadIsRight(w, left, processed', S, processed' - d)
        <5> HIDE DEF S, L, d
        <5>1. w = Frames(total', 0, L, 0) /\ L \in Nat
          BY <2>2, <3>2 DEF L
        <5> QED BY <1>3, <3>2, <4>1, <5>1, ReadRight
      <4>3. right[1] = right[2]
        BY <4>2 DEF ReadIsRight, RightRead
      <4> HIDE DEF d, right
      <4>4. bf' = <<>> /\ m_bWorking' = FALSE /\ due' = -1
            /\ reads' = reads1 \cup {look} \cup {right}
        BY <3>1, <3>3
      <4>5. WindowsRight'
        BY <4>3, <4>4, <2>3, <2>4 DEF WindowsRight
      <4>6. BeamAudioCurrent' /\ m_bWorking' \in BOOLEAN
        BY <4>4 DEF BeamAudioCurrent
      <4> QED BY <4>4, <4>5, <4>6
    <3>4. CASE ~(d < processed')
      <4>1. d \in Nat /\ d # -1 /\ d >= processed' /\ Len(w) + d >= total' + RightOff
        <5>1. Len(w) = back + Skip + Off + Pad + left
          BY <2>2
        <5>2. d \in Nat /\ d # -1 /\ d >= processed'
              /\ Len(w) + d >= processed' + left + RightOff
          BY <3>a, <3>4, <5>1 DEF DueRight
        <5> QED BY <1>a, <5>2
      <4> HIDE DEF d, right
      <4>2. bf' = w /\ m_bWorking' = TRUE /\ due' = d /\ reads' = reads1 \cup {look}
        BY <3>1, <3>4
      <4> QED BY <4>1, <4>2, <2>2, <2>3, <2>4 DEF BeamAudioCurrent, WindowsRight
    <3> QED BY <3>3, <3>4
  <2> QED BY <1>11, <2>5, <2>6, <2>7
<1> QED BY <1>8, <1>9, <1>10, <1>11

(* r2_vbv_reset keeps it. *)
LEMMA ResetStep ==
    ASSUME History, Reset
    PROVE  History' /\ WindowsRight'
<1>1. /\ wav' = Clean(W) /\ since' = processed /\ m_bWorking' = FALSE /\ bf' = <<>>
      /\ due' = -1 /\ reads' = {}
      /\ UNCHANGED <<total, aud, in, processed>>
  BY DEF Reset
<1>2. W \in Nat \ {0} /\ processed \in Nat
  BY ConstantTypes DEF History, TypeOK
<1>3. wav' \in Rings(W) /\ RingIs(wav', W, processed', since')
  BY <1>1, <1>2, CleanRing
<1>4. TypeOK' /\ since' <= processed'
  <2>1. /\ total \in Nat /\ processed \in Nat /\ aud \in Rings(N) /\ in \in Seq(Nat)
    BY DEF History, TypeOK
  <2>2. <<>> \in Seq(Nat) /\ FALSE \in BOOLEAN /\ -1 \in Nat \cup {-1} /\ processed <= processed
    BY <1>2
  <2> QED BY <1>1, <1>3, <2>1, <2>2 DEF TypeOK
<1>5. EngineBehind' /\ BeamAudioCurrent' /\ WindowsRight'
  BY <1>1 DEF History, EngineBehind, BeamAudioCurrent, WindowsRight, Left
<1>6. RingIs(aud', N, total', 0)
  BY <1>1 DEF History
<1> QED BY <1>3, <1>4, <1>5, <1>6 DEF History

(* All of it is invariant. *)
LEMMA HistoryInvariant == Spec => [](History /\ WindowsRight)
<1>1. Init => History /\ WindowsRight
  <2> SUFFICES ASSUME Init PROVE History /\ WindowsRight
    OBVIOUS
  <2> USE DEF Init
  <2>1. N \in Nat \ {0} /\ W \in Nat \ {0} /\ B \in Nat \ {0} /\ 0 \in Nat
    BY ConstantTypes
  <2>2. /\ Clean(N) \in Rings(N) /\ RingIs(Clean(N), N, 0, 0)
        /\ Clean(W) \in Rings(W) /\ RingIs(Clean(W), W, 0, 0)
    BY <2>1, CleanRing
  <2>3. Len(<<>>) = 0 /\ 0 % B = 0
    BY <2>1
  <2>4. TypeOK
    <3>1. <<>> \in Seq(Nat) /\ FALSE \in BOOLEAN /\ -1 \in Nat \cup {-1}
      OBVIOUS
    <3> QED BY <2>1, <2>2, <3>1 DEF TypeOK
  <2>5. EngineBehind
    BY <2>3 DEF EngineBehind, Left
  <2> QED BY <2>2, <2>4, <2>5 DEF History, BeamAudioCurrent, WindowsRight
<1>2. (History /\ WindowsRight) /\ [Next]_vars => (History /\ WindowsRight)'
  <2> SUFFICES ASSUME History, WindowsRight, [Next]_vars
               PROVE  History' /\ WindowsRight'
    OBVIOUS
  <2>1. CASE Next
    BY <2>1, ProcessStep, ResetStep DEF Next
  <2>2. CASE UNCHANGED vars
    BY <2>2 DEF vars, History, TypeOK, RingIs, EngineBehind, BeamAudioCurrent,
                WindowsRight, Left
  <2> QED BY <2>1, <2>2
<1> QED BY <1>1, <1>2, PTL DEF Spec

-----------------------------------------------------------------------------
(* The positions of both rings stay inside them (PutAudio's wrap).            *)
THEOREM TypeCorrect == Spec => []TypeOK
<1>1. History => TypeOK
  BY DEF History
<1> QED BY <1>1, HistoryInvariant, PTL

(* GetLastAudio gives the last frames of either ring for every window, after  *)
(* any cutting up of the input, any number of rounds and any resets.          *)
THEOREM RingsHoldLast == Spec => []RingHoldsLast
<1>1. History => RingHoldsLast
  <2> SUFFICES ASSUME History PROVE RingHoldsLast
    OBVIOUS
  <2>1. /\ N \in Nat \ {0} /\ W \in Nat \ {0} /\ 0 \in Nat
        /\ total \in Nat /\ processed \in Nat /\ since \in Nat
        /\ aud \in Rings(N) /\ wav \in Rings(W)
        /\ RingIs(aud, N, total, 0) /\ RingIs(wav, W, processed, since)
    BY ConstantTypes DEF History, TypeOK
  <2>2. ASSUME NEW start \in 0..(N - 1), NEW end \in 0..start
        PROVE  GetLastAudio(aud, N, start, end) = Frames(total, 0, start, end)
    <3>1. end \in Nat
      OBVIOUS
    <3> QED BY <2>1, <3>1, GetGivesFrames
  <2>3. ASSUME NEW start \in 0..(W - 1), NEW end \in 0..start
        PROVE  GetLastAudio(wav, W, start, end) = Frames(processed, since, start, end)
    <3>1. end \in Nat
      OBVIOUS
    <3> QED BY <2>1, <3>1, GetGivesFrames
  <2> QED BY <2>2, <2>3 DEF RingHoldsLast
<1> QED BY <1>1, HistoryInvariant, PTL

(* Between calls of ZVt::Process no frame is dropped or given twice.          *)
THEOREM NoFrameLost == Spec => []EngineBehind
<1>1. History => EngineBehind
  BY DEF History
<1> QED BY <1>1, HistoryInvariant, PTL

(* The beam-formed audio of a pending detection has no gap and is long enough *)
(* for the check of the silence behind the word.                              *)
THEOREM BeamAudioComplete == Spec => []BeamAudioCurrent
<1>1. History => BeamAudioCurrent
  BY DEF History
<1> QED BY <1>1, HistoryInvariant, PTL

(* Every read of ProcessMsg_Energy, _LeftSil, _CfCheck, _RightSil and of      *)
(* processfrm gets the frames it means, for every batch size and input.       *)
THEOREM EveryWindowRight == Spec => []WindowsRight
<1> QED BY HistoryInvariant, PTL
=============================================================================
