---------------------------- MODULE AudioHistory ----------------------------
(***************************************************************************)
(* The audio a ZVbvMem keeps: the ring of the last five seconds (two of     *)
(* them, m_pAudBuff and m_pAudBuff_Ns, always filled alike), the buffer in  *)
(* which ZVt collects a batch for the engine, the engine's own ring         *)
(* (m_pWavBuff of ZVtMem) and the growing buffer of beam-formed audio that  *)
(* a detection fills (m_pAudBuff_Vt_Ns).                                    *)
(*                                                                          *)
(* Everyone asks for audio by how far back it is: the engine in frames      *)
(* before the last one it was given, ZVbvMem and processfrm in samples      *)
(* before the last one put.  The unit here is the frame (ZNs asserts that   *)
(* only whole frames come), and a frame is its number in the input; 0 is    *)
(* the silence of a clean buffer.                                           *)
(***************************************************************************)
EXTENDS Integers, Sequences

CONSTANTS
    N,          \* m_iMaxLen of the five-second rings
    W,          \* m_iMaxLen of the engine's ring
    B,          \* m_iFrmBatchNum
    Skip, Off,  \* m_iLeftSilSkip, m_iLeftSilOffset
    Pad,        \* the ten frames added in front of a word
    CfLag,      \* how much later than the word the classified audio ends
    Extra,      \* the twenty frames processfrm adds in front of a word
    Wait,       \* frames from a word to the end of the silence behind it
    RightOff,   \* m_iRightSilOffset
    MaxBack,    \* longest distance from a word's start to the engine's end
    MaxChunk,   \* longest input
    MaxTotal    \* bound on the frames given

(* The assertions of GetLastAudio hold for every word the engine can find.    *)
ASSUME HistoryAssumption ==
    /\ {N, W, B, Skip, Off, Pad, CfLag, Extra, Wait, RightOff, MaxBack,
        MaxChunk, MaxTotal} \subseteq Nat
    /\ B > 0 /\ MaxChunk < N /\ MaxChunk + B <= W
    /\ MaxBack + Skip + Off + Pad + B <= N
    /\ MaxBack + Extra + B <= N
    /\ MaxBack + Pad < W
    /\ RightOff <= Wait + Skip + Off + Pad

VARIABLES
    total,       \* history: frames given
    aud,         \* the ring m_pAudBuff_Ns (and m_pAudBuff)
    in,          \* m_pData_In of ZVt, as far as m_iLen_In
    processed,   \* history: frames the engine was given
    wav,         \* the ring m_pWavBuff
    since,       \* history: processed when wav was last cleaned
    m_bWorking,  \* of m_pAudBuff_Vt_Ns
    bf,          \* its m_pData, as far as m_iCurSize
    due,         \* m_iFrmId_RightSil of the current detector, -1 for none
    reads        \* history: <<got, wanted>> of every read of the last call

vars == <<total, aud, in, processed, wav, since, m_bWorking, bf, due, reads>>

-----------------------------------------------------------------------------
(* ZAudBuff *)

Clean(max) == [data |-> [k \in 0..(max - 1) |-> 0], pos |-> 0]

(* memcpy of n elements of s, from its element i on, to at.                   *)
Copy(data, at, s, i, n) ==
    [k \in DOMAIN data |-> IF at <= k /\ k < at + n THEN s[i + 1 + k - at] ELSE data[k]]

PutMutant(r, max, s) ==
    LET len1 == IF Len(s) < max - r.pos THEN Len(s) ELSE max - r.pos
        pos1 == IF r.pos + len1 = max THEN 0 ELSE r.pos + len1
    IN  [data |-> Copy(Copy(r.data, r.pos, s, 0, len1), pos1, s, 0, Len(s) - len1),
         pos  |-> pos1 + Len(s) - len1]

(* Everything put is shorter than the ring: the branch for more is not used.  *)
PutAudio(r, max, s) ==
    LET len1 == IF Len(s) < max - r.pos THEN Len(s) ELSE max - r.pos
        pos1 == IF r.pos + len1 = max THEN 0 ELSE r.pos + len1
    IN  [data |-> Copy(Copy(r.data, r.pos, s, 0, len1), pos1, s, len1, Len(s) - len1),
         pos  |-> pos1 + Len(s) - len1]

(* The frames from start to end, counted back from the last one put.          *)
GetLastAudio(r, max, start, end) ==
    [j \in 1..(start - end) |->
        IF start < r.pos THEN r.data[r.pos - start + j - 1]
        ELSE IF end > r.pos \/ j <= start - r.pos THEN r.data[max + r.pos - start + j - 1]
        ELSE r.data[j - 1 - (start - r.pos)]]

(* ZAudBuff_S::GetBuff.  For more than it holds, the beginning of pData stays *)
(* as it was (here -1) and the buffer itself is cleared.                      *)
GetBuff(s, start, end) ==
    [j \in 1..(start - end) |->
        IF start <= Len(s) \/ j > start - Len(s) THEN s[Len(s) - start + j] ELSE -1]

-----------------------------------------------------------------------------
(* ZVt: whole batches go to the engine, and stay in front until the next call *)

Left(s) == Len(s) % B
Batch(s) == SubSeq(s, 1, Len(s) - Left(s))

CarryMutant(s) == s

Carry(s) == IF Len(s) >= B THEN SubSeq(s, Len(s) - Left(s) + 1, Len(s)) ELSE s

(* What a reader wants: the frames from start to end before frame n, silence  *)
(* for those that came before frame from.                                     *)
Frames(n, from, start, end) ==
    [j \in 1..(start - end) |-> IF n - start + j > from THEN n - start + j ELSE 0]

Init ==
    /\ total = 0 /\ processed = 0 /\ since = 0
    /\ aud = Clean(N) /\ wav = Clean(W) /\ in = <<>>
    /\ m_bWorking = FALSE /\ bf = <<>> /\ due = -1 /\ reads = {}

(* my_getdata_callback, for frames before the engine's n-th.                  *)
Read(s, left, n, start, end) ==
    <<GetBuff(s, start + left, end + left), Frames(n, 0, start, end)>>

(* The reads for a word that began back frames before the engine's end n and  *)
(* was recognised o frames before it: CfCheck, Energy and LeftSil.            *)
WordReads(s, w, left, n, back, o) ==
    LET cfEnd == IF o > CfLag THEN o - CfLag ELSE 0
    IN  {Read(s, left, n, back + Pad, cfEnd),
         <<GetLastAudio(w, W, back + Pad, cfEnd), Frames(n, since, back + Pad, cfEnd)>>,
         Read(s, left, n, back, o),
         Read(s, left, n, back + Skip + Off, back + Skip)}

(* RightSil, at engine frame d. *)
RightRead(s, left, n, d) == Read(s, left, n, RightOff + n - d, n - d)

(* processfrm: from twenty frames before the word up to now.                  *)
Lookup(r, left, n, back) ==
    <<GetLastAudio(r, N, back + left + Extra, 0),
      Frames(n + left, 0, back + left + Extra, 0)>>

-----------------------------------------------------------------------------
SecSlMutant(r, left, back) == GetLastAudio(r, N, back + Skip + Off + Pad, 0)

(* my_dosecsl_callback: the audio since before the silence before the word.   *)
SecSl(r, left, back) == GetLastAudio(r, N, back + Skip + Off + Pad + left, 0)

(* No word in the batch, or the silence behind one is not complete.           *)
NoWord(s) ==
    /\ due # -1 => due >= processed'
    /\ bf' = s /\ reads' = {}
    /\ UNCHANGED <<m_bWorking, due>>

(* A word that a check refuses: nobody is told, the audio stays.              *)
Reject(left, back, o) ==
    LET s == SecSl(aud', left, back)
    IN  /\ due = -1 /\ bf' = s
        /\ reads' = WordReads(s, wav', left, processed', back, o)
        /\ UNCHANGED <<m_bWorking, due>>

(* PRE and CMD or NOCMD at once. *)
Detect(left, back, o) ==
    LET s == SecSl(aud', left, back)
    IN  /\ due = -1 /\ bf' = <<>>
        /\ reads' = WordReads(s, wav', left, processed', back, o)
                    \cup {Lookup(aud', left, processed', back)}
        /\ UNCHANGED <<m_bWorking, due>>

(* PRE; the silence behind the word is still to come, or already there.       *)
DetectPre(left, back, o) ==
    LET s == SecSl(aud', left, back)
        d == processed' - o + Wait
        now == d < processed'
    IN  /\ due = -1
        /\ bf' = (IF now THEN <<>> ELSE s)
        /\ m_bWorking' = ~now /\ due' = (IF now THEN -1 ELSE d)
        /\ reads' = WordReads(s, wav', left, processed', back, o)
                    \cup {Lookup(aud', left, processed', back)}
                    \cup (IF now THEN {RightRead(s, left, processed', d)} ELSE {})

(* The silence behind the word is complete: CMD or NOCMD. *)
RightSil(s, left) ==
    /\ due # -1 /\ due < processed'
    /\ reads' = {RightRead(s, left, processed', due)}
    /\ bf' = <<>> /\ m_bWorking' = FALSE /\ due' = -1

PutBuffMutant(chunk) == bf
PutBuff(chunk) == IF m_bWorking THEN bf \o chunk ELSE bf

(* r2_vbv_process with n frames.  While a detection is pending no other       *)
(* detector recognises its word (the assertion of my_dosecsl_callback).       *)
Process(n) ==
    LET chunk == [i \in 1..n |-> total + i]
        all   == Carry(in) \o chunk
        s     == PutBuff(chunk)
        left  == Left(all)
    IN  /\ total + n <= MaxTotal
        /\ total' = total + n
        /\ aud' = PutAudio(aud, N, chunk)
        /\ in' = all
        /\ processed' = processed + Len(Batch(all))
        /\ wav' = PutAudio(wav, W, Batch(all))
        /\ UNCHANGED since
        /\ \/ NoWord(s)
           \/ /\ Batch(all) # <<>>
              /\ \/ RightSil(s, left)
                 \/ \E back \in 1..MaxBack : \E o \in 1..back :
                       /\ o <= Len(Batch(all))
                       /\ \/ Reject(left, back, o)
                          \/ Detect(left, back, o)
                          \/ DetectPre(left, back, o)

(* r2_vbv_reset: the detectors, the engine's ring and the beam-formed audio.  *)
Reset ==
    /\ wav' = Clean(W) /\ since' = processed
    /\ m_bWorking' = FALSE /\ bf' = <<>> /\ due' = -1 /\ reads' = {}
    /\ UNCHANGED <<total, aud, in, processed>>

Next == (\E n \in 1..MaxChunk : Process(n)) \/ Reset

Spec == Init /\ [][Next]_vars

-----------------------------------------------------------------------------
Rings(max) == [data : [0..(max - 1) -> Nat], pos : 0..(max - 1)]

(* Types; a position never stands behind the last element of its ring.        *)
TypeOK ==
    /\ total \in Nat /\ processed \in Nat /\ since \in Nat
    /\ aud \in Rings(N) /\ wav \in Rings(W)
    /\ in \in Seq(Nat) /\ bf \in Seq(Nat)
    /\ m_bWorking \in BOOLEAN /\ due \in Nat \cup {-1}

(* However the input was cut up and wherever the rings wrap, GetLastAudio     *)
(* gives exactly the frames asked for, for every window its assertions admit. *)
RingHoldsLast ==
    /\ \A start \in 0..(N - 1) : \A end \in 0..start :
          GetLastAudio(aud, N, start, end) = Frames(total, 0, start, end)
    /\ \A start \in 0..(W - 1) : \A end \in 0..start :
          GetLastAudio(wav, W, start, end) = Frames(processed, since, start, end)

(* The engine is behind the input by GetLeftPos frames, less than a batch,    *)
(* and no frame has been dropped between two calls or given to it twice.      *)
EngineBehind ==
    /\ processed + Left(in) = total
    /\ \A k \in 1..Len(in) : in[k] = total - Len(in) + k

(* While a detection is pending the beam-formed audio reaches to the last     *)
(* frame given, without a gap, and back to what is read when it is decided.   *)
BeamAudioCurrent ==
    /\ m_bWorking <=> due # -1
    /\ m_bWorking => /\ due >= processed /\ Len(bf) + due >= total + RightOff
                     /\ bf = Frames(total, 0, Len(bf), 0)

(* Every window that a check of a detector, or processfrm, reads holds the    *)
(* frames it stands for, though they are counted from three different ends.   *)
WindowsRight == \A r \in reads : r[1] = r[2]
=============================================================================
