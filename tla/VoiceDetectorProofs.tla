------------------------ MODULE VoiceDetectorProofs -------------------------
(***************************************************************************)
(* Proofs about VoiceDetector, for all the lengths and ratios that           *)
(* DetectorAssumption admits and whatever the energies and the pitch say.    *)
(*                                                                          *)
(* The argument: between two passes of the loop the detector is either       *)
(* Quiet (no speech yet, the buffer less than full) or Open (speech from     *)
(* frame 0 on, at most the longest speech), which follows has_vad.  One more *)
(* frame leaves it Quiet or Open or closes an Open one, and then the same    *)
(* pass of the loop restarts it.                                             *)
(***************************************************************************)
EXTENDS VoiceDetector, VadInterface, SequenceTheorems, TLAPS

(* s is frames n + 1, n + 2 and so on. *)
Following(s, n) == s \in Seq(Nat) /\ \A k \in 1..Len(s) : s[k] = n + k

(* The buffers agree and hold consecutive frames. *)
Buffered(d) == Following(d.wave, d.offset) /\ Len(d.wave) = Cur(d)

Live(d) == d \in Detectors /\ Buffered(d) /\ ~d.end /\ d.stop = -1

(* The most frames that are kept while there is no speech. *)
MostSilence == MaxFrames \div 2 + MinVoc + PreFrames

Quiet(d) == Live(d) /\ d.start = -1 /\ Cur(d) <= MostSilence
Open(d)  == Live(d) /\ d.start = 0 /\ Cur(d) <= MaxSpeech /\ d.startOffset < Cur(d)

(* Speech has been found to stop, in a frame that ends the segment. *)
Closed(d) == /\ d.start = 0 /\ d.stop \in MinSpeech..Cur(d)
             /\ d.offset \in Nat /\ Following(d.wave, d.offset) /\ Len(d.wave) = Cur(d)

(* The constants, one by one. *)
LEMMA Constants ==
    /\ MaxFrames \in Nat /\ PreFrames \in Nat /\ MinVoc \in Nat \ {0}
    /\ MinSpeech \in Nat /\ MaxSpeech \in Nat /\ ShortSil \in Nat \ {0}
    /\ LongSil \in Nat \ {0} /\ Keep \in Nat /\ PitchLag \in Nat
    /\ MaxInput \in Nat \ {0} /\ MostSilence \in Nat
    /\ PitchLag + MinVoc + PreFrames + 1 < MinSpeech
    /\ ShortSil <= MinSpeech /\ MinSpeech <= MaxSpeech
    /\ MaxSpeech + 1 < LongSil /\ MaxSpeech + 1 < MaxFrames
    /\ Keep + MinVoc + PreFrames <= MostSilence
    /\ MostSilence + 1 < MaxFrames
    /\ MaxInput <= MaxSpeech
<1>1. MaxFrames \in Nat /\ PreFrames \in Nat /\ MinVoc \in Nat /\ MinSpeech \in Nat
      /\ MaxSpeech \in Nat /\ ShortSil \in Nat /\ LongSil \in Nat /\ Keep \in Nat
      /\ PitchLag \in Nat /\ MaxInput \in Nat
  BY DetectorAssumption
<1>2. MaxFrames \div 2 \in Nat
  BY <1>1
<1> QED BY <1>1, <1>2, DetectorAssumption DEF MostSilence

(* The members of a detector. *)
LEMMA Members ==
    ASSUME NEW d \in Detectors
    PROVE  /\ d.wave \in Seq(Nat) /\ d.probs \in Seq(BOOLEAN)
           /\ d.start \in Int /\ d.stop \in Int /\ d.startOffset \in Int
           /\ d.offset \in Nat /\ d.end \in BOOLEAN /\ Cur(d) \in Nat
           /\ d.startOffset >= -1
BY DEF Detectors, Cur

(* A restarted detector is quiet. *)
LEMMA RestartedIsQuiet == Restarted \in Detectors /\ Quiet(Restarted) /\ Cur(Restarted) = 0
<1>1. <<>> \in Seq(Nat) /\ <<>> \in Seq(BOOLEAN)
  OBVIOUS
<1>2. Restarted \in Detectors
  BY <1>1 DEF Restarted, Detectors
<1>3. Cur(Restarted) = 0 /\ Buffered(Restarted)
  BY <1>1 DEF Restarted, Cur, Buffered, Following
<1>4. Cur(Restarted) <= MostSilence
  BY <1>3, Constants
<1> QED BY <1>2, <1>3, <1>4 DEF Quiet, Live, Restarted

(* Dropping the first frames of consecutive frames. *)
LEMMA DropFirst ==
    ASSUME NEW s, NEW n \in Nat, Following(s, n), NEW m \in 1..Len(s)
    PROVE  /\ Following(SubSeq(s, m + 1, Len(s)), n + m)
           /\ Len(SubSeq(s, m + 1, Len(s))) = Len(s) - m
<1> DEFINE l == Len(s)
           t == SubSeq(s, m + 1, l)
<1>1. s \in Seq(Nat) /\ l \in Nat /\ m \in Nat \ {0} /\ m <= l
  BY DEF Following
<1>2. /\ t \in Seq(Nat) /\ Len(t) = (IF m + 1 <= l THEN l - (m + 1) + 1 ELSE 0)
      /\ \A i \in 1..(l - (m + 1) + 1) : t[i] = s[m + 1 + i - 1]
  <2>1. \A i \in (m + 1)..l : s[i] \in Nat
    BY <1>1, ElementOfSeq
  <2> HIDE DEF l
  <2> QED BY <1>1, <2>1, SubSeqProperties
<1>3. Len(t) = l - m
  <2> HIDE DEF l, t
  <2> QED BY <1>1, <1>2
<1>4. ASSUME NEW k \in 1..Len(t) PROVE t[k] = n + m + k
  <2>1. k \in 1..(l - (m + 1) + 1) /\ m + 1 + k - 1 = m + k /\ m + k \in 1..l
        /\ n + (m + k) = n + m + k
    <3> HIDE DEF l, t
    <3> QED BY <1>1, <1>3
  <2>2. s[m + k] = n + (m + k)
    BY <2>1 DEF Following
  <2> QED BY <2>1, <2>2, <1>2
<1> QED BY <1>2, <1>3, <1>4 DEF Following

(* The first frames of consecutive frames. *)
LEMMA TakePart ==
    ASSUME NEW s, NEW n \in Nat, Following(s, n), NEW m \in 0..Len(s), NEW h \in m..Len(s)
    PROVE  /\ Following(SubSeq(s, m + 1, h), n + m)
           /\ Len(SubSeq(s, m + 1, h)) = h - m
<1> DEFINE l == Len(s)
           t == SubSeq(s, m + 1, h)
<1>1. s \in Seq(Nat) /\ l \in Nat /\ m \in Nat /\ h \in Nat /\ m <= h /\ h <= l
  BY DEF Following
<1>2. /\ t \in Seq(Nat) /\ Len(t) = (IF m + 1 <= h THEN h - (m + 1) + 1 ELSE 0)
      /\ \A i \in 1..(h - (m + 1) + 1) : t[i] = s[m + 1 + i - 1]
  <2>1. \A i \in (m + 1)..h : s[i] \in Nat
    BY <1>1, ElementOfSeq
  <2> QED BY <1>1, <2>1, SubSeqProperties
<1>3. Len(t) = h - m
  <2> HIDE DEF l, t
  <2> QED BY <1>1, <1>2
<1>4. ASSUME NEW k \in 1..Len(t) PROVE t[k] = n + m + k
  <2>1. k \in 1..(h - (m + 1) + 1) /\ m + 1 + k - 1 = m + k /\ m + k \in 1..l
        /\ n + (m + k) = n + m + k
    <3> HIDE DEF l, t
    <3> QED BY <1>1, <1>3
  <2>2. s[m + k] = n + (m + k)
    BY <2>1 DEF Following
  <2> QED BY <2>1, <2>2, <1>2
<1> QED BY <1>2, <1>3, <1>4 DEF Following

(* Consecutive frames followed by the next ones. *)
LEMMA Joined ==
    ASSUME NEW s, NEW t, NEW n \in Nat, Following(s, n), Following(t, n + Len(s))
    PROVE  Following(s \o t, n) /\ Len(s \o t) = Len(s) + Len(t)
<1> DEFINE l == Len(s)
<1>1. s \in Seq(Nat) /\ t \in Seq(Nat) /\ l \in Nat /\ Len(t) \in Nat
  BY DEF Following
<1>2. /\ s \o t \in Seq(Nat) /\ Len(s \o t) = l + Len(t)
      /\ \A i \in 1..(l + Len(t)) : (s \o t)[i] = IF i <= l THEN s[i] ELSE t[i - l]
  BY <1>1, ConcatProperties
<1>3. ASSUME NEW k \in 1..(l + Len(t)) PROVE (s \o t)[k] = n + k
  <2>1. CASE k <= l
    <3>1. k \in 1..l
      BY <2>1, <1>1
    <3> QED BY <2>1, <3>1, <1>2 DEF Following
  <2>2. CASE ~(k <= l)
    <3>1. k - l \in 1..Len(t) /\ n + l + (k - l) = n + k
      <4> HIDE DEF l
      <4> QED BY <2>2, <1>1
    <3>2. t[k - l] = n + l + (k - l)
      BY <3>1 DEF Following
    <3> QED BY <2>2, <3>1, <3>2, <1>2
  <2> QED BY <2>1, <2>2
<1> QED BY <1>2, <1>3 DEF Following

(* What dropping frames does to the detector. *)
LEMMA OffsetDrops ==
    ASSUME NEW d \in Detectors, Buffered(d), NEW n \in 1..Cur(d)
    PROVE  LET e == OffsetWaveFrame(d, n)
           IN  /\ e \in Detectors /\ Buffered(e) /\ Cur(e) = Cur(d) - n
               /\ e.start = d.start /\ e.stop = d.stop /\ e.end = d.end
<1> DEFINE w == SubSeq(d.wave, n + 1, Len(d.wave))
           p == SubSeq(d.probs, n + 1, Len(d.probs))
           e == OffsetWaveFrame(d, n)
<1>1. /\ d.wave \in Seq(Nat) /\ d.probs \in Seq(BOOLEAN) /\ d.offset \in Nat
      /\ Cur(d) \in Nat /\ n \in Nat \ {0} /\ n <= Cur(d)
      /\ Len(d.wave) = Cur(d) /\ Following(d.wave, d.offset)
  BY Members DEF Buffered
<1>2. Following(w, d.offset + n) /\ Len(w) = Cur(d) - n
  BY <1>1, DropFirst
<1>3. p \in Seq(BOOLEAN) /\ Len(p) = Cur(d) - n
  <2> DEFINE l == Len(d.probs)
  <2>0. l = Cur(d)
    BY DEF Cur
  <2>1. \A i \in (n + 1)..l : d.probs[i] \in BOOLEAN
    BY <1>1, <2>0, ElementOfSeq
  <2> HIDE DEF l
  <2>2. SubSeq(d.probs, n + 1, l) \in Seq(BOOLEAN)
        /\ Len(SubSeq(d.probs, n + 1, l)) = IF n + 1 <= l THEN l - (n + 1) + 1 ELSE 0
    BY <1>1, <2>0, <2>1, SubSeqProperties
  <2>3. (IF n + 1 <= l THEN l - (n + 1) + 1 ELSE 0) = l - n
    BY <1>1, <2>0
  <2> QED BY <2>0, <2>2, <2>3 DEF l
<1>4. e = [d EXCEPT !.wave = w, !.probs = p, !.offset = d.offset + n]
  BY <1>1 DEF OffsetWaveFrame
<1>5. w \in Seq(Nat) /\ d.offset + n \in Nat
  BY <1>1, <1>2 DEF Following
<1> HIDE DEF w, p, e
<1>6. e \in Detectors
  BY <1>3, <1>4, <1>5 DEF Detectors
<1>7. /\ e.wave = w /\ e.probs = p /\ e.offset = d.offset + n
      /\ e.start = d.start /\ e.stop = d.stop /\ e.end = d.end
  BY <1>4 DEF Detectors
<1>8. Buffered(e) /\ Cur(e) = Cur(d) - n
  BY <1>2, <1>3, <1>7 DEF Buffered, Cur
<1> QED BY <1>6, <1>7, <1>8 DEF e

(* A beginning found at frame i opens a segment too short to be ended. *)
LEMMA BeginOpens ==
    ASSUME NEW d, Live(d), NEW i \in MinVoc..(Cur(d) - 1), i >= Cur(d) - 1 - PitchLag
    PROVE  LET e == JudgeVoiceBegin(d, i)
           IN  Open(e) /\ Cur(e) >= 1 /\ Cur(e) < MinSpeech
<1> DEFINE s == i - MinVoc - PreFrames
           first == IF s < 0 THEN 0 ELSE s
           c == Cur(d)
           e == JudgeVoiceBegin(d, i)
<1>1. d \in Detectors /\ Buffered(d) /\ c \in Nat /\ ~d.end /\ d.stop = -1
  BY Members DEF Live
<1>2. /\ i \in Nat /\ s \in Int /\ first \in Nat /\ first <= i /\ i < c
      /\ c - first >= 1 /\ c - first < MinSpeech /\ c - first <= MaxSpeech
      /\ i - first < c - first /\ i - first \in Nat
  <2> HIDE DEF c
  <2> QED BY <1>1, Constants DEF c
<1> HIDE DEF s, first, c
<1>3. CASE first > 0
  <2> DEFINE o == OffsetWaveFrame(d, first)
  <2>1. first \in 1..Cur(d)
    <3>1. first \in 1..c
      BY <1>1, <1>2, <1>3
    <3> QED BY <3>1 DEF c
  <2>2. /\ o \in Detectors /\ Buffered(o) /\ Cur(o) = c - first
        /\ o.start = d.start /\ o.stop = d.stop /\ o.end = d.end
    BY <1>1, <2>1, OffsetDrops DEF c
  <2>3. e = [o EXCEPT !.start = 0, !.startOffset = i - first]
    BY <1>1, <1>3 DEF JudgeVoiceBegin, MarkStart, s, first
  <2> HIDE DEF o, e
  <2>4. e \in Detectors
    BY <2>2, <2>3, <1>2 DEF Detectors
  <2>5. /\ e.wave = o.wave /\ e.probs = o.probs /\ e.offset = o.offset
        /\ e.start = 0 /\ e.stop = o.stop /\ e.end = o.end /\ e.startOffset = i - first
    BY <2>2, <2>3 DEF Detectors
  <2>6. Buffered(e) /\ Cur(e) = c - first
    BY <2>2, <2>5 DEF Buffered, Cur
  <2>7. Open(e)
    BY <1>1, <1>2, <2>2, <2>4, <2>5, <2>6 DEF Open, Live
  <2> QED BY <2>6, <2>7, <1>2 DEF e
<1>4. CASE first = 0
  <2>1. e = [d EXCEPT !.start = 0, !.startOffset = i]
    <3>1. e = IF ~d.end /\ first > 0
              THEN [OffsetWaveFrame(d, first) EXCEPT !.start = 0, !.startOffset = i - first]
              ELSE [d EXCEPT !.start = first, !.startOffset = i]
      BY DEF JudgeVoiceBegin, MarkStart, s, first
    <3>2. ~(first > 0)
      BY <1>4
    <3> QED BY <3>1, <3>2, <1>4
  <2> HIDE DEF e
  <2>2. e \in Detectors
    BY <2>1, <1>1, <1>2 DEF Detectors
  <2>3. /\ e.wave = d.wave /\ e.probs = d.probs /\ e.offset = d.offset
        /\ e.start = 0 /\ e.stop = d.stop /\ e.end = d.end /\ e.startOffset = i
    BY <2>1, <1>1 DEF Detectors
  <2>4. Buffered(e) /\ Cur(e) = c
    BY <1>1, <2>3 DEF Buffered, Cur, c
  <2>5. c <= MaxSpeech /\ i < c /\ c >= 1 /\ c < MinSpeech
    BY <1>2, <1>4, <1>1
  <2>7. Open(e)
    BY <1>1, <2>2, <2>3, <2>4, <2>5 DEF Open, Live
  <2> QED BY <2>4, <2>5, <2>7 DEF e
<1> QED BY <1>2, <1>3, <1>4

(* Silence is removed before the buffer can fill up. *)
LEMMA TrimKeepsQuiet ==
    ASSUME NEW d, Live(d), d.start = -1, Cur(d) <= MostSilence + 1
    PROVE  Quiet(TrimSilence(d))
<1> DEFINE c == Cur(d)
           h == MaxFrames \div 2
           n == c - MinVoc - PreFrames
           e == TrimSilence(d)
<1>1. d \in Detectors /\ Buffered(d) /\ c \in Nat /\ ~d.end /\ d.stop = -1
  BY Members DEF Live
<1>2. h \in Nat /\ MostSilence = h + MinVoc + PreFrames /\ Keep <= h
  BY Constants, DetectorAssumption DEF MostSilence
<1> HIDE DEF c, h
<1>3. CASE n >= h
  <2> DEFINE m == n - Keep
  <2>1. m \in Nat /\ m <= c /\ c - m <= MostSilence
    BY <1>1, <1>2, <1>3, Constants
  <2>2. e = OffsetWaveFrame(d, m)
    BY <1>1, <1>3 DEF TrimSilence, c, h
  <2> HIDE DEF m, e
  <2>3. CASE m = 0
    <3>1. e = d
      BY <2>2, <2>3 DEF OffsetWaveFrame
    <3>2. Cur(d) <= MostSilence
      BY <2>1, <2>3, <1>1, Constants DEF c
    <3> QED BY <3>1, <3>2 DEF Quiet, e
  <2>4. CASE m # 0
    <3>1. m \in 1..Cur(d)
      BY <2>1, <2>4 DEF c
    <3>2. /\ e \in Detectors /\ Buffered(e) /\ Cur(e) = Cur(d) - m
          /\ e.start = d.start /\ e.stop = d.stop /\ e.end = d.end
      BY <1>1, <2>2, <3>1, OffsetDrops
    <3> QED BY <3>2, <2>1, <1>1 DEF Quiet, Live, c, e
  <2> QED BY <2>3, <2>4
<1>4. CASE ~(n >= h)
  <2>1. c <= MostSilence
    BY <1>1, <1>2, <1>4, Constants
  <2>2. e = d
    BY <1>4 DEF TrimSilence, c, h
  <2> QED BY <2>1, <2>2 DEF Quiet, c
<1> QED BY <1>3, <1>4

(* The detector with one more frame in its buffers. *)
Fed(d, voc, fin) == [d EXCEPT !.wave = Append(@, d.offset + Len(@) + 1),
                              !.probs = Append(@, voc), !.end = fin]

(* The frame is the next one, and nothing else changes. *)
LEMMA AppendFeeds ==
    ASSUME NEW d, Live(d), NEW voc \in BOOLEAN, NEW fin \in BOOLEAN
    PROVE  LET f == Fed(d, voc, fin)
           IN  /\ f \in Detectors /\ Buffered(f) /\ Cur(f) = Cur(d) + 1
               /\ f.start = d.start /\ f.stop = -1 /\ f.offset = d.offset
               /\ f.startOffset = d.startOffset /\ f.end = fin
<1> DEFINE x == d.offset + Len(d.wave) + 1
           w == Append(d.wave, x)
           p == Append(d.probs, voc)
           f == [d EXCEPT !.wave = w, !.probs = p, !.end = fin]
<1>1. /\ d \in Detectors /\ d.wave \in Seq(Nat) /\ d.probs \in Seq(BOOLEAN)
      /\ d.offset \in Nat /\ Cur(d) \in Nat /\ d.stop = -1
      /\ Len(d.wave) = Cur(d) /\ Following(d.wave, d.offset)
  BY Members DEF Live, Buffered
<1>2. x \in Nat
  BY <1>1
<1>3. /\ w \in Seq(Nat) /\ Len(w) = Cur(d) + 1
      /\ \A k \in 1..Cur(d) : w[k] = d.wave[k]
      /\ w[Cur(d) + 1] = x
  <2> HIDE DEF x
  <2>1. /\ w \in Seq(Nat) /\ Len(w) = Len(d.wave) + 1
        /\ \A k \in 1..Len(d.wave) : w[k] = d.wave[k]
        /\ w[Len(d.wave) + 1] = x
    BY <1>1, <1>2, AppendProperties
  <2> QED BY <2>1, <1>1
<1>4. p \in Seq(BOOLEAN) /\ Len(p) = Cur(d) + 1
  BY <1>1, AppendProperties DEF Cur
<1>5. Following(w, d.offset)
  <2> HIDE DEF w, p
  <2> SUFFICES ASSUME NEW k \in 1..(Cur(d) + 1) PROVE w[k] = d.offset + k
    BY <1>3 DEF Following
  <2>1. CASE k \in 1..Cur(d)
    BY <2>1, <1>1, <1>3 DEF Following
  <2>2. CASE k \notin 1..Cur(d)
    <3>1. Cur(d) \in Nat /\ Len(d.wave) = Cur(d) /\ d.offset \in Nat
      BY <1>1
    <3>2. k = Cur(d) + 1
      BY <2>2, <3>1
    <3>3. x = d.offset + k
      BY <3>1, <3>2
    <3> QED BY <3>2, <3>3, <1>3
  <2> QED BY <2>1, <2>2
<1> HIDE DEF w, p, x
<1>6. f \in Detectors
  BY <1>1, <1>3, <1>4 DEF Detectors
<1>7. /\ f.wave = w /\ f.probs = p /\ f.offset = d.offset /\ f.start = d.start
      /\ f.stop = -1 /\ f.startOffset = d.startOffset /\ f.end = fin
  BY <1>1 DEF Detectors
<1> HIDE DEF f
<1>8. Buffered(f) /\ Cur(f) = Cur(d) + 1
  BY <1>3, <1>4, <1>5, <1>7 DEF Buffered, Cur
<1>9. f = Fed(d, voc, fin)
  BY <1>1 DEF Fed, f, w, p, x, Detectors
<1> QED BY <1>6, <1>7, <1>8, <1>9

(* Where JudgeVoiceEnd may find the end. *)
LEMMA EndsWhere ==
    ASSUME NEW d, NEW sil, NEW x \in Ends(d, sil)
    PROVE  x = -1 \/ (EndJudged(d, sil) /\ x \in (EndFrom(d, sil) + sil)..(Cur(d) - 1))
BY DEF Ends

(* r is f with a stop found in it. *)
StopFound(f, r) == \E x \in MinSpeech..(Cur(f) - 1) : r = [f EXCEPT !.stop = x, !.end = TRUE]

(* What JudgeVoiceEnd may leave of open speech. *)
LEMMA JudgeEndCloses ==
    ASSUME NEW f \in Detectors, f.start = 0, f.stop = -1, NEW sil \in Nat \ {0},
           NEW fin \in BOOLEAN, NEW r \in JudgeEnd(f, sil, fin)
    PROVE  \/ r = f /\ ~fin
           \/ r = [f EXCEPT !.stop = Cur(f)] /\ fin
           \/ EndJudged(f, sil) /\ StopFound(f, r)
<1>1. PICK x \in Ends(f, sil) :
         r = IF x >= 0 THEN [f EXCEPT !.stop = x, !.end = TRUE]
             ELSE IF fin THEN [f EXCEPT !.stop = Cur(f)] ELSE f
  <2>1. ~(f.start < 0 \/ f.stop # -1)
    OBVIOUS
  <2> QED BY <2>1 DEF JudgeEnd
<1>2. CASE x = -1
  <2>1. ~(x >= 0)
    BY <1>2
  <2> QED BY <1>1, <2>1
<1>3. CASE x # -1
  <2>1. EndJudged(f, sil) /\ x \in (EndFrom(f, sil) + sil)..(Cur(f) - 1)
    BY <1>3, EndsWhere
  <2>2. Cur(f) \in Nat /\ f.startOffset \in Int /\ MinSpeech \in Nat
    BY Members, Constants
  <2>3. EndFrom(f, sil) \in Int /\ EndFrom(f, sil) >= MinSpeech - sil
    BY <2>2 DEF EndFrom
  <2>4. x \in MinSpeech..(Cur(f) - 1) /\ x >= 0
    BY <2>1, <2>2, <2>3
  <2> QED BY <1>1, <2>1, <2>4 DEF StopFound
<1> QED BY <1>2, <1>3

(* A frame given to an open detector. *)
LEMMA FeedOpen ==
    ASSUME NEW d, Open(d), NEW sil \in {ShortSil, LongSil}, NEW voc \in BOOLEAN,
           NEW r \in InputWave(d, sil, voc)
    PROVE  /\ r.offset = d.offset /\ Cur(r) = Cur(d) + 1
           /\ \/ Open(r)
              \/ /\ Closed(r)
                 /\ r.stop <= Cur(d) \/ (Cur(d) = MaxSpeech /\ r.stop = Cur(d) + 1)
           /\ Cur(d) < MaxSpeech /\ Cur(d) + 1 <= d.startOffset + sil => Open(r)
<1> DEFINE c == Cur(d)
           fin == MustEnd(d)
           f == Fed(d, voc, fin)
<1>1. /\ d \in Detectors /\ Live(d) /\ c \in Nat /\ c <= MaxSpeech /\ d.start = 0
      /\ d.startOffset \in Int /\ d.startOffset < c /\ ~d.end /\ d.stop = -1
      /\ Len(d.wave) = c /\ d.offset \in Nat
  BY Members DEF Open, Live, Buffered
<1>2. fin \in BOOLEAN /\ (fin <=> c = MaxSpeech)
  <2>1. GetVoiceFrameNum(d) = c
    BY <1>1 DEF GetVoiceFrameNum
  <2> HIDE DEF c
  <2> QED BY <1>1, <2>1, Constants DEF MustEnd
<1>3. /\ f \in Detectors /\ Buffered(f) /\ Cur(f) = c + 1
      /\ f.start = 0 /\ f.stop = -1 /\ f.offset = d.offset
      /\ f.startOffset = d.startOffset /\ f.end = fin
  <2> HIDE DEF fin, c
  <2>1. /\ f \in Detectors /\ Buffered(f) /\ Cur(f) = Cur(d) + 1
        /\ f.start = d.start /\ f.stop = -1 /\ f.offset = d.offset
        /\ f.startOffset = d.startOffset /\ f.end = fin
    BY <1>1, <1>2, AppendFeeds
  <2> HIDE DEF f
  <2> QED BY <2>1, <1>1 DEF c
<1>4. r \in JudgeEnd(f, sil, fin)
  <2> HIDE DEF f
  <2>1. f.start # -1
    BY <1>3
  <2> QED BY <1>1, <2>1 DEF InputWave, Fed, f
<1> HIDE DEF f, fin, c
<1>5. sil \in Nat \ {0}
  BY Constants
<1>6. CASE r = f /\ ~fin
  <2>1. c < MaxSpeech /\ c + 1 <= MaxSpeech /\ d.startOffset < c + 1
    BY <1>1, <1>2, <1>6, Constants
  <2>2. Open(f)
    BY <1>3, <1>6, <2>1 DEF Open, Live
  <2> QED BY <1>3, <1>6, <2>2 DEF c
<1>7. CASE r = [f EXCEPT !.stop = Cur(f)] /\ fin
  <2>1. /\ r.wave = f.wave /\ r.probs = f.probs /\ r.offset = f.offset /\ r.start = 0
        /\ r.stop = c + 1
    BY <1>3, <1>7 DEF Detectors
  <2>2. Cur(r) = c + 1 /\ Len(r.wave) = c + 1 /\ Following(r.wave, r.offset)
    BY <1>3, <2>1 DEF Cur, Buffered
  <2>a. c = MaxSpeech
    BY <1>2, <1>7
  <2>3. c + 1 \in MinSpeech..(c + 1) /\ ~(c < MaxSpeech)
    BY <2>a, Constants
  <2>4. Closed(r)
    BY <1>1, <1>3, <2>1, <2>2, <2>3 DEF Closed
  <2> QED BY <1>3, <2>a, <2>1, <2>2, <2>3, <2>4 DEF c
<1>8. CASE EndJudged(f, sil) /\ StopFound(f, r)
  <2>0. PICK x \in MinSpeech..c : r = [f EXCEPT !.stop = x, !.end = TRUE]
    <3>1. c \in Nat /\ Cur(f) = c + 1
      BY <1>1, <1>3
    <3>2. Cur(f) - 1 = c
      BY <3>1
    <3> QED BY <3>2, <1>8 DEF StopFound
  <2>1. /\ r.wave = f.wave /\ r.probs = f.probs /\ r.offset = f.offset /\ r.start = 0
        /\ r.stop = x
    BY <1>3, <2>0 DEF Detectors
  <2>2. Cur(r) = c + 1 /\ Len(r.wave) = c + 1 /\ Following(r.wave, r.offset)
    BY <1>3, <2>1 DEF Cur, Buffered
  <2>3. x \in MinSpeech..(c + 1) /\ x <= c
    BY <1>1, Constants
  <2>4. Closed(r)
    BY <1>1, <1>3, <2>1, <2>2, <2>3 DEF Closed
  <2>5. ~(c + 1 <= d.startOffset + sil)
    <3>1. c + 1 > d.startOffset + sil
      BY <1>3, <1>8 DEF EndJudged
    <3>2. c \in Nat /\ d.startOffset \in Int
      BY <1>1
    <3> QED BY <3>1, <3>2, <1>5
  <2> QED BY <1>3, <2>1, <2>2, <2>3, <2>4, <2>5 DEF c
<1>9. \/ r = f /\ ~fin
      \/ r = [f EXCEPT !.stop = Cur(f)] /\ fin
      \/ EndJudged(f, sil) /\ StopFound(f, r)
  BY <1>2, <1>3, <1>4, <1>5, JudgeEndCloses
<1> QED BY <1>6, <1>7, <1>8, <1>9

(* A frame given to a quiet detector. *)
LEMMA FeedQuiet ==
    ASSUME NEW d, Quiet(d), NEW sil \in {ShortSil, LongSil}, NEW voc \in BOOLEAN,
           NEW r \in InputWave(d, sil, voc)
    PROVE  Quiet(r) \/ (Open(r) /\ Cur(r) >= 1)
<1> DEFINE c == Cur(d)
           fin == MustEnd(d)
           f == Fed(d, voc, fin)
<1>1. /\ d \in Detectors /\ Live(d) /\ c \in Nat /\ c <= MostSilence /\ d.start = -1
      /\ ~d.end /\ Len(d.wave) = c
  BY Members DEF Quiet, Live, Buffered
<1>2. fin = FALSE
  <2>1. GetVoiceFrameNum(d) = 0
    BY <1>1 DEF GetVoiceFrameNum
  <2>2. c + 1 # MaxFrames /\ ~(0 >= MaxSpeech)
    <3> HIDE DEF c
    <3> QED BY <1>1, Constants
  <2> QED BY <1>1, <2>1, <2>2 DEF MustEnd
<1>3. /\ f \in Detectors /\ Buffered(f) /\ Cur(f) = c + 1
      /\ f.start = -1 /\ f.stop = -1 /\ f.end = FALSE
  <2> HIDE DEF fin
  <2>0. fin \in BOOLEAN
    BY <1>2
  <2>1. /\ f \in Detectors /\ Buffered(f) /\ Cur(f) = Cur(d) + 1
        /\ f.start = d.start /\ f.stop = -1 /\ f.end = fin
    BY <1>1, <2>0, AppendFeeds
  <2> HIDE DEF f
  <2> QED BY <2>1, <1>1, <1>2
<1>4. Live(f)
  BY <1>3 DEF Live
<1>5. PICK b \in {TrimSilence(f)} \cup {JudgeVoiceBegin(f, i) : i \in Begins(f)} :
         r \in JudgeEnd(b, sil, fin)
  <2> HIDE DEF f
  <2>1. ~(f.start # -1)
    BY <1>3
  <2> QED BY <1>1, <2>1 DEF InputWave, Fed, f
<1> HIDE DEF f, fin
<1>6. sil \in Nat \ {0}
  BY Constants
<1>7. CASE b = TrimSilence(f)
  <2>1. Cur(f) <= MostSilence + 1
    <3> HIDE DEF c
    <3> QED BY <1>1, <1>3, Constants
  <2>2. Quiet(b)
    BY <1>3, <1>4, <1>7, <2>1, TrimKeepsQuiet
  <2>3. b.start < 0
    BY <2>2 DEF Quiet
  <2>4. r = b
    BY <1>5, <2>3 DEF JudgeEnd
  <2> QED BY <2>2, <2>4
<1>8. CASE b # TrimSilence(f)
  <2>1. PICK i \in Begins(f) : b = JudgeVoiceBegin(f, i)
    BY <1>5, <1>8
  <2>2. i \in MinVoc..(Cur(f) - 1) /\ i >= Cur(f) - 1 - PitchLag
    BY DEF Begins
  <2>3. Open(b) /\ Cur(b) >= 1 /\ Cur(b) < MinSpeech
    BY <1>4, <2>1, <2>2, BeginOpens
  <2>4. b \in Detectors /\ b.start = 0 /\ b.stop = -1 /\ Cur(b) \in Nat
    BY <2>3, Members DEF Open, Live
  <2>5. ~EndJudged(b, sil)
    BY <2>3, <2>4, Constants DEF EndJudged
  <2>6. r = b
    BY <1>2, <1>5, <1>6, <2>4, <2>5, JudgeEndCloses
  <2> QED BY <2>3, <2>6
<1> QED BY <1>7, <1>8

(* SetStart on a restarted detector opens a segment without a frame. *)
LEMMA ForcedOpens ==
    LET d == SetStart(Restarted)
    IN  Open(d) /\ Cur(d) = 0 /\ d.offset = 0 /\ d.startOffset = -1
<1> DEFINE d == SetStart(Restarted)
<1>1. Restarted \in Detectors /\ Live(Restarted) /\ Cur(Restarted) = 0
  BY RestartedIsQuiet DEF Quiet
<1>2. Restarted.start = -1 /\ Restarted.offset = 0
  BY DEF Restarted
<1>3. d = MarkStart(Restarted, -1, -1)
  BY <1>1, <1>2 DEF SetStart
<1>4. d = [Restarted EXCEPT !.start = 0, !.startOffset = -1]
  BY <1>3 DEF MarkStart
<1> HIDE DEF d
<1>5. d \in Detectors
  BY <1>1, <1>4 DEF Detectors
<1>6. /\ d.wave = Restarted.wave /\ d.probs = Restarted.probs
      /\ d.offset = Restarted.offset /\ d.start = 0 /\ d.startOffset = -1
      /\ d.stop = Restarted.stop /\ d.end = Restarted.end
  BY <1>1, <1>4 DEF Detectors
<1>7. Live(d) /\ Cur(d) = 0
  BY <1>1, <1>5, <1>6 DEF Live, Buffered, Cur
<1>8. Cur(d) <= MaxSpeech
  BY <1>7, Constants
<1>9. Open(d)
  BY <1>6, <1>7, <1>8 DEF Open
<1> QED BY <1>2, <1>6, <1>7, <1>9 DEF d

-----------------------------------------------------------------------------
(* What has been handed out is what the open detector holds. *)
SegmentInv ==
    /\ has_vad => /\ Open(vd) /\ last_frame = Cur(vd)
                  /\ Following(segment, vd.offset) /\ Len(segment) = Cur(vd)
    /\ ~has_vad => Quiet(vd) /\ last_frame = 0

(* A call made for a wake word opens a segment with its first frame, and its  *)
(* history is too short to end it.                                            *)
CallInv ==
    /\ force_start => /\ vd = Restarted /\ ~has_vad /\ awake /\ pc = "loop"
                      /\ vad_input <= MaxInput
    /\ pc = "loop" => vad_input >= 1 /\ (~has_vad => ret = {})
    /\ pc = "loop" /\ awake /\ ~force_start =>
          /\ has_vad /\ ret = {"on"} /\ m_nMinSilFrameNum = LongSil
          /\ Cur(vd) + vad_input <= MaxInput

Inv == TypeOK /\ SegmentInv /\ CallInv

Loops == pc' = IF vad_input = 1 THEN "idle" ELSE "loop"

(* The four outcomes of a pass of the loop. *)
FrameBegins ==
    /\ ~has_vad /\ has_vad' = TRUE /\ ret' = ret \cup {"on"} /\ Loops
    /\ Open(vd') /\ last_frame' = Cur(vd')
    /\ Following(segment', (vd').offset) /\ Len(segment') = Cur(vd')
FrameSilent ==
    /\ ~has_vad /\ has_vad' = FALSE /\ ret' = ret /\ Loops
    /\ Quiet(vd') /\ last_frame' = 0 /\ segment' = segment
FrameContinues ==
    /\ has_vad /\ has_vad' = TRUE /\ ret' = ret /\ Loops
    /\ Open(vd') /\ last_frame' = Cur(vd') /\ Cur(vd') = Cur(vd) + 1
    /\ Following(segment', (vd').offset) /\ Len(segment') = Cur(vd')
FrameCloses ==
    /\ has_vad /\ has_vad' = FALSE /\ ret' = ret \cup {"off"} /\ pc' = "idle"
    /\ vd' = Restarted /\ last_frame' = 0
    /\ Following(segment', vd.offset) /\ Len(segment') \in MinSpeech..(MaxSpeech + 1)

(* Members and counters in a state of the invariant. *)
LEMMA StateTypes ==
    ASSUME Inv
    PROVE  /\ vd \in Detectors /\ Cur(vd) \in Nat /\ vd.offset \in Nat
           /\ has_vad \in BOOLEAN /\ last_frame \in Nat /\ vad_input \in Nat
           /\ segment \in Seq(Nat) /\ ret \subseteq {"on", "off"}
BY Members DEF Inv, TypeOK

(* Examining a detector that has just opened. *)
LEMMA ExamineBegins ==
    ASSUME Inv, ~has_vad, NEW e, Open(e), Cur(e) >= 1, Examine(e)
    PROVE  FrameBegins /\ vd' = e
<1>1. /\ last_frame = 0 /\ e \in Detectors /\ e.start = 0 /\ e.stop = -1 /\ e.offset \in Nat
      /\ Cur(e) \in Nat /\ Following(e.wave, e.offset) /\ Len(e.wave) = Cur(e)
  BY Members DEF Inv, SegmentInv, Open, Live, Buffered
<1>2. GetVoiceFrameNum(e) = Cur(e)
  BY <1>1 DEF GetVoiceFrameNum
<1>3. Cur(e) > last_frame /\ e.start >= 0
  BY <1>1
<1> DEFINE h == HandOut(e)
<1>4. Following(h, e.offset) /\ Len(h) = Cur(e)
  <2>1. h = SubSeq(e.wave, 0 + 1, Cur(e)) /\ e.offset + 0 = e.offset /\ Cur(e) - 0 = Cur(e)
    BY <1>1, <1>2 DEF HandOut
  <2>2. 0 \in 0..Len(e.wave) /\ Cur(e) \in 0..Len(e.wave)
    BY <1>1
  <2>3. /\ Following(SubSeq(e.wave, 0 + 1, Cur(e)), e.offset + 0)
        /\ Len(SubSeq(e.wave, 0 + 1, Cur(e))) = Cur(e) - 0
    BY <1>1, <2>2, TakePart
  <2> QED BY <2>1, <2>3
<1> HIDE DEF h
<1>5. /\ ret' = ret \cup {"on"} \cup {} /\ segment' = <<>> \o h /\ vd' = e
      /\ has_vad' = TRUE /\ last_frame' = Cur(e) /\ Loops
  BY <1>2, <1>3 DEF Examine, LoopDone, Loops, h
<1>6. segment' = h
  <2>1. h \in Seq(Nat)
    BY <1>4 DEF Following
  <2> QED BY <2>1, <1>5, ConcatEmptySeq
<1> QED BY <1>4, <1>5, <1>6 DEF FrameBegins

(* Examining a detector that is still quiet. *)
LEMMA ExamineSilent ==
    ASSUME Inv, ~has_vad, NEW e, Quiet(e), Examine(e)
    PROVE  FrameSilent /\ vd' = e
<1>1. last_frame = 0 /\ e.start = -1 /\ segment \in Seq(Nat)
  BY StateTypes DEF Inv, SegmentInv, Quiet
<1>2. ~(e.start >= 0)
  BY <1>1
<1>3. /\ ret' = ret \cup {} \cup {} /\ segment' = segment \o <<>> /\ vd' = e
      /\ has_vad' = FALSE /\ last_frame' = last_frame /\ Loops
  BY <1>2 DEF Examine, LoopDone, Loops
<1>4. segment' = segment
  BY <1>1, <1>3, ConcatEmptySeq
<1> QED BY <1>1, <1>3, <1>4 DEF FrameSilent

(* Examining a detector whose segment goes on. *)
LEMMA ExamineContinues ==
    ASSUME Inv, has_vad, NEW e, Open(e), e.offset = vd.offset, Cur(e) = Cur(vd) + 1,
           Examine(e)
    PROVE  FrameContinues /\ vd' = e
<1> DEFINE c == Cur(vd)
           h == HandOut(e)
<1>1. /\ last_frame = c /\ c \in Nat /\ e.start = 0 /\ e.stop = -1 /\ e.offset \in Nat
      /\ Following(e.wave, e.offset) /\ Len(e.wave) = c + 1
      /\ Following(segment, e.offset) /\ Len(segment) = c
  BY StateTypes, Members DEF Inv, SegmentInv, Open, Live, Buffered
<1>2. GetVoiceFrameNum(e) = Cur(e)
  BY <1>1 DEF GetVoiceFrameNum
<1> HIDE DEF c
<1>3. Cur(e) = c + 1 /\ Cur(e) > last_frame /\ ~Stopped(e)
  <2>1. Cur(e) = c + 1
    BY DEF c
  <2>2. c + 1 > c
    BY <1>1
  <2> QED BY <1>1, <2>1, <2>2 DEF Stopped
<1>4. Following(h, e.offset + c) /\ Len(h) = c + 1 - c
  <2>1. h = SubSeq(e.wave, c + 1, c + 1)
    BY <1>1, <1>2, <1>3 DEF HandOut
  <2>2. c \in 0..Len(e.wave) /\ c + 1 \in c..Len(e.wave)
    BY <1>1
  <2> QED BY <1>1, <2>1, <2>2, TakePart
<1> HIDE DEF h
<1>5. /\ ret' = ret \cup {} \cup {} /\ segment' = segment \o h /\ vd' = e
      /\ has_vad' = TRUE /\ last_frame' = Cur(e) /\ Loops
  BY <1>2, <1>3 DEF Examine, LoopDone, Loops, h
<1>6. Following(segment', e.offset) /\ Len(segment') = c + (c + 1 - c)
  BY <1>1, <1>4, <1>5, Joined
<1>7. c + (c + 1 - c) = c + 1
  BY <1>1
<1> QED BY <1>3, <1>5, <1>6, <1>7 DEF FrameContinues, c

(* Examining a detector that has found the end. *)
LEMMA ExamineCloses ==
    ASSUME Inv, has_vad, NEW e, Closed(e), e.offset = vd.offset, Cur(e) = Cur(vd) + 1,
           e.stop <= Cur(vd) \/ e.stop = Cur(vd) + 1, Examine(e)
    PROVE  FrameCloses
<1> DEFINE c == Cur(vd)
           h == HandOut(e)
           more == IF e.stop > c THEN h ELSE <<>>
<1>1. /\ last_frame = c /\ c \in Nat /\ e.start = 0 /\ e.stop \in MinSpeech..(c + 1)
      /\ e.offset \in Nat /\ c <= MaxSpeech
      /\ Following(e.wave, e.offset) /\ Len(e.wave) = c + 1
      /\ Following(segment, e.offset) /\ Len(segment) = c
  BY StateTypes DEF Inv, SegmentInv, Open, Closed
<1> HIDE DEF c
<1>2. e.stop \in Nat \ {0} /\ MinSpeech \in Nat /\ MaxSpeech \in Nat
  <2>1. e.stop \in MinSpeech..(c + 1) /\ c \in Nat
    BY <1>1
  <2> QED BY <2>1, Constants
<1>3. GetVoiceFrameNum(e) = e.stop /\ Stopped(e)
  <2>1. e.stop >= 0 /\ e.stop - 0 = e.stop /\ e.stop + e.offset > 0
    BY <1>1, <1>2
  <2> QED BY <1>1, <2>1 DEF GetVoiceFrameNum, Stopped
<1>4. /\ ret' = ret \cup {} \cup {"off"} /\ segment' = segment \o more
      /\ vd' = Restarted /\ has_vad' = FALSE /\ last_frame' = 0 /\ pc' = "idle"
  BY <1>1, <1>3 DEF Examine, LoopDone, vad_reset
<1>5. Following(segment', e.offset) /\ Len(segment') \in MinSpeech..(MaxSpeech + 1)
  <2>1. CASE e.stop > c
    <3>1. e.stop = c + 1
      BY <1>1, <1>2, <2>1
    <3>2. h = SubSeq(e.wave, c + 1, c + 1)
      BY <1>1, <1>3, <3>1 DEF HandOut
    <3>3. c \in 0..Len(e.wave) /\ c + 1 \in c..Len(e.wave)
      BY <1>1
    <3>4. Following(h, e.offset + c) /\ Len(h) = c + 1 - c
      <4>1. Following(SubSeq(e.wave, c + 1, c + 1), e.offset + c)
            /\ Len(SubSeq(e.wave, c + 1, c + 1)) = c + 1 - c
        <5>1. e.offset \in Nat /\ Following(e.wave, e.offset)
          BY <1>1
        <5> HIDE DEF h, more
        <5> QED BY <5>1, <3>3, TakePart
      <4> QED BY <4>1, <3>2
    <3> HIDE DEF h
    <3>5. segment' = segment \o h
      BY <1>4, <2>1
    <3>6. Following(segment', e.offset) /\ Len(segment') = c + (c + 1 - c)
      BY <1>1, <3>4, <3>5, Joined
    <3>7. c + (c + 1 - c) \in MinSpeech..(MaxSpeech + 1)
      <4>1. c \in Nat /\ c <= MaxSpeech /\ c + 1 \in MinSpeech..(c + 1)
        BY <1>1, <3>1
      <4> QED BY <4>1, <1>2
    <3> QED BY <3>6, <3>7
  <2>2. CASE ~(e.stop > c)
    <3>1. segment' = segment \o <<>>
      BY <1>4, <2>2
    <3>2. segment \in Seq(Nat)
      BY StateTypes
    <3>3. segment' = segment
      BY <3>1, <3>2, ConcatEmptySeq
    <3>4. c \in MinSpeech..(MaxSpeech + 1)
      <4>1. c \in Nat /\ c <= MaxSpeech /\ e.stop \in MinSpeech..(c + 1)
        BY <1>1
      <4> QED BY <4>1, <1>2, <2>2
    <3> QED BY <1>1, <3>3, <3>4
  <2> QED BY <2>1, <2>2
<1> QED BY <1>4, <1>5 DEF FrameCloses

(* Every pass of the loop has one of the four outcomes; the one for a wake    *)
(* word begins a segment of one frame, and later ones do not end it.          *)
LEMMA FrameOutcome ==
    ASSUME Inv, Frame
    PROVE  \/ FrameBegins /\ (force_start => Cur(vd') = 1)
           \/ FrameSilent /\ ~force_start
           \/ FrameContinues /\ ~force_start
           \/ FrameCloses /\ ~force_start /\ ~awake
<1> DEFINE d == IF force_start THEN SetStart(vd) ELSE vd
           sil == IF force_start THEN LongSil ELSE m_nMinSilFrameNum
<1>1. PICK voc \in BOOLEAN : \E e \in InputWave(d, sil, voc) : Examine(e)
  BY DEF Frame
<1>2. PICK e \in InputWave(d, sil, voc) : Examine(e)
  BY <1>1
<1>3. CASE force_start
  <2>1. d = SetStart(Restarted) /\ ~has_vad /\ sil = LongSil
    BY <1>3 DEF Inv, CallInv
  <2> HIDE DEF d, sil
  <2>2. Open(d) /\ Cur(d) = 0 /\ d.startOffset = -1
    BY <2>1, ForcedOpens
  <2>3. 0 < MaxSpeech /\ 0 + 1 <= -1 + LongSil
    BY Constants
  <2>4. Open(e) /\ Cur(e) = 0 + 1
    BY <1>2, <2>1, <2>2, <2>3, FeedOpen
  <2>5. FrameBegins /\ vd' = e
    BY <1>2, <2>1, <2>4, ExamineBegins
  <2> QED BY <2>4, <2>5
<1>4. CASE ~force_start /\ ~has_vad
  <2>1. d = vd /\ sil \in {ShortSil, LongSil} /\ Quiet(vd)
    BY <1>4 DEF Inv, SegmentInv, TypeOK
  <2> HIDE DEF d, sil
  <2>2. Quiet(e) \/ (Open(e) /\ Cur(e) >= 1)
    BY <1>2, <2>1, FeedQuiet
  <2> QED BY <1>2, <1>4, <2>2, ExamineBegins, ExamineSilent
<1>5. CASE ~force_start /\ has_vad
  <2>1. d = vd /\ sil = m_nMinSilFrameNum /\ sil \in {ShortSil, LongSil} /\ Open(vd)
    BY <1>5 DEF Inv, SegmentInv, TypeOK
  <2> HIDE DEF d, sil
  <2>2. /\ e.offset = vd.offset /\ Cur(e) = Cur(vd) + 1
        /\ \/ Open(e)
           \/ Closed(e) /\ (e.stop <= Cur(vd) \/ e.stop = Cur(vd) + 1)
        /\ Cur(vd) < MaxSpeech /\ Cur(vd) + 1 <= vd.startOffset + sil => Open(e)
    BY <1>2, <2>1, FeedOpen
  <2>3. CASE Open(e)
    BY <1>2, <1>5, <2>2, <2>3, ExamineContinues
  <2>4. CASE ~Open(e)
    <3>1. FrameCloses
      BY <1>2, <1>5, <2>2, <2>4, ExamineCloses
    <3>2. ~awake
      <4> SUFFICES ASSUME awake PROVE FALSE
        OBVIOUS
      <4>1. sil = LongSil /\ Cur(vd) + vad_input <= MaxInput /\ vad_input >= 1
        BY <1>5, <2>1 DEF Inv, CallInv, Frame
      <4>2. Cur(vd) \in Nat /\ vad_input \in Nat /\ vd.startOffset \in Int
            /\ vd.startOffset >= -1
        BY StateTypes, Members
      <4>3. Cur(vd) < MaxSpeech /\ Cur(vd) + 1 <= vd.startOffset + sil
        BY <4>1, <4>2, Constants
      <4> QED BY <4>3, <2>2, <2>4
    <3> QED BY <1>5, <3>1, <3>2
  <2> QED BY <2>3, <2>4
<1> QED BY <1>3, <1>4, <1>5 DEF Inv, TypeOK

(* The invariant holds at the start. *)
LEMMA InvInit == Init => Inv
<1> SUFFICES ASSUME Init PROVE Inv
  OBVIOUS
<1>1. <<>> \in Seq(Nat)
  OBVIOUS
<1>2. TypeOK
  BY <1>1, RestartedIsQuiet DEF Init, TypeOK
<1> QED BY <1>2, RestartedIsQuiet DEF Init, Inv, SegmentInv, CallInv

(* Every step keeps it. *)
LEMMA InvStep == Inv /\ [Next]_vars => Inv'
<1> SUFFICES ASSUME Inv, [Next]_vars PROVE Inv'
  OBVIOUS
<1>t. /\ vd \in Detectors /\ Cur(vd) \in Nat /\ vd.offset \in Nat
      /\ has_vad \in BOOLEAN /\ last_frame \in Nat /\ vad_input \in Nat
      /\ segment \in Seq(Nat) /\ ret \subseteq {"on", "off"}
  BY StateTypes
<1>1. ASSUME NEW n \in 1..MaxInput, NEW word \in BOOLEAN, NEW wake \in BOOLEAN,
             Call(n, word, wake)
      PROVE  Inv'
  <2>1. /\ pc = "idle" /\ pc' = "loop" /\ vad_input' = vad_input + n
        /\ force_start' = wake /\ awake' = wake /\ ret' = {}
        /\ m_nMinSilFrameNum' = m_nMinSilFrameNum /\ segment' = segment
        /\ (wake => word) /\ (word => vad_input = 0)
    BY <1>1 DEF Call
  <2>2. vad_input' \in Nat /\ vad_input' >= 1 /\ (word => vad_input' <= MaxInput)
    BY <2>1, <1>t, Constants
  <2>3. CASE word
    <3>1. vd' = Restarted /\ has_vad' = FALSE /\ last_frame' = 0
      BY <1>1, <2>3 DEF Call, vad_reset
    <3>2. TypeOK'
      BY <2>1, <2>2, <3>1, RestartedIsQuiet DEF TypeOK, Inv
    <3>3. SegmentInv'
      BY <3>1, RestartedIsQuiet DEF SegmentInv
    <3>4. CallInv'
      BY <2>1, <2>2, <2>3, <3>1 DEF CallInv
    <3> QED BY <3>2, <3>3, <3>4 DEF Inv
  <2>4. CASE ~word
    <3>1. UNCHANGED <<vd, has_vad, last_frame>>
      BY <1>1, <2>4 DEF Call
    <3>2. TypeOK'
      BY <2>1, <2>2, <3>1 DEF TypeOK, Inv
    <3>3. SegmentInv'
      BY <2>1, <3>1 DEF SegmentInv, Inv
    <3>4. CallInv'
      BY <2>1, <2>2, <2>4, <3>1 DEF CallInv
    <3> QED BY <3>2, <3>3, <3>4 DEF Inv
  <2> QED BY <2>3, <2>4
<1>2. CASE Frame
  <2>1. /\ pc = "loop" /\ force_start' = FALSE /\ vad_input' = vad_input - 1
        /\ awake' = awake /\ vad_input >= 1 /\ (~has_vad => ret = {})
        /\ m_nMinSilFrameNum' = IF force_start THEN LongSil ELSE m_nMinSilFrameNum
    BY <1>2 DEF Frame, Inv, CallInv
  <2>2. vad_input' \in Nat /\ (vad_input # 1 => vad_input' >= 1)
    BY <2>1, <1>t
  <2>3. m_nMinSilFrameNum' \in {ShortSil, LongSil} /\ awake' \in BOOLEAN
    BY <2>1 DEF Inv, TypeOK
  <2>4. CASE FrameBegins /\ (force_start => Cur(vd') = 1)
    <3>1. /\ has_vad' = TRUE /\ ret' = {"on"} /\ Loops /\ Open(vd') /\ last_frame' = Cur(vd')
          /\ Following(segment', (vd').offset) /\ Len(segment') = Cur(vd')
      BY <2>1, <2>4 DEF FrameBegins
    <3>2. vd' \in Detectors /\ last_frame' \in Nat /\ segment' \in Seq(Nat)
      BY <3>1, Members DEF Open, Live, Following
    <3>3. TypeOK'
      BY <2>1, <2>2, <2>3, <3>1, <3>2 DEF TypeOK, Loops
    <3>4. SegmentInv'
      BY <3>1 DEF SegmentInv
    <3>5. ASSUME pc' = "loop", awake' PROVE m_nMinSilFrameNum' = LongSil
                                            /\ Cur(vd') + vad_input' <= MaxInput
      <4>1. force_start
        BY <2>1, <2>4, <3>5 DEF FrameBegins, Inv, CallInv
      <4>2. Cur(vd') = 1 /\ vad_input <= MaxInput
        BY <4>1, <2>4 DEF Inv, CallInv
      <4>3. 1 + (vad_input - 1) = vad_input
        BY <1>t
      <4> QED BY <4>1, <4>2, <4>3, <2>1
    <3>6. CallInv'
      BY <2>1, <2>2, <3>1, <3>5 DEF CallInv, Loops
    <3> QED BY <3>3, <3>4, <3>6 DEF Inv
  <2>5. CASE FrameSilent /\ ~force_start
    <3>1. /\ has_vad' = FALSE /\ ret' = {} /\ Loops /\ Quiet(vd') /\ last_frame' = 0
          /\ segment' = segment /\ ~has_vad
      BY <2>1, <2>5 DEF FrameSilent
    <3>2. vd' \in Detectors
      BY <3>1 DEF Quiet, Live
    <3>3. TypeOK'
      BY <1>t, <2>1, <2>2, <2>3, <3>1, <3>2 DEF TypeOK, Loops
    <3>4. SegmentInv'
      BY <3>1 DEF SegmentInv
    <3>5. ~awake
      BY <2>1, <2>5, <3>1 DEF Inv, CallInv
    <3>6. CallInv'
      BY <2>1, <2>2, <3>1, <3>5 DEF CallInv, Loops
    <3> QED BY <3>3, <3>4, <3>6 DEF Inv
  <2>6. CASE FrameContinues /\ ~force_start
    <3>1. /\ has_vad /\ has_vad' = TRUE /\ ret' = ret /\ Loops /\ Open(vd')
          /\ last_frame' = Cur(vd') /\ Cur(vd') = Cur(vd) + 1
          /\ Following(segment', (vd').offset) /\ Len(segment') = Cur(vd')
      BY <2>6 DEF FrameContinues
    <3>2. vd' \in Detectors /\ last_frame' \in Nat /\ segment' \in Seq(Nat)
      BY <3>1, Members DEF Open, Live, Following
    <3>3. TypeOK'
      BY <1>t, <2>1, <2>2, <2>3, <3>1, <3>2 DEF TypeOK, Loops
    <3>4. SegmentInv'
      BY <3>1 DEF SegmentInv
    <3>5. ASSUME awake' PROVE /\ ret' = {"on"} /\ m_nMinSilFrameNum' = LongSil
                               /\ Cur(vd') + vad_input' <= MaxInput
      <4>1. ret = {"on"} /\ m_nMinSilFrameNum = LongSil /\ Cur(vd) + vad_input <= MaxInput
        BY <2>1, <2>6, <3>5 DEF Inv, CallInv
      <4>2. Cur(vd) + 1 + (vad_input - 1) = Cur(vd) + vad_input
        BY <1>t
      <4> QED BY <4>1, <4>2, <2>1, <2>6, <3>1
    <3>6. CallInv'
      BY <2>1, <2>2, <3>1, <3>5 DEF CallInv, Loops
    <3> QED BY <3>3, <3>4, <3>6 DEF Inv
  <2>7. CASE FrameCloses /\ ~force_start /\ ~awake
    <3>1. /\ has_vad' = FALSE /\ ret' = ret \cup {"off"} /\ pc' = "idle"
          /\ vd' = Restarted /\ last_frame' = 0 /\ segment' \in Seq(Nat)
      BY <2>7 DEF FrameCloses, Following
    <3>2. TypeOK'
      BY <1>t, <2>1, <2>2, <2>3, <3>1, RestartedIsQuiet DEF TypeOK
    <3>3. SegmentInv'
      BY <3>1, RestartedIsQuiet DEF SegmentInv
    <3>4. CallInv'
      BY <2>1, <3>1 DEF CallInv
    <3> QED BY <3>2, <3>3, <3>4 DEF Inv
  <2> QED BY <1>2, <2>4, <2>5, <2>6, <2>7, FrameOutcome
<1>3. ASSUME NEW n \in {ShortSil, LongSil}, SetVadFrameNum(n) PROVE Inv'
  <2>1. /\ pc = "idle" /\ m_nMinSilFrameNum' = n
        /\ UNCHANGED <<vd, has_vad, last_frame, vad_input, force_start, awake, ret,
                       segment, pc>>
    BY <1>3 DEF SetVadFrameNum
  <2>2. TypeOK'
    BY <2>1 DEF TypeOK, Inv
  <2>3. SegmentInv' /\ CallInv'
    BY <2>1 DEF SegmentInv, CallInv, Inv
  <2> QED BY <2>2, <2>3 DEF Inv
<1>4. CASE UNCHANGED vars
  BY <1>4 DEF vars, Inv, TypeOK, SegmentInv, CallInv
<1> QED BY <1>1, <1>2, <1>3, <1>4 DEF Next

-----------------------------------------------------------------------------
(* The invariant holds in every state. *)
LEMMA Invariance == Spec => []Inv
<1>1. Init => Inv
  BY InvInit
<1>2. Inv /\ [Next]_vars => Inv'
  BY InvStep
<1> QED BY <1>1, <1>2, PTL DEF Spec

(* The members of the detector and the variables of check_voice_activity      *)
(* keep their types.                                                          *)
THEOREM TypeCorrect == Spec => []TypeOK
<1>1. Inv => TypeOK
  BY DEF Inv
<1> QED BY <1>1, Invariance, PTL

(* InternalInputWave never meets a detector that ignores its input: whenever  *)
(* the loop of check_voice_activity looks, m_bIsEnd has led to a restart.     *)
THEOREM DetectorHears == Spec => []NeverDeaf
<1>1. Inv => NeverDeaf
  BY DEF Inv, SegmentInv, NeverDeaf, Quiet, Open, Live, TypeOK
<1> QED BY <1>1, Invariance, PTL

(* The wave buffer (ByteBuffer) never fills up. *)
THEOREM BufferNeverFull == Spec => []NeverFull
<1>1. Inv => NeverFull
  <2> SUFFICES ASSUME Inv PROVE NeverFull
    OBVIOUS
  <2>1. Len(vd.wave) = Cur(vd) /\ (Cur(vd) <= MostSilence \/ Cur(vd) <= MaxSpeech)
    BY DEF Inv, SegmentInv, TypeOK, Quiet, Open, Live, Buffered
  <2>2. Cur(vd) < MaxFrames
    BY <2>1, StateTypes, Constants
  <2> QED BY <2>1, <2>2 DEF NeverFull, Cur
<1> QED BY <1>1, Invariance, PTL

(* The frames handed out of a segment are its first ones, consecutive and     *)
(* each once, although GetFloatVoice and last_frame count from different ends *)
(* of what OffsetWaveFrame moves.                                             *)
THEOREM SegmentsIntact == Spec => []SegmentIntact
<1>1. Inv => SegmentIntact
  BY DEF Inv, SegmentInv, SegmentIntact, Open, Following
<1> QED BY <1>1, Invariance, PTL

(* JudgeVoiceEnd reads only frames that are in the buffer. *)
THEOREM EndWindowInside == Spec => []EndWindowInBuffer
<1>1. Inv => EndWindowInBuffer
  <2> SUFFICES ASSUME Inv, vd.start >= 0, EndJudged(vd, m_nMinSilFrameNum)
               PROVE  EndFrom(vd, m_nMinSilFrameNum) >= 0
    BY DEF EndWindowInBuffer
  <2>1. has_vad
    BY DEF Inv, SegmentInv, Quiet, TypeOK
  <2>2. Open(vd) /\ vd \in Detectors /\ vd.start = 0 /\ Cur(vd) <= MaxSpeech
    BY <2>1 DEF Inv, SegmentInv, Open, Live
  <2>3. Cur(vd) \in Nat /\ vd.startOffset \in Int /\ vd.startOffset >= -1
    BY <2>2, Members
  <2>4. CASE m_nMinSilFrameNum = LongSil
    <3>1. Cur(vd) > vd.startOffset + LongSil
      BY <2>4 DEF EndJudged
    <3> QED BY <3>1, <2>2, <2>3, Constants
  <2>5. CASE m_nMinSilFrameNum = ShortSil
    <3>1. MinSpeech - ShortSil >= 0
      BY Constants
    <3> QED BY <2>2, <2>3, <2>5, <3>1, Constants DEF EndFrom
  <2> QED BY <2>4, <2>5 DEF Inv, TypeOK
<1> QED BY <1>1, Invariance, PTL

(* When a segment ends, what check_voice_activity handed out of it is         *)
(* consecutive, no shorter than m_nMinSpeechFrameNum and at most one frame    *)
(* longer than m_nMaxSpeechFrameNum.                                          *)
THEOREM SegmentsComplete == Spec => SegmentComplete
<1> DEFINE A == has_vad /\ ~has_vad' /\ pc = "loop" =>
                 /\ Len(segment') \in MinSpeech..(MaxSpeech + 1)
                 /\ \A k \in 1..Len(segment') : segment'[k] = vd.offset + k
<1>1. Inv /\ [Next]_vars => [A]_vars
  <2> SUFFICES ASSUME Inv, Next, has_vad, ~has_vad', pc = "loop"
               PROVE  /\ Len(segment') \in MinSpeech..(MaxSpeech + 1)
                      /\ \A k \in 1..Len(segment') : segment'[k] = vd.offset + k
    OBVIOUS
  <2>1. Frame
    BY DEF Next, Call, SetVadFrameNum
  <2>2. FrameCloses
    BY <2>1, FrameOutcome DEF FrameBegins, FrameSilent, FrameContinues
  <2> QED BY <2>2 DEF FrameCloses, Following
<1>2. SegmentComplete <=> [][A]_vars
  BY DEF SegmentComplete
<1> HIDE DEF A
<1> QED BY <1>1, <1>2, Invariance, PTL DEF Spec

(* check_voice_activity implements VadReport: whatever the audio, processfrm  *)
(* sees beginnings and ends in turn, a wake word always begins a segment, and *)
(* its own history never ends it.                                             *)
THEOREM ReportImplemented == Spec => ImplementsReport
<1>1. Init => Report!Init
  BY DEF Init, Report!Init
<1>2. Inv /\ [Next]_vars => [Report!Next]_(Report!vars)
  <2> SUFFICES ASSUME Inv, [Next]_vars PROVE [Report!Next]_(Report!vars)
    OBVIOUS
  <2>1. ASSUME NEW n \in 1..MaxInput, NEW word \in BOOLEAN, NEW wake \in BOOLEAN,
               Call(n, word, wake)
        PROVE  Report!Next
    <3>1. /\ pc = "idle" /\ pc' = "loop" /\ awake' = wake /\ ret' = {} /\ (wake => word)
          /\ has_vad' = (has_vad /\ ~word)
      BY <2>1 DEF Call, vad_reset, Inv, TypeOK
    <3>2. Report!Call(word, wake)
      BY <3>1 DEF Report!Call
    <3> QED BY <3>2 DEF Report!Next
  <2>2. CASE Frame
    <3>1. /\ pc = "loop" /\ awake' = awake /\ (~has_vad => ret = {})
          /\ (awake /\ ~force_start => has_vad /\ ret = {"on"})
      BY <2>2 DEF Frame, Inv, CallInv
    <3>2. CASE FrameBegins
      <4>1. Report!On
        BY <3>1, <3>2 DEF FrameBegins, Report!On
      <4> QED BY <4>1 DEF Report!Next
    <3>3. CASE (FrameSilent \/ FrameContinues) /\ ~force_start
      <4>1. /\ has_vad' = has_vad /\ ret' = ret /\ (awake => ret = {"on"})
            /\ pc' \in {"idle", "loop"}
        BY <3>1, <3>3 DEF FrameSilent, FrameContinues, Loops, Inv, TypeOK
      <4>2. CASE pc' = "loop"
        BY <3>1, <4>1, <4>2 DEF Report!vars
      <4>3. CASE pc' = "idle"
        <5>1. Report!Return
          BY <3>1, <4>1, <4>3 DEF Report!Return
        <5> QED BY <5>1 DEF Report!Next
      <4> QED BY <4>1, <4>2, <4>3
    <3>4. CASE FrameCloses /\ ~awake
      <4>1. Report!Off
        BY <3>1, <3>4 DEF FrameCloses, Report!Off
      <4> QED BY <4>1 DEF Report!Next
    <3> QED BY <2>2, <3>2, <3>3, <3>4, FrameOutcome
  <2>3. ASSUME NEW n \in {ShortSil, LongSil}, SetVadFrameNum(n)
        PROVE  UNCHANGED Report!vars
    BY <2>3 DEF SetVadFrameNum, Report!vars
  <2>4. CASE UNCHANGED vars
    BY <2>4 DEF vars, Report!vars
  <2> QED BY <2>1, <2>2, <2>3, <2>4 DEF Next
<1> QED BY <1>1, <1>2, Invariance, PTL DEF Spec, ImplementsReport, Report!Spec
-----------------------------------------------------------------------------
(* The interface to VoiceActivation.  has_vad at the beginning of the call    *)
(* that runs, or ran last, once reset_asr has dropped the segment of a        *)
(* detected word; what the call has returned so far tells it.                 *)
Before == IF "on" \in ret THEN FALSE ELSE IF "off" \in ret THEN TRUE ELSE has_vad

(* When a call returns, its result and has_vad are what VoiceActivation takes *)
(* them to be, given has_vad and force_start at its beginning.                *)
ReturnsCallResult ==
    pc = "idle" => ret \in CallResults(Before, awake) /\ has_vad = OpenAfter(Before, ret)

(* Before is what its comment says: a call sets it and a pass of the loop     *)
(* keeps it.  Without a segment there is no audio to hand out.                *)
BeforeIsKept ==
    /\ \A n \in 1..MaxInput, word, wake \in BOOLEAN :
          Call(n, word, wake) => Before' = (has_vad /\ ~word) /\ awake' = wake
    /\ Frame => Before' = Before /\ awake' = awake
    /\ Frame /\ ~has_vad /\ ret' = {} => segment' = segment

(* What the loop has returned so far. *)
RetInv ==
    /\ "off" \in ret => ~has_vad /\ pc = "idle" /\ ~awake
    /\ ret = {"on"} => has_vad
    /\ pc = "idle" /\ awake => ret = {"on"}

(* Every step preserves it. *)
LEMMA RetStep == Inv /\ RetInv /\ [Next]_vars => RetInv'
<1> SUFFICES ASSUME Inv, RetInv, [Next]_vars PROVE RetInv'
  OBVIOUS
<1>1. ASSUME NEW n \in 1..MaxInput, NEW word \in BOOLEAN, NEW wake \in BOOLEAN,
             Call(n, word, wake)
      PROVE  RetInv'
  BY <1>1 DEF Call, RetInv
<1>2. CASE Frame
  <2>1. /\ pc = "loop" /\ awake' = awake /\ (~has_vad => ret = {})
        /\ (awake /\ ~force_start => has_vad /\ ret = {"on"})
    BY <1>2 DEF Frame, Inv, CallInv
  <2>2. CASE FrameBegins
    BY <2>1, <2>2 DEF FrameBegins, RetInv
  <2>3. CASE (FrameSilent \/ FrameContinues) /\ ~force_start
    BY <2>1, <2>3 DEF FrameSilent, FrameContinues, RetInv
  <2>4. CASE FrameCloses /\ ~awake
    BY <2>1, <2>4 DEF FrameCloses, RetInv
  <2> QED BY <1>2, <2>2, <2>3, <2>4, FrameOutcome
<1>3. ASSUME NEW n \in {ShortSil, LongSil}, SetVadFrameNum(n)
      PROVE  RetInv'
  BY <1>3 DEF SetVadFrameNum, RetInv
<1>4. CASE UNCHANGED vars
  BY <1>4 DEF vars, RetInv
<1> QED BY <1>1, <1>2, <1>3, <1>4 DEF Next

(* A whole call of check_voice_activity is the one step that VoiceActivation  *)
(* takes it for: its result is among the inputs enumerated there.             *)
THEOREM CallIsOneStep == Spec => []ReturnsCallResult
<1>1. Init => RetInv
  BY DEF Init, RetInv
<1>2. Inv /\ RetInv => ReturnsCallResult
  <2> SUFFICES ASSUME Inv, RetInv, pc = "idle"
               PROVE  ret \in CallResults(Before, awake) /\ has_vad = OpenAfter(Before, ret)
    BY DEF ReturnsCallResult
  <2>0. ret \subseteq {"on", "off"} /\ has_vad \in BOOLEAN
    BY StateTypes
  <2>1. ret = {} \/ ret = {"on"} \/ ret = {"off"} \/ ret = {"on", "off"}
    BY <2>0
  <2>2. CASE ret = {}
    BY <2>0, <2>2 DEF RetInv, Before, CallResults, OpenAfter
  <2>3. CASE ret = {"on"}
    BY <2>0, <2>3 DEF RetInv, Before, CallResults, OpenAfter
  <2>4. CASE ret = {"off"}
    BY <2>0, <2>4 DEF RetInv, Before, CallResults, OpenAfter
  <2>5. CASE ret = {"on", "off"}
    BY <2>0, <2>5 DEF RetInv, Before, CallResults, OpenAfter
  <2> QED BY <2>1, <2>2, <2>3, <2>4, <2>5
<1> QED BY <1>1, <1>2, RetStep, Invariance, PTL DEF Spec

(* The has_vad and force_start of that step are those at the beginning of the *)
(* call, whatever happened in between.                                        *)
THEOREM CallBeginsWithBefore == Spec => [][BeforeIsKept]_vars
<1>1. ASSUME Inv, RetInv, Next PROVE BeforeIsKept
  <2>0. has_vad \in BOOLEAN
    BY <1>1, StateTypes
  <2>1. ASSUME NEW n \in 1..MaxInput, NEW word \in BOOLEAN, NEW wake \in BOOLEAN,
               Call(n, word, wake)
        PROVE  Before' = (has_vad /\ ~word) /\ awake' = wake
    BY <2>0, <2>1 DEF Call, vad_reset, Before
  <2>2. ASSUME Frame
        PROVE  Before' = Before /\ awake' = awake
               /\ (~has_vad /\ ret' = {} => segment' = segment)
    <3>1. /\ awake' = awake /\ (~has_vad => ret = {}) /\ "off" \notin ret
      BY <1>1, <2>2 DEF Frame, Inv, CallInv, RetInv
    <3>2. CASE FrameBegins
      BY <2>0, <3>1, <3>2 DEF FrameBegins, Before
    <3>3. CASE FrameSilent \/ FrameContinues
      BY <2>0, <3>1, <3>3 DEF FrameSilent, FrameContinues, Before
    <3>4. CASE FrameCloses
      BY <2>0, <3>1, <3>4 DEF FrameCloses, Before
    <3> QED BY <1>1, <2>2, <3>2, <3>3, <3>4, FrameOutcome
  <2> QED BY <2>1, <2>2 DEF BeforeIsKept
<1>2. Init => RetInv
  BY DEF Init, RetInv
<1> QED BY <1>1, <1>2, RetStep, Invariance, PTL DEF Spec

-----------------------------------------------------------------------------
(* Why every segment ends: what a segment may still grow. *)
Room == MaxSpeech - last_frame

(* Each pass of the loop during a segment ends it or takes from its room,     *)
(* which is never negative, and the next call finds the room as it was left   *)
(* unless a detected word has dropped the segment.  A call is a bounded       *)
(* number of passes, one for each frame it was given.                         *)
SegmentShrinks ==
    /\ has_vad => Room \in Nat
    /\ has_vad /\ has_vad' => Room' = (IF pc = "loop" THEN Room - 1 ELSE Room)
    /\ pc = "loop" => /\ vad_input > 0 /\ vad_input' = vad_input - 1
                      /\ pc' = "loop" => vad_input' > 0

(* The end of every segment is at most MaxSpeech + 1 frames away, even while  *)
(* set_vad_frame_num puts the end of speech off.                              *)
THEOREM SegmentsShrink == Spec => [][SegmentShrinks]_vars
<1>1. ASSUME Inv, Next, vars' # vars PROVE SegmentShrinks
  <2>0. last_frame \in Nat /\ vad_input \in Nat /\ Cur(vd) \in Nat /\ MaxSpeech \in Nat
    BY <1>1, StateTypes, Constants
  <2>1. has_vad => last_frame = Cur(vd) /\ Cur(vd) <= MaxSpeech
    BY <1>1 DEF Inv, SegmentInv, Open
  <2>2. has_vad => Room \in Nat
    BY <2>0, <2>1 DEF Room
  <2>3. CASE Frame
    <3>1. pc = "loop" /\ vad_input' = vad_input - 1 /\ vad_input >= 1
      BY <1>1, <2>3 DEF Frame, Inv, CallInv
    <3>2. pc' = "loop" => vad_input # 1
      BY <1>1, <2>3, FrameOutcome DEF FrameBegins, FrameSilent, FrameContinues,
         FrameCloses, Loops
    <3>3. pc' = "loop" => vad_input' > 0
      BY <2>0, <3>1, <3>2
    <3>4. ASSUME has_vad, has_vad' PROVE Room' = Room - 1
      <4>1. FrameContinues
        BY <1>1, <2>3, <3>4, FrameOutcome DEF FrameBegins, FrameSilent, FrameCloses
      <4>2. last_frame' = last_frame + 1
        BY <2>1, <3>4, <4>1 DEF FrameContinues
      <4> QED BY <2>0, <4>2 DEF Room
    <3> QED BY <2>0, <2>2, <3>1, <3>3, <3>4 DEF SegmentShrinks
  <2>4. ASSUME NEW n \in 1..MaxInput, NEW word \in BOOLEAN, NEW wake \in BOOLEAN,
               Call(n, word, wake)
        PROVE  SegmentShrinks
    <3>1. pc = "idle" /\ (has_vad' => last_frame' = last_frame)
      BY <2>4 DEF Call, vad_reset
    <3> QED BY <2>2, <3>1 DEF SegmentShrinks, Room
  <2>5. ASSUME NEW n \in {ShortSil, LongSil}, SetVadFrameNum(n)
        PROVE  SegmentShrinks
    BY <2>2, <2>5 DEF SetVadFrameNum, SegmentShrinks, Room
  <2> QED BY <1>1, <2>3, <2>4, <2>5 DEF Next
<1>2. Inv /\ [Next]_vars => [SegmentShrinks]_vars
  BY <1>1
<1> QED BY <1>2, Invariance, PTL DEF Spec
=============================================================================
