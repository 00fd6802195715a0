----------------------- MODULE Ft9201Matching_proofs -----------------------
(***************************************************************************)
(* Theorems about the decisions of the driver, for every score of a pair   *)
(* of frames, every size of the sensor, every text of the environment and  *)
(* whatever prints the client has.                                         *)
(***************************************************************************)
EXTENDS Ft9201Matching, LoopTheorems, SequenceTheorems

WellTyped == [isFormat : BOOLEAN, w : Nat, h : Nat, blob : Seq(Pixel)]

FrameOf(size) == [1..size -> Pixel]

-----------------------------------------------------------------------------
(* Byte k of frame i stands at (i - 1) * size + k of a blob of whole       *)
(* frames.                                                                 *)
LEMMA Places ==
  ASSUME NEW size \in Nat \ {0}, NEW n \in Nat, NEW i \in 1..n, NEW k \in 1..size
  PROVE  /\ (i - 1) * size \in Nat /\ i * size = (i - 1) * size + size
         /\ n * size \in Nat /\ (n * size) \div size = n /\ (n * size) % size = 0
         /\ (i - 1) * size + k \in 1..(n * size)
  <1>1. (i - 1) * size \in Nat /\ i * size = (i - 1) * size + size
    OBVIOUS
  <1>2. i * size <= n * size /\ n * size \in Nat
    OBVIOUS
  <1>3. (n * size) \div size = n /\ (n * size) % size = 0
    OBVIOUS
  <1> QED BY <1>1, <1>2, <1>3

LEMMA Joined ==
  ASSUME NEW S, NEW a \in Seq(S), NEW b \in Seq(S)
  PROVE  /\ a \o b \in Seq(S) /\ Len(a \o b) = Len(a) + Len(b)
         /\ \A j \in 1..Len(a) : (a \o b)[j] = a[j]
         /\ \A k \in 1..Len(b) : (a \o b)[Len(a) + k] = b[k]
  OBVIOUS

(* The loop of ft9201_template_pack puts frame i at its place. *)
LEMMA PackedFrames ==
  ASSUME NEW w \in Nat \ {0}, NEW h \in Nat \ {0}, NEW n \in Nat,
         NEW frames \in [1..n -> FrameOf(w * h)]
  PROVE  LET blob == ft9201_template_pack(frames, w, h).blob
         IN  /\ blob \in Seq(Pixel)
             /\ Len(blob) = n * (w * h)
             /\ \A i \in 1..n, k \in 1..(w * h) :
                  blob[(i - 1) * (w * h) + k] = frames[i][k]
  <1> DEFINE size == w * h
             Blob(f, m) == IF m = 0 THEN <<>>
                           ELSE IF Len(frames[m]) = size THEN f[m - 1] \o frames[m]
                           ELSE f[m - 1]
             Is(f) == f = [m \in 0..Len(frames) |-> Blob(f, m)]
             blob == CHOOSE f : Is(f)
  <1>1. size \in Nat \ {0}
    OBVIOUS
  <1>2. frames \in Seq(FrameOf(size)) /\ Len(frames) = n
    OBVIOUS
  <1>3. \A m \in 1..n : frames[m] \in Seq(Pixel) /\ Len(frames[m]) = size
    BY <1>1 DEF FrameOf
  <1> HIDE DEF size
  <1>4. \E f : Is(f) /\ f \in [0..n -> Seq(Pixel)]
    <2> DEFINE step == [p \in (1..n) \X Seq(Pixel) |-> p[2] \o frames[p[1]]]
    <2>1. step \in [(1..n) \X Seq(Pixel) -> Seq(Pixel)]
      BY <1>3
    <2>2. PICK f \in [0..n -> Seq(Pixel)] :
            f[0] = <<>> /\ \A m \in 1..n : f[m] = step[<<m, f[m - 1]>>]
      <3> DEFINE empty == <<>>
                 Blobs == Seq(Pixel)
      <3>1. empty \in Blobs /\ step \in [(1..n) \X Blobs -> Blobs]
        BY <2>1
      <3> HIDE DEF step, empty, Blobs
      <3>2. \E f : IsLoop(f, n, Blobs, empty, step)
        BY <3>1, LoopExists
      <3> QED BY <3>2 DEF IsLoop, empty, Blobs
    <2>3. ASSUME NEW m \in 1..n PROVE f[m] = f[m - 1] \o frames[m]
      <3>1. f[m - 1] \in Seq(Pixel) /\ f[m] = step[<<m, f[m - 1]>>]
        <4> HIDE DEF step
        <4> QED BY <2>2
      <3> QED BY <3>1
    <2>4. ASSUME NEW m \in 0..n PROVE f[m] = Blob(f, m)
      <3>1. CASE m = 0
        BY <3>1, <2>2, Zenon
      <3>2. CASE m # 0
        <4>1. m \in 1..n
          BY <3>2
        <4> QED BY <4>1, <3>2, <2>3, <1>3, Zenon
      <3> QED BY <3>1, <3>2
    <2>5. f = [m \in 0..Len(frames) |-> Blob(f, m)]
      <3> HIDE DEF Blob
      <3> QED BY <2>4, <1>2
    <2> QED BY <2>5, Zenon
  <1>5. Is(blob)
    BY <1>4
  <1>6. ft9201_template_pack(frames, w, h).blob = blob[n]
    BY <1>2 DEF ft9201_template_pack, StoredPrint, size
  <1> DEFINE Packed(m) ==
        /\ blob[m] \in Seq(Pixel)
        /\ Len(blob[m]) = m * size
        /\ \A i \in 1..m, k \in 1..size : blob[m][(i - 1) * size + k] = frames[i][k]
  <1> HIDE DEF blob
  <1>7. blob[0] = <<>> /\ \A m \in 1..n : blob[m] = blob[m - 1] \o frames[m]
    <2>1. ASSUME NEW m \in 0..n PROVE blob[m] = Blob(blob, m)
      <3> HIDE DEF Blob
      <3> QED BY <1>5, <1>2
    <2>2. blob[0] = <<>>
      <3>1. blob[0] = Blob(blob, 0)
        BY <2>1
      <3> QED BY <3>1, Zenon
    <2>3. ASSUME NEW m \in 1..n PROVE blob[m] = blob[m - 1] \o frames[m]
      <3>1. m \in 0..n /\ m # 0
        OBVIOUS
      <3> QED BY <3>1, <2>1, <1>3, Zenon
    <2> QED BY <2>2, <2>3
  <1>8. 0..n \subseteq {m \in 0..n : Packed(m)}
    <2> DEFINE T == {m \in 0..n : Packed(m)}
    <2>1. 0 \in T
      <3>1. blob[0] \in Seq(Pixel) /\ Len(blob[0]) = 0
        BY <1>7
      <3>2. 0 * size = 0
        BY <1>1
      <3> QED BY <3>1, <3>2
    <2>2. ASSUME NEW m \in 1..n, m - 1 \in T PROVE m \in T
      <3>1. Packed(m - 1)
        BY <2>2
      <3>2. blob[m - 1] \in Seq(Pixel) /\ Len(blob[m - 1]) = (m - 1) * size
        BY <3>1
      <3>3. frames[m] \in Seq(Pixel) /\ Len(frames[m]) = size
        BY <1>3
      <3> DEFINE a == blob[m - 1]
                 b == frames[m]
      <3>4. blob[m] = a \o b
        BY <1>7
      <3>5. \A i \in 1..(m - 1), k \in 1..size : a[(i - 1) * size + k] = frames[i][k]
        BY <3>1
      <3> HIDE DEF a, b, Packed
      <3>6. /\ blob[m] \in Seq(Pixel) /\ Len(blob[m]) = Len(a) + Len(b)
            /\ \A j \in 1..Len(a) : blob[m][j] = a[j]
            /\ \A k \in 1..Len(b) : blob[m][Len(a) + k] = b[k]
        <4>1. a \in Seq(Pixel) /\ b \in Seq(Pixel)
          BY <3>2, <3>3 DEF a, b
        <4> QED BY <4>1, <3>4, Joined
      <3>7. /\ Len(a) = (m - 1) * size /\ Len(b) = size
            /\ m * size = (m - 1) * size + size /\ (m - 1) * size \in Nat
        BY <3>2, <3>3, <1>1 DEF a, b
      <3>8. ASSUME NEW i \in 1..m, NEW k \in 1..size
            PROVE  blob[m][(i - 1) * size + k] = frames[i][k]
        <4>1. CASE i = m
          BY <4>1, <3>6, <3>7 DEF b
        <4>2. CASE i # m
          <5>1. i \in 1..(m - 1) /\ m - 1 \in Nat
            BY <4>2
          <5>2. (i - 1) * size + k \in 1..((m - 1) * size)
            BY <5>1, <1>1, Places
          <5>3. blob[m][(i - 1) * size + k] = a[(i - 1) * size + k]
            BY <5>2, <3>6, <3>7
          <5> QED BY <5>1, <5>3, <3>5
        <4> QED BY <4>1, <4>2
      <3>9. Packed(m)
        BY <3>6, <3>7, <3>8 DEF Packed
      <3> QED BY <3>9
    <2> HIDE DEF T
    <2>3. 0..n \subseteq T
      BY <2>1, <2>2, Induction
    <2> QED BY <2>3 DEF T
  <1>9. Packed(n)
    BY <1>8
  <1> QED BY <1>6, <1>9 DEF size

-----------------------------------------------------------------------------
LEMMA Slice ==
  ASSUME NEW S, NEW s \in Seq(S), NEW a \in Nat, NEW size \in Nat \ {0},
         a + size <= Len(s)
  PROVE  /\ SubSeq(s, a + 1, a + size) = [k \in 1..size |-> s[a + k]]
         /\ SubSeq(s, a + 1, a + size) \in [1..size -> S]
  <1>1. a + 1 \in 1..Len(s) /\ a + size \in 1..Len(s)
    OBVIOUS
  <1>2. /\ SubSeq(s, a + 1, a + size) \in Seq(S)
        /\ Len(SubSeq(s, a + 1, a + size)) = size
        /\ \A k \in 1..size : SubSeq(s, a + 1, a + size)[k] = s[a + k]
    BY <1>1
  <1> DEFINE t == SubSeq(s, a + 1, a + size)
  <1> HIDE DEF t
  <1>3. t \in Seq(S) /\ Len(t) = size /\ \A k \in 1..size : t[k] = s[a + k]
    BY <1>2 DEF t
  <1>4. t \in [1..size -> S]
    BY <1>3, LenProperties
  <1>5. t = [k \in 1..size |-> s[a + k]]
    BY <1>3, <1>4
  <1> QED BY <1>4, <1>5 DEF t

LEMMA WholeFrames ==
  ASSUME NEW len \in Nat \ {0}, NEW size \in Nat \ {0}, len % size = 0
  PROVE  len \div size \in Nat \ {0} /\ (len \div size) * size = len
  <1>1. len \div size \in Nat /\ len = size * (len \div size) + (len % size)
    OBVIOUS
  <1> QED BY <1>1

(* The frames that ft9201_template_unpack finds are those of FrameAt. *)
LEMMA UnpackedFrames ==
  ASSUME NEW print \in WellTyped, WellFormed(print)
  PROVE  LET frames == ft9201_template_unpack(print)
             n == FrameCount(print)
         IN  /\ n \in Nat \ {0}
             /\ n * print.w * print.h = Len(print.blob)
             /\ frames \in [1..n -> FrameOf(print.w * print.h)]
             /\ \A i \in 1..n : frames[i] = FrameAt(print, i)
  <1> DEFINE size == print.w * print.h
             n == Len(print.blob) \div size
  <1>1. /\ print.w \in Nat \ {0} /\ print.h \in Nat \ {0}
        /\ print.blob \in Seq(Pixel) /\ Len(print.blob) \in Nat \ {0}
    BY DEF WellTyped, WellFormed
  <1>2. size \in Nat \ {0}
    BY <1>1
  <1>3. FrameCount(print) = n
    BY <1>2 DEF FrameCount
  <1>4. Len(print.blob) % size = 0
    BY DEF WellFormed
  <1>5. ft9201_template_unpack(print) =
          [i \in 1..n |-> SubSeq(print.blob, (i - 1) * size + 1, i * size)]
    BY DEF ft9201_template_unpack
  <1>6. n * print.w * print.h = n * size
    <2>1. n \in Int
      BY <1>1, <1>2
    <2> QED BY <1>1, <2>1
  <1>7. \A i \in Nat \ {0} : (i - 1) * print.w * print.h = (i - 1) * size
    BY <1>1
  <1> DEFINE blob == print.blob
  <1> HIDE DEF size
  <1>8. n \in Nat \ {0} /\ n * size = Len(blob)
    <2> DEFINE len == Len(print.blob)
    <2> HIDE DEF len
    <2>1. len \in Nat \ {0} /\ len % size = 0
      BY <1>1, <1>4 DEF len
    <2>2. len \div size \in Nat \ {0} /\ (len \div size) * size = len
      BY <2>1, <1>2, WholeFrames
    <2> QED BY <2>2 DEF len
  <1>9. ASSUME NEW i \in 1..n
        PROVE  /\ SubSeq(blob, (i - 1) * size + 1, i * size) \in FrameOf(size)
               /\ SubSeq(blob, (i - 1) * size + 1, i * size) = FrameAt(print, i)
    <2>1. /\ (i - 1) * size \in Nat /\ i * size = (i - 1) * size + size
          /\ i * size <= Len(blob)
      <3> HIDE DEF n
      <3> QED BY <1>2, <1>8
    <2> DEFINE a == (i - 1) * size
    <2>2. FrameAt(print, i) = [k \in 1..size |-> blob[a + k]]
      BY <1>7 DEF FrameAt, size
    <2> HIDE DEF a, n, blob
    <2>3. SubSeq(blob, a + 1, a + size) = [k \in 1..size |-> blob[a + k]]
          /\ SubSeq(blob, a + 1, a + size) \in [1..size -> Pixel]
      <3>1. blob \in Seq(Pixel) /\ a \in Nat /\ a + size <= Len(blob)
        BY <1>1, <2>1 DEF a, blob
      <3> QED BY <3>1, <1>2, Slice
    <2> QED BY <2>1, <2>2, <2>3 DEF a, FrameOf
  <1> HIDE DEF n
  <1> QED BY <1>3, <1>5, <1>6, <1>8, <1>9 DEF size

(* What is packed is unpacked again: the same frames in the same order. *)
LEMMA RoundTrip ==
  ASSUME NEW w \in Nat \ {0}, NEW h \in Nat \ {0}, NEW n \in Nat \ {0},
         NEW frames \in [1..n -> FrameOf(w * h)]
  PROVE  /\ ft9201_template_pack(frames, w, h) \in WellTyped
         /\ ft9201_template_unpack(ft9201_template_pack(frames, w, h)) = frames
  <1> DEFINE print == ft9201_template_pack(frames, w, h)
             size == w * h
             back == ft9201_template_unpack(print)
  <1>1. print.isFormat = TRUE /\ print.w = w /\ print.h = h
    BY DEF ft9201_template_pack, StoredPrint
  <1>2. size \in Nat \ {0}
    OBVIOUS
  <1>3. /\ print.blob \in Seq(Pixel) /\ Len(print.blob) = n * size
        /\ \A i \in 1..n, k \in 1..size :
             print.blob[(i - 1) * size + k] = frames[i][k]
    <2>1. n \in Nat
      OBVIOUS
    <2> QED BY <2>1, PackedFrames
  <1>4. print = [isFormat |-> TRUE, w |-> w, h |-> h, blob |-> print.blob]
    BY DEF ft9201_template_pack, StoredPrint
  <1>5. print \in WellTyped
    <2>1. w \in Nat /\ h \in Nat /\ TRUE \in BOOLEAN
      OBVIOUS
    <2> DEFINE blob == print.blob
    <2>2. print = [isFormat |-> TRUE, w |-> w, h |-> h, blob |-> blob]
          /\ blob \in Seq(Pixel)
      BY <1>3, <1>4, Zenon
    <2> HIDE DEF print, blob
    <2>3. [isFormat |-> TRUE, w |-> w, h |-> h, blob |-> blob] \in WellTyped
      BY <2>1, <2>2, SMT DEF WellTyped
    <2> QED BY <2>2, <2>3, Zenon
  <1> HIDE DEF print, size, back
  <1>6. /\ n * size \in Nat \ {0}
        /\ (n * size) \div size = n /\ (n * size) % size = 0
    BY <1>2
  <1>7. WellFormed(print)
    BY <1>1, <1>3, <1>6 DEF WellFormed, size
  <1>8. FrameCount(print) = n
    BY <1>1, <1>2, <1>3, <1>6 DEF FrameCount, size
  <1>9. /\ back \in [1..n -> FrameOf(size)]
        /\ \A i \in 1..n : back[i] = FrameAt(print, i)
    BY <1>1, <1>5, <1>7, <1>8, UnpackedFrames DEF back, size
  <1>10. ASSUME NEW i \in 1..n PROVE FrameAt(print, i) = frames[i]
    <2>1. (i - 1) * w * h = (i - 1) * size
      BY DEF size
    <2>2. FrameAt(print, i) = [k \in 1..size |-> print.blob[(i - 1) * size + k]]
      BY <1>1, <2>1 DEF FrameAt, size
    <2>3. FrameAt(print, i) = [k \in 1..size |-> frames[i][k]]
      BY <2>2, <1>3
    <2>4. frames[i] \in FrameOf(size)
      BY DEF size
    <2> QED BY <2>3, <2>4 DEF FrameOf
  <1>11. back = frames
    BY <1>9, <1>10 DEF size
  <1> QED BY <1>5, <1>11 DEF print, back

-----------------------------------------------------------------------------
(* The score of a template.                                                *)

(* What the accumulators say of the scores of the first n frames: which of *)
(* them reach t, and that each accumulator holds the score of a frame.     *)
Best(score, best, n) ==
  /\ best.scored = n
  /\ best.first \in Int /\ best.second \in Int
  /\ -1 <= best.second /\ best.second <= best.first
  /\ \A t \in Nat : t <= best.first <=> \E i \in 1..n : score[i] >= t
  /\ \A t \in Nat : t <= best.second <=>
       \E i, j \in 1..n : i < j /\ score[i] >= t /\ score[j] >= t
  /\ best.first # -1 => \E i \in 1..n : score[i] = best.first
  /\ best.second # -1 => \E i \in 1..n : score[i] = best.second

Accumulators == [first : Int, second : Int, scored : Nat]

LEMMA ScoreFrameType ==
  ASSUME NEW best \in Accumulators, NEW s \in Nat
  PROVE  ScoreFrame(best, s) \in Accumulators
  BY DEF ScoreFrame, Accumulators

LEMMA ScoreFrameKeepsBest ==
  ASSUME NEW n \in Nat \ {0}, NEW score \in [1..n -> Nat],
         NEW best \in Accumulators, Best(score, best, n - 1)
  PROVE  Best(score, ScoreFrame(best, score[n]), n)
  <1> DEFINE s == score[n]
             new == ScoreFrame(best, s)
  <1>1. s \in Nat /\ best.first \in Int /\ best.second \in Int
        /\ best.scored = n - 1 /\ -1 <= best.second /\ best.second <= best.first
    BY DEF Best
  <1>2. \A i \in 1..n : i \in 1..(n - 1) \/ i = n
    OBVIOUS
  <1>3. 1..(n - 1) \subseteq 1..n /\ n \in 1..n
        /\ \A i \in 1..(n - 1) : score[i] \in Nat /\ i < n
    OBVIOUS
  <1>4. /\ new.scored = n
        /\ s > best.first => new.first = s /\ new.second = best.first
        /\ s <= best.first => /\ new.first = best.first
                              /\ s > best.second => new.second = s
                              /\ s <= best.second => new.second = best.second
    BY <1>1 DEF ScoreFrame
  <1>5. /\ new.first \in Int /\ new.second \in Int
        /\ -1 <= new.second /\ new.second <= new.first
    BY <1>1, <1>4
  <1>6. ASSUME NEW t \in Nat
        PROVE  t <= new.first <=> \E i \in 1..n : score[i] >= t
    <2>1. t <= best.first <=> \E i \in 1..(n - 1) : score[i] >= t
      BY DEF Best
    <2>2. t <= new.first <=> t <= best.first \/ t <= s
      BY <1>1, <1>4
    <2> HIDE DEF new
    <2> QED BY <2>1, <2>2, <1>2, <1>3
  <1>7. ASSUME NEW t \in Nat
        PROVE  t <= new.second <=>
                 \E i, j \in 1..n : i < j /\ score[i] >= t /\ score[j] >= t
    <2>1. /\ t <= best.first <=> \E i \in 1..(n - 1) : score[i] >= t
          /\ t <= best.second <=>
               \E i, j \in 1..(n - 1) : i < j /\ score[i] >= t /\ score[j] >= t
      BY DEF Best
    <2>2. t <= new.second <=> t <= best.second \/ (t <= best.first /\ t <= s)
      BY <1>1, <1>4
    <2> HIDE DEF new
    <2> QED BY <2>1, <2>2, <1>2, <1>3
  <1>8. /\ best.first # -1 => \E i \in 1..(n - 1) : score[i] = best.first
        /\ best.second # -1 => \E i \in 1..(n - 1) : score[i] = best.second
    BY DEF Best
  <1>9. /\ new.first # -1 => \E i \in 1..n : score[i] = new.first
        /\ new.second # -1 => \E i \in 1..n : score[i] = new.second
    <2> HIDE DEF new
    <2> QED BY <1>1, <1>3, <1>4, <1>8
  <1> HIDE DEF new
  <1>10. Best(score, new, n)
    BY <1>4, <1>5, <1>6, <1>7, <1>9 DEF Best
  <1> QED BY <1>10 DEF new

(* The loop of ft9201_match_template over frames of the right size. *)
LEMMA BestScoresOfFrames ==
  ASSUME NEW size \in Nat, NEW n \in Nat \ {0}, NEW probe,
         NEW frames \in [1..n -> FrameOf(size)],
         \A i \in 1..n : ft9201_match_pair(frames[i], probe) \in Nat
  PROVE  Best([i \in 1..n |-> ft9201_match_pair(frames[i], probe)],
              BestScores(frames, probe, size), n)
  <1> DEFINE score == [i \in 1..n |-> ft9201_match_pair(frames[i], probe)]
             none == [first |-> -1, second |-> -1, scored |-> 0]
             Round(f, m) == IF m = 0 THEN none
                            ELSE IF Len(frames[m]) # size THEN f[m - 1]
                            ELSE ScoreFrame(f[m - 1], ft9201_match_pair(frames[m], probe))
             Is(f) == f = [m \in 0..Len(frames) |-> Round(f, m)]
             best == CHOOSE f : Is(f)
  <1>1. Len(frames) = n
    OBVIOUS
  <1>2. score \in [1..n -> Nat]
    OBVIOUS
  <1>3. \A m \in 1..n : Len(frames[m]) = size /\ score[m] = ft9201_match_pair(frames[m], probe)
    BY DEF FrameOf
  <1>4. none \in Accumulators
    BY DEF Accumulators
  <1>5. BestScores(frames, probe, size) = best[n]
    BY <1>1 DEF BestScores
  <1> HIDE DEF none, score
  <1>6. \E f : Is(f)
    <2> DEFINE step == [p \in (1..n) \X Accumulators |-> ScoreFrame(p[2], score[p[1]])]
    <2>1. step \in [(1..n) \X Accumulators -> Accumulators]
      BY <1>2, ScoreFrameType
    <2>2. PICK f : IsLoop(f, n, Accumulators, none, step)
      <3> HIDE DEF step
      <3> QED BY <2>1, <1>4, LoopExists
    <2>3. ASSUME NEW m \in 1..n PROVE f[m] = ScoreFrame(f[m - 1], score[m])
      <3>1. f[m - 1] \in Accumulators /\ f[m] = step[<<m, f[m - 1]>>]
        <4> HIDE DEF step
        <4> QED BY <2>2 DEF IsLoop
      <3> QED BY <3>1
    <2>4. ASSUME NEW m \in 0..n PROVE f[m] = Round(f, m)
      <3>1. CASE m = 0
        BY <3>1, <2>2, Zenon DEF IsLoop
      <3>2. CASE m # 0
        <4>1. m \in 1..n
          BY <3>2
        <4> QED BY <4>1, <3>2, <2>3, <1>3, Zenon
      <3> QED BY <3>1, <3>2
    <2>5. f = [m \in 0..Len(frames) |-> Round(f, m)]
      <3> HIDE DEF Round
      <3> QED BY <2>2, <2>4, <1>1 DEF IsLoop
    <2> QED BY <2>5, Zenon
  <1>7. Is(best)
    BY <1>6
  <1> HIDE DEF best
  <1>8. best[0] = none /\ \A m \in 1..n : best[m] = ScoreFrame(best[m - 1], score[m])
    <2>1. ASSUME NEW m \in 0..n PROVE best[m] = Round(best, m)
      <3> HIDE DEF Round
      <3> QED BY <1>7, <1>1
    <2>2. best[0] = none
      <3>1. best[0] = Round(best, 0)
        BY <2>1
      <3> QED BY <3>1, Zenon
    <2>3. ASSUME NEW m \in 1..n PROVE best[m] = ScoreFrame(best[m - 1], score[m])
      <3>1. m \in 0..n /\ m # 0
        OBVIOUS
      <3> QED BY <3>1, <2>1, <1>3, Zenon
    <2> QED BY <2>2, <2>3
  <1>9. \A m \in 0..n : best[m] \in Accumulators /\ Best(score, best[m], m)
    <2> DEFINE T == {m \in 0..n : best[m] \in Accumulators /\ Best(score, best[m], m)}
    <2>1. 0 \in T
      <3>1. none.first = -1 /\ none.second = -1 /\ none.scored = 0
        BY DEF none
      <3>2. \A i \in 1..0 : FALSE
        OBVIOUS
      <3>3. \A t \in Nat : ~(t <= none.first) /\ ~(t <= none.second)
        BY <3>1
      <3> HIDE DEF none
      <3>4. Best(score, none, 0)
        BY <3>1, <3>2, <3>3 DEF Best
      <3> QED BY <3>4, <1>4, <1>8
    <2>2. ASSUME NEW m \in 1..n, m - 1 \in T PROVE m \in T
      <3>1. best[m - 1] \in Accumulators /\ Best(score, best[m - 1], m - 1)
        BY <2>2
      <3> DEFINE part == [i \in 1..m |-> score[i]]
                 old == best[m - 1]
      <3>2. part \in [1..m -> Nat] /\ part[m] = score[m] /\ score[m] \in Nat
        BY <1>2
      <3>3. Best(part, old, m - 1)
        <4>1. \A i \in 1..(m - 1) : part[i] = score[i]
          OBVIOUS
        <4>2. Best(score, old, m - 1)
          BY <3>1
        <4> HIDE DEF part, old
        <4> QED BY <4>1, <4>2 DEF Best
      <3>4. old \in Accumulators /\ best[m] = ScoreFrame(old, score[m])
        BY <3>1, <1>8
      <3> HIDE DEF part, old
      <3>5. best[m] \in Accumulators
        BY <3>2, <3>4, ScoreFrameType
      <3>6. Best(part, best[m], m)
        <4>1. m \in Nat \ {0} /\ best[m] = ScoreFrame(old, part[m])
          BY <3>2, <3>4
        <4>2. Best(part, ScoreFrame(old, part[m]), m)
          BY <4>1, <3>2, <3>3, <3>4, ScoreFrameKeepsBest
        <4> QED BY <4>1, <4>2
      <3>7. Best(score, best[m], m)
        <4>1. \A i \in 1..m : part[i] = score[i]
          BY DEF part
        <4> QED BY <3>6, <4>1 DEF Best
      <3> QED BY <3>5, <3>7
    <2> HIDE DEF T
    <2>3. 0..n \subseteq T
      BY <2>1, <2>2, Induction
    <2> QED BY <2>3 DEF T
  <1>10. Best(score, best[n], n)
    BY <1>9
  <1> QED BY <1>5, <1>10 DEF score

LEMMA AtLeastTwo ==
  ASSUME NEW n \in Nat, NEW S \in SUBSET (1..n)
  PROVE  /\ Cardinality(S) >= 1 <=> S # {}
         /\ Cardinality(S) >= 2 <=> \E i, j \in S : i < j
  <1> DEFINE c == Cardinality(S)
  <1>1. IsFiniteSet(S)
    <2>1. IsFiniteSet(1..n)
      BY FS_Interval
    <2> QED BY <2>1, FS_Subset
  <1>2. c \in Nat
    BY <1>1, FS_CardinalityType
  <1>3. c = 0 <=> S = {}
    BY <1>1, FS_EmptySet
  <1>4. c = 1 <=> \E x : S = {x}
    BY <1>1, FS_Singleton
  <1> HIDE DEF c
  <1>5. c >= 1 <=> S # {}
    <2>1. c >= 1 <=> c # 0
      BY <1>2
    <2> QED BY <2>1, <1>3, Zenon
  <1>6. c >= 2 <=> c # 0 /\ c # 1
    BY <1>2
  <1>7. S # {} /\ ~(\E x : S = {x}) <=> \E i, j \in S : i < j
    <2>1. \A i, j \in S : i # j => i < j \/ j < i
      OBVIOUS
    <2>2. ASSUME S # {}, ~(\E x : S = {x}) PROVE \E i, j \in S : i # j
      <3>1. PICK i \in S : TRUE
        BY <2>2
      <3>2. S # {i}
        BY <2>2, Zenon
      <3> QED BY <3>1, <3>2
    <2>3. ASSUME NEW i \in S, NEW j \in S, i < j PROVE S # {} /\ ~(\E x : S = {x})
      BY <2>3
    <2> QED BY <2>1, <2>2, <2>3
  <1>8. c >= 2 <=> \E i, j \in S : i < j
    BY <1>3, <1>4, <1>6, <1>7, Zenon
  <1> QED BY <1>5, <1>8 DEF c

(* Two of the n frames, or the only one, reach the score t. *)
EnoughReach(frames, n, probe, t) ==
  Cardinality({i \in 1..n : ft9201_match_pair(frames[i], probe) >= t})
    >= IF n = 1 THEN 1 ELSE 2

IsTemplateScore(r, frames, n, probe) ==
  /\ r \in Nat
  /\ \A t \in Nat : r >= t <=> EnoughReach(frames, n, probe, t)
  /\ \E i \in 1..n : ft9201_match_pair(frames[i], probe) = r

(* The score of a template is the second best of its frames, or the only   *)
(* one: so many frames reach t as the score needs to.                      *)
LEMMA TemplateScore ==
  ASSUME NEW w \in Nat \ {0}, NEW h \in Nat \ {0}, NEW n \in Nat \ {0}, NEW probe,
         NEW frames \in [1..n -> FrameOf(w * h)],
         \A i \in 1..n : ft9201_match_pair(frames[i], probe) \in Nat
  PROVE  IsTemplateScore(ft9201_match_template(frames, probe, w, h), frames, n, probe)
  <1> DEFINE score == [i \in 1..n |-> ft9201_match_pair(frames[i], probe)]
             best == BestScores(frames, probe, w * h)
             r == ft9201_match_template(frames, probe, w, h)
  <1>1. Best(score, best, n)
    <2>1. w * h \in Nat
      OBVIOUS
    <2> QED BY <2>1, BestScoresOfFrames
  <1>2. /\ best.scored = n /\ n # 0
        /\ n = 1 => r = best.first
        /\ n # 1 => r = best.second
    <2>1. best.scored = n
      BY <1>1 DEF Best
    <2> HIDE DEF best
    <2> QED BY <2>1 DEF ft9201_match_template, best
  <1>3. \A i \in 1..n : score[i] = ft9201_match_pair(frames[i], probe) /\ score[i] \in Nat
    OBVIOUS
  <1>4. \A t \in Nat : {i \in 1..n : ft9201_match_pair(frames[i], probe) >= t}
                         = {i \in 1..n : score[i] >= t}
    BY <1>3
  <1> HIDE DEF score, best, r
  <1>5. \A t \in Nat : /\ t <= best.first <=> \E i \in 1..n : score[i] >= t
                       /\ t <= best.second <=>
                            \E i, j \in 1..n : i < j /\ score[i] >= t /\ score[j] >= t
    BY <1>1 DEF Best
  <1>6. best.first \in Int /\ best.second \in Int
        /\ -1 <= best.second /\ best.second <= best.first
    BY <1>1 DEF Best
  <1>7. ASSUME NEW t \in Nat
        PROVE  r >= t <=> Cardinality({i \in 1..n : score[i] >= t})
                            >= IF n = 1 THEN 1 ELSE 2
    <2> DEFINE S == {i \in 1..n : score[i] >= t}
    <2>1. S \in SUBSET (1..n)
      OBVIOUS
    <2>2. /\ S # {} <=> \E i \in 1..n : score[i] >= t
          /\ (\E i, j \in S : i < j) <=>
               \E i, j \in 1..n : i < j /\ score[i] >= t /\ score[j] >= t
      OBVIOUS
    <2> HIDE DEF S
    <2>3. /\ Cardinality(S) >= 1 <=> S # {}
          /\ Cardinality(S) >= 2 <=> \E i, j \in S : i < j
      BY <2>1, AtLeastTwo
    <2>4. CASE n = 1
      BY <2>4, <2>2, <2>3, <1>2, <1>5, <1>6 DEF S
    <2>5. CASE n # 1
      BY <2>5, <2>2, <2>3, <1>2, <1>5, <1>6 DEF S
    <2> QED BY <2>4, <2>5
  <1>8. r \in Nat /\ r # -1
    <2>1. \A i \in 1..n : score[i] >= 0
      BY <1>3
    <2>2. CASE n = 1
      <3>1. 0 <= best.first
        BY <2>1, <2>2, <1>5
      <3> QED BY <3>1, <2>2, <1>2, <1>6
    <2>3. CASE n # 1
      <3>1. 1 \in 1..n /\ 2 \in 1..n
        BY <2>3
      <3>2. 0 <= best.second
        BY <2>1, <3>1, <1>5
      <3> QED BY <3>2, <2>3, <1>2, <1>6
    <2> QED BY <2>2, <2>3
  <1>9. \E i \in 1..n : score[i] = r
    BY <1>1, <1>2, <1>8 DEF Best
  <1>10. \E i \in 1..n : ft9201_match_pair(frames[i], probe) = r
    BY <1>9, <1>3
  <1>11. \A t \in Nat : r >= t <=> EnoughReach(frames, n, probe, t)
    BY <1>4, <1>7, Zenon DEF EnoughReach
  <1> QED BY <1>8, <1>10, <1>11, Zenon DEF r, IsTemplateScore

-----------------------------------------------------------------------------
(* The sensor has one of the sizes that it may report. *)
SensorSize == <<sensor_width, sensor_height>> \in Dimensions

LEMMA SensorSizes ==
  ASSUME SensorSize
  PROVE  sensor_width \in Nat \ {0} /\ sensor_height \in Nat \ {0}
  BY DimensionAssumption DEF SensorSize

(* What the code asks of a print is that it is whole and of this size. *)
LEMMA UsablePrints ==
  ASSUME NEW print \in WellTyped, SensorSize
  PROVE  /\ FitsSensor(print) <=> Usable(print)
         /\ Usable(print) => WellFormed(print)
  <1>1. sensor_width \in Nat \ {0} /\ sensor_height \in Nat \ {0}
    BY SensorSizes
  <1>2. /\ print.blob \in Seq(Pixel) /\ Len(print.blob) \in Nat
        /\ print.blob # <<>> <=> Len(print.blob) # 0
    <2>1. print.blob \in Seq(Pixel)
      BY DEF WellTyped
    <2> QED BY <2>1, EmptySeq, LenProperties
  <1>3. WellFormed(print) => ft9201_template_unpack(print) # <<>>
    <2> SUFFICES ASSUME WellFormed(print) PROVE ft9201_template_unpack(print) # <<>>
      OBVIOUS
    <2> DEFINE frames == ft9201_template_unpack(print)
               n == FrameCount(print)
    <2>1. n \in Nat \ {0} /\ frames \in [1..n -> FrameOf(print.w * print.h)]
      BY UnpackedFrames
    <2> HIDE DEF frames, n
    <2>2. DOMAIN frames # {}
      BY <2>1
    <2>3. DOMAIN <<>> = {}
      OBVIOUS
    <2>4. frames # <<>>
      BY <2>2, <2>3, Zenon
    <2> QED BY <2>4 DEF frames
  <1>4. ~WellFormed(print) => ft9201_template_unpack(print) = <<>>
    BY DEF ft9201_template_unpack
  <1>5. FitsSensor(print) <=>
          WellFormed(print) /\ print.w = sensor_width /\ print.h = sensor_height
    BY <1>3, <1>4, Zenon DEF FitsSensor
  <1>6. ASSUME print.w = sensor_width, print.h = sensor_height
        PROVE  WellFormed(print) <=> /\ print.isFormat /\ print.blob # <<>>
                 /\ FrameCount(print) * print.w * print.h = Len(print.blob)
    <2> DEFINE size == print.w * print.h
               len == Len(print.blob)
    <2>1. print.w \in Nat \ {0} /\ print.h \in Nat \ {0}
      BY <1>1, <1>6
    <2>2. size \in Nat \ {0} /\ len \in Nat
      BY <2>1, <1>2
    <2>3. FrameCount(print) = len \div size
      BY <2>2 DEF FrameCount
    <2>4. len \div size \in Int
      <3> HIDE DEF size, len
      <3> QED BY <2>2
    <2>5. FrameCount(print) * print.w * print.h = (len \div size) * size
      BY <2>1, <2>3, <2>4
    <2>6. len # 0 => (len % size = 0 <=> (len \div size) * size = len)
      <3> HIDE DEF size, len
      <3>1. len = size * (len \div size) + (len % size) /\ (len % size) \in Nat
        BY <2>2
      <3> DEFINE q == len \div size
                 m == len % size
      <3>2. q \in Int /\ m \in Nat /\ len = size * q + m
        BY <2>4, <3>1
      <3> HIDE DEF q, m
      <3>3. m = 0 <=> q * size = len
        BY <3>2, <2>2
      <3> QED BY <3>3 DEF q, m
    <2>7. WellFormed(print) <=> print.isFormat /\ len # 0 /\ len % size = 0
      BY <2>1, Zenon DEF WellFormed
    <2> HIDE DEF size, len
    <2>8. WellFormed(print) <=> print.isFormat /\ len # 0 /\ (len \div size) * size = len
      BY <2>6, <2>7, Zenon
    <2> QED BY <2>5, <2>8, <1>2 DEF len
  <1>7. Usable(print) <=>
          /\ print.isFormat /\ print.w = sensor_width /\ print.h = sensor_height
          /\ print.blob # <<>>
          /\ FrameCount(print) * print.w * print.h = Len(print.blob)
    BY DEF Usable
  <1> QED BY <1>5, <1>6, <1>7, Zenon

(* The score of a usable print reaches t exactly when two of its frames    *)
(* do, the only one if it has one, and is the score of one of them.        *)
LEMMA PrintScores ==
  ASSUME NEW print \in WellTyped, NEW probe \in Frame, SensorSize, Usable(print)
  PROVE  /\ PrintScore(print, probe) \in Nat
         /\ \A t \in Nat : PrintScore(print, probe) >= t <=> Agrees(print, probe, t)
         /\ \A k \in 1..FrameCount(print) :
              ft9201_match_pair(FrameAt(print, k), probe) \in Nat
         /\ \E k \in 1..FrameCount(print) :
              ft9201_match_pair(FrameAt(print, k), probe) = PrintScore(print, probe)
  <1> DEFINE w == print.w
             h == print.h
             n == FrameCount(print)
             frames == ft9201_template_unpack(print)
             r == ft9201_match_template(frames, probe, w, h)
  <1>1. w = sensor_width /\ h = sensor_height /\ <<w, h>> \in Dimensions
    BY DEF Usable, SensorSize
  <1>2. w \in Nat \ {0} /\ h \in Nat \ {0}
    BY <1>1, SensorSizes
  <1>3. WellFormed(print)
    BY UsablePrints
  <1>4. n \in Nat \ {0} /\ frames \in [1..n -> FrameOf(w * h)]
        /\ \A i \in 1..n : frames[i] = FrameAt(print, i)
    BY <1>3, UnpackedFrames
  <1>5. probe \in FrameOf(w * h)
    BY <1>1 DEF Frame, FrameOf
  <1>6. \A frame \in FrameOf(w * h) : ft9201_match_pair(frame, probe) \in Nat
    <2> DEFINE d == <<w, h>>
    <2>1. d \in Dimensions /\ d[1] = w /\ d[2] = h
      BY <1>1
    <2> HIDE DEF d, w, h
    <2>2. \A frame, q \in [1..(d[1] * d[2]) -> Pixel] : ft9201_match_pair(frame, q) \in Nat
      BY <2>1, ScoreAssumption
    <2> QED BY <2>1, <2>2, <1>5 DEF FrameOf
  <1> HIDE DEF w, h, n, frames, r
  <1>7. \A i \in 1..n : frames[i] \in FrameOf(w * h)
                        /\ ft9201_match_pair(frames[i], probe) \in Nat
    BY <1>4, <1>6
  <1>8. IsTemplateScore(r, frames, n, probe)
    BY <1>2, <1>4, <1>7, TemplateScore DEF r
  <1>9. PrintScore(print, probe) = r
    BY DEF PrintScore, r, frames, w, h
  <1>10. \A t \in Nat : {i \in 1..n : ft9201_match_pair(frames[i], probe) >= t}
                         = {i \in 1..n : ft9201_match_pair(FrameAt(print, i), probe) >= t}
    BY <1>4
  <1>11. \A t \in Nat : r >= t <=> Agrees(print, probe, t)
    <2> SUFFICES ASSUME NEW t \in Nat PROVE r >= t <=> Agrees(print, probe, t)
      OBVIOUS
    <2>1. Agrees(print, probe, t) <=> EnoughReach(frames, n, probe, t)
      BY <1>10, Zenon DEF Agrees, EnoughReach, n
    <2> QED BY <2>1, <1>8, Zenon DEF IsTemplateScore
  <1>12. \E k \in 1..n : ft9201_match_pair(FrameAt(print, k), probe) = r
    BY <1>4, <1>8 DEF IsTemplateScore
  <1>13. r \in Nat
    BY <1>8 DEF IsTemplateScore
  <1>14. \A k \in 1..n : ft9201_match_pair(FrameAt(print, k), probe) \in Nat
    BY <1>4, <1>7
  <1> QED BY <1>9, <1>11, <1>12, <1>13, <1>14, Zenon DEF n

-----------------------------------------------------------------------------
(* The loop of the identify operation.                                     *)

(* What it has found among the first n candidates: no score that is better *)
(* than the best, and none before it that is as good.                      *)
Found(best, probe, n) ==
  /\ best.score \in Int
  /\ \A i \in 1..n : Usable(prints[i]) => PrintScore(prints[i], probe) <= best.score
  /\ \/ best.print = 0 /\ best.score = -1
     \/ /\ best.print \in 1..n
        /\ Usable(prints[best.print])
        /\ best.score = PrintScore(prints[best.print], probe)
        /\ \A i \in 1..(best.print - 1) :
             Usable(prints[i]) => PrintScore(prints[i], probe) < best.score

Candidates == [score : Int, print : Nat]

LEMMA BestCandidates ==
  ASSUME prints \in Seq(WellTyped), SensorSize, NEW probe \in Frame
  PROVE  Found(BestCandidate(probe), probe, Len(prints))
  <1> DEFINE n == Len(prints)
             none == [score |-> -1, print |-> 0]
             Better(best, m) ==
               LET score == PrintScore(prints[m], probe)
               IN  IF score > best.score THEN [score |-> score, print |-> m] ELSE best
             Round(f, m) ==
               IF m = 0 THEN none
               ELSE IF ~FitsSensor(prints[m]) THEN f[m - 1]
               ELSE LET score == PrintScore(prints[m], probe)
                    IN  IF score > f[m - 1].score THEN [score |-> score, print |-> m]
                        ELSE f[m - 1]
             Is(f) == f = [m \in 0..Len(prints) |-> Round(f, m)]
             best == CHOOSE f : Is(f)
             Round1(b, m) == IF ~FitsSensor(prints[m]) THEN b ELSE Better(b, m)
  <1>1. n \in Nat /\ \A m \in 1..n : prints[m] \in WellTyped
    OBVIOUS
  <1>2. \A m \in 1..n : FitsSensor(prints[m]) <=> Usable(prints[m])
    BY <1>1, UsablePrints
  <1>3. \A m \in 1..n : Usable(prints[m]) => PrintScore(prints[m], probe) \in Nat
    BY <1>1, PrintScores
  <1>4. none \in Candidates
    BY DEF Candidates
  <1>5. ASSUME NEW b \in Candidates, NEW m \in 1..n PROVE Round1(b, m) \in Candidates
    BY <1>2, <1>3 DEF Candidates
  <1>6. BestCandidate(probe) = best[n]
    BY DEF BestCandidate
  <1>7. \A f : \A m \in 0..n : m # 0 => Round(f, m) = Round1(f[m - 1], m)
    BY Zenon
  <1>8. \A f : Round(f, 0) = none
    BY Zenon
  <1> HIDE DEF none, Round1
  <1>9. \E f : Is(f)
    <2> DEFINE step == [p \in (1..n) \X Candidates |-> Round1(p[2], p[1])]
    <2>1. step \in [(1..n) \X Candidates -> Candidates]
      BY <1>5
    <2>2. PICK f : IsLoop(f, n, Candidates, none, step)
      <3> HIDE DEF step
      <3> QED BY <2>1, <1>1, <1>4, LoopExists
    <2>3. ASSUME NEW m \in 1..n PROVE f[m] = Round1(f[m - 1], m)
      <3>1. f[m - 1] \in Candidates /\ f[m] = step[<<m, f[m - 1]>>]
        <4> HIDE DEF step, n
        <4>1. m - 1 \in 0..n
          BY <1>1
        <4> QED BY <2>2, <4>1 DEF IsLoop
      <3> QED BY <3>1
    <2>4. ASSUME NEW m \in 0..n PROVE f[m] = Round(f, m)
      <3> HIDE DEF Round
      <3>1. CASE m = 0
        BY <3>1, <1>8, <2>2 DEF IsLoop
      <3>2. CASE m # 0
        <4>1. m \in 1..n
          BY <3>2
        <4> QED BY <4>1, <3>2, <2>3, <1>7
      <3> QED BY <3>1, <3>2
    <2>5. f = [m \in 0..Len(prints) |-> Round(f, m)]
      <3> HIDE DEF Round
      <3> QED BY <2>2, <2>4 DEF IsLoop
    <2> QED BY <2>5, Zenon
  <1>10. Is(best)
    BY <1>9
  <1> HIDE DEF best
  <1>11. best[0] = none /\ \A m \in 1..n : best[m] = Round1(best[m - 1], m)
    <2> HIDE DEF Round
    <2>1. \A m \in 0..n : best[m] = Round(best, m)
      BY <1>10
    <2>2. \A m \in 1..n : m # 0 /\ m \in 0..n
      OBVIOUS
    <2> QED BY <1>1, <1>7, <1>8, <2>1, <2>2
  <1> DEFINE T == {m \in 0..n : best[m] \in Candidates /\ Found(best[m], probe, m)}
  <1>12. 0 \in T
    <2>1. none.score = -1 /\ none.print = 0
      BY DEF none
    <2>2. \A i \in 1..0 : FALSE
      OBVIOUS
    <2>3. Found(none, probe, 0)
      BY <2>1, <2>2 DEF Found
    <2> QED BY <1>1, <1>4, <1>11, <2>3
  <1>13. ASSUME NEW m \in 1..n, m - 1 \in T PROVE m \in T
    <2> DEFINE b == best[m - 1]
               new == best[m]
               s == PrintScore(prints[m], probe)
    <2>1. b \in Candidates /\ Found(b, probe, m - 1)
      BY <1>13
    <2>2. new = Round1(b, m)
      BY <1>11
    <2> HIDE DEF b, new, s
    <2>3. new \in Candidates
      BY <1>5, <2>1, <2>2
    <2>4. \A i \in 1..m : i \in 1..(m - 1) \/ i = m
      OBVIOUS
    <2>5. CASE ~Usable(prints[m]) \/ s <= b.score
      <3>1. new = b
        <4>1. s <= b.score /\ Usable(prints[m]) => ~(s > b.score)
          BY <1>3, <2>1 DEF Candidates, s
        <4> QED BY <4>1, <2>2, <2>5, <1>2, Zenon DEF Round1, s
      <3>2. \A i \in 1..m : Usable(prints[i]) => PrintScore(prints[i], probe) <= b.score
        BY <2>1, <2>4, <2>5 DEF Found, s
      <3>3. Found(b, probe, m)
        <4>1. b.print \in 1..(m - 1) => b.print \in 1..m
          OBVIOUS
        <4> QED BY <2>1, <3>2, <4>1 DEF Found
      <3>4. new \in Candidates /\ Found(new, probe, m)
        BY <2>3, <3>1, <3>3
      <3> QED BY <3>4 DEF new
    <2>6. CASE Usable(prints[m]) /\ s > b.score
      <3>1. new = [score |-> s, print |-> m]
        BY <2>2, <2>6, <1>2, Zenon DEF Round1, s
      <3>2. s \in Nat /\ new.score = s /\ new.print = m
        BY <2>6, <1>3, <3>1 DEF s
      <3>3. \A i \in 1..(m - 1) : Usable(prints[i]) => PrintScore(prints[i], probe) < s
        BY <2>1, <2>6, <3>2, <1>3 DEF Found
      <3>4. \A i \in 1..m : Usable(prints[i]) => PrintScore(prints[i], probe) <= s
        BY <3>3, <3>2, <2>4, <1>3 DEF s
      <3>5. Found(new, probe, m)
        BY <3>2, <3>3, <3>4, <2>6 DEF Found, s
      <3>6. new \in Candidates /\ Found(new, probe, m)
        BY <2>3, <3>5
      <3> QED BY <3>6 DEF new
    <2>7. s \in Nat \/ ~Usable(prints[m])
      BY <1>3 DEF s
    <2>8. b.score \in Int
      BY <2>1 DEF Candidates
    <2> QED BY <2>5, <2>6, <2>7, <2>8
  <1>14. 0..n \subseteq T
    <2> HIDE DEF T
    <2> QED BY <1>1, <1>12, <1>13, Induction
  <1>15. Found(best[n], probe, n)
    <2>1. n \in 0..n
      BY <1>1
    <2> QED BY <2>1, <1>14
  <1> QED BY <1>6, <1>15

-----------------------------------------------------------------------------
(* The decisions.                                                          *)

(* The static variables of ft9201_match_threshold: the text is read once,  *)
(* and gives the threshold of the process or leaves the default.           *)
ThresholdInv ==
  /\ env \in Environment
  /\ known \in BOOLEAN
  /\ value = IF known THEN ThresholdOfProcess ELSE MATCH_THRESHOLD

PrintsInv ==
  /\ prints \in Seq(WellTyped)
  /\ Len(prints) <= MaxPrints
  /\ origin \in Seq(Seq(Seq(Pixel)))
  /\ Len(origin) = Len(prints)

ReportInv ==
  /\ report.op \in {"none", "VERIFY", "IDENTIFY"}
  /\ report.op = "none" => report = NoReport
  /\ report.print \in 0..Len(prints)
  /\ report.op = "VERIFY" => report.print # 0

MInv ==
  /\ ThresholdInv
  /\ SensorSize
  /\ PrintsInv
  /\ ReportInv
  /\ EnrolledFramesSurvive
  /\ VerifyNeedsTwoFrames
  /\ IdentifyAgreesWithVerify
  /\ IdentifyFindsTheBest

(* Every operation uses the threshold of its process, within the limits.   *)
LEMMA Thresholds ==
  ASSUME ThresholdInv
  PROVE  /\ ft9201_match_threshold = ThresholdOfProcess
         /\ ThresholdOfProcess \in MATCH_THRESHOLD_MIN..MATCH_THRESHOLD_MAX
         /\ value \in MATCH_THRESHOLD_MIN..MATCH_THRESHOLD_MAX
  <1>1. ft9201_match_threshold = ThresholdOfProcess
    BY Zenon DEF ThresholdInv, ft9201_match_threshold, ThresholdOfProcess
  <1>2. ThresholdOfProcess \in MATCH_THRESHOLD_MIN..MATCH_THRESHOLD_MAX
    <2>1. env.parsed \in Int
      BY EnvironmentAssumption DEF ThresholdInv
    <2> QED BY <2>1, ThresholdAssumption DEF ThresholdOfProcess, Acceptable
  <1>3. MATCH_THRESHOLD \in MATCH_THRESHOLD_MIN..MATCH_THRESHOLD_MAX
    BY ThresholdAssumption
  <1> QED BY <1>1, <1>2, <1>3 DEF ThresholdInv

(* A score above the threshold is what Agrees counts. *)
LEMMA Verdict ==
  ASSUME ThresholdInv, SensorSize, NEW print \in WellTyped, NEW probe \in Frame
  PROVE  /\ FitsSensor(print) <=> Usable(print)
         /\ Usable(print) =>
              (PrintScore(print, probe) >= ft9201_match_threshold
                 <=> Agrees(print, probe, ThresholdOfProcess))
         /\ ~Usable(print) => \A t : ~Agrees(print, probe, t)
  <1>1. ThresholdOfProcess \in Nat /\ ft9201_match_threshold = ThresholdOfProcess
    BY Thresholds, ThresholdAssumption
  <1> QED BY <1>1, UsablePrints, PrintScores DEF Agrees

(* The print that the loop of identify has found, as the properties see it *)
LEMMA IdentifyDecides ==
  ASSUME ThresholdInv, SensorSize, prints \in Seq(WellTyped), NEW probe \in Frame
  PROVE  LET best     == BestCandidate(probe)
             accepted == {i \in DOMAIN prints :
                            Agrees(prints[i], probe, ThresholdOfProcess)}
         IN  /\ best.score >= ft9201_match_threshold => best.print \in accepted
             /\ ~(best.score >= ft9201_match_threshold) => accepted = {}
  <1> DEFINE best == BestCandidate(probe)
             thr  == ThresholdOfProcess
  <1>1. thr \in Nat \ {0} /\ ft9201_match_threshold = thr
    BY Thresholds, ThresholdAssumption
  <1>2. Found(best, probe, Len(prints))
    BY BestCandidates
  <1>3. \A i \in 1..Len(prints) : prints[i] \in WellTyped /\ i \in DOMAIN prints
    OBVIOUS
  <1> HIDE DEF best, thr
  <1>4. ASSUME best.score >= thr
        PROVE  best.print \in DOMAIN prints /\ Agrees(prints[best.print], probe, thr)
    <2>1. /\ best.print \in 1..Len(prints)
          /\ Usable(prints[best.print])
          /\ PrintScore(prints[best.print], probe) >= thr
      BY <1>1, <1>2, <1>4 DEF Found
    <2> QED BY <1>1, <1>3, <2>1, PrintScores
  <1>5. ASSUME NEW i \in DOMAIN prints, Agrees(prints[i], probe, thr)
        PROVE  best.score >= thr
    <2>1. i \in 1..Len(prints) /\ prints[i] \in WellTyped /\ Usable(prints[i])
      BY <1>5 DEF Agrees
    <2>2. PrintScore(prints[i], probe) \in Nat /\ PrintScore(prints[i], probe) >= thr
      BY <1>1, <1>5, <2>1, PrintScores
    <2>3. best.score \in Int /\ PrintScore(prints[i], probe) <= best.score
      BY <1>2, <2>1 DEF Found
    <2> QED BY <1>1, <2>2, <2>3
  <1>6. best.score >= thr =>
          best.print \in {i \in DOMAIN prints : Agrees(prints[i], probe, thr)}
    BY <1>4
  <1>7. ~(best.score >= thr) =>
          {i \in DOMAIN prints : Agrees(prints[i], probe, thr)} = {}
    BY <1>5
  <1> QED BY <1>1, <1>6, <1>7, Zenon DEF best, thr

(* It is the first of the best. *)
LEMMA IdentifyChooses ==
  ASSUME SensorSize, prints \in Seq(WellTyped), NEW probe \in Frame,
         NEW b, b = BestCandidate(probe).print, b # 0, NEW i \in DOMAIN prints, Usable(prints[i])
  PROVE  /\ \A k \in 1..FrameCount(prints[i]) :
              LET s == ft9201_match_pair(FrameAt(prints[i], k), probe)
              IN  Agrees(prints[i], probe, s) => Agrees(prints[b], probe, s)
         /\ i < b =>
              \E k \in 1..FrameCount(prints[b]) :
                LET s == ft9201_match_pair(FrameAt(prints[b], k), probe)
                IN  Agrees(prints[b], probe, s) /\ ~Agrees(prints[i], probe, s)
  <1> DEFINE best == BestCandidate(probe)
             mine == PrintScore(prints[b], probe)
             other == PrintScore(prints[i], probe)
  <1>1. Found(best, probe, Len(prints))
    BY BestCandidates
  <1>2. i \in 1..Len(prints) /\ prints[i] \in WellTyped
    OBVIOUS
  <1>3. /\ b \in 1..Len(prints) /\ Usable(prints[b]) /\ best.score = mine
        /\ other <= best.score
        /\ i < b => other < best.score
    <2>1. b = best.print
      OBVIOUS
    <2> HIDE DEF best
    <2> QED BY <1>1, <1>2, <2>1 DEF Found
  <1>4. prints[b] \in WellTyped
    BY <1>3
  <1>5. /\ mine \in Nat
        /\ \A t \in Nat : mine >= t <=> Agrees(prints[b], probe, t)
        /\ \E k \in 1..FrameCount(prints[b]) :
             ft9201_match_pair(FrameAt(prints[b], k), probe) = mine
    BY <1>3, <1>4, PrintScores
  <1>6. /\ other \in Nat
        /\ \A t \in Nat : other >= t <=> Agrees(prints[i], probe, t)
        /\ \A k \in 1..FrameCount(prints[i]) :
             ft9201_match_pair(FrameAt(prints[i], k), probe) \in Nat
    BY <1>2, PrintScores
  <1> HIDE DEF best, mine, other
  <1>7. ASSUME NEW t \in Nat, Agrees(prints[i], probe, t) PROVE Agrees(prints[b], probe, t)
    BY <1>3, <1>5, <1>6, <1>7
  <1>8. i < b => Agrees(prints[b], probe, mine) /\ ~Agrees(prints[i], probe, mine)
    BY <1>3, <1>5, <1>6
  <1>9. \A k \in 1..FrameCount(prints[i]) :
          LET s == ft9201_match_pair(FrameAt(prints[i], k), probe)
          IN  Agrees(prints[i], probe, s) => Agrees(prints[b], probe, s)
    BY <1>6, <1>7, Zenon
  <1>10. i < b =>
           \E k \in 1..FrameCount(prints[b]) :
             LET s == ft9201_match_pair(FrameAt(prints[b], k), probe)
             IN  Agrees(prints[b], probe, s) /\ ~Agrees(prints[i], probe, s)
    BY <1>5, <1>8, Zenon
  <1> QED BY <1>9, <1>10, Zenon

-----------------------------------------------------------------------------
(* The invariant, step by step.                                            *)

LEMMA InitEstablishes == Init => MInv
  <1> SUFFICES ASSUME Init PROVE MInv
    OBVIOUS
  <1>1. ThresholdInv
    BY DEF Init, ThresholdInv
  <1>2. SensorSize
    BY DimensionAssumption DEF Init, SensorSize
  <1>3. PrintsInv
    BY PrintsBoundAssumption, EmptySeq DEF Init, PrintsInv
  <1>4. ReportInv
    BY DEF Init, ReportInv, NoReport
  <1>5. EnrolledFramesSurvive
    BY DEF Init, EnrolledFramesSurvive
  <1>6. VerifyNeedsTwoFrames /\ IdentifyAgreesWithVerify /\ IdentifyFindsTheBest
    BY DEF Init, NoReport, VerifyNeedsTwoFrames, IdentifyAgreesWithVerify,
           IdentifyFindsTheBest
  <1> QED BY <1>1, <1>2, <1>3, <1>4, <1>5, <1>6 DEF MInv

(* No result is left to judge. *)
LEMMA NothingReported ==
  report' = NoReport =>
    ReportInv' /\ VerifyNeedsTwoFrames' /\ IdentifyAgreesWithVerify' /\ IdentifyFindsTheBest'
  <1> SUFFICES ASSUME report' = NoReport
               PROVE  ReportInv' /\ VerifyNeedsTwoFrames' /\ IdentifyAgreesWithVerify'
                      /\ IdentifyFindsTheBest'
    OBVIOUS
  <1>1. report'.op = "none" /\ report'.print = 0
    BY DEF NoReport
  <1>2. ReportInv'
    <2>1. Len(prints') \in Nat => 0 \in 0..Len(prints')
      OBVIOUS
    <2> QED BY <1>1 DEF ReportInv, NoReport
  <1> QED BY <1>1, <1>2 DEF VerifyNeedsTwoFrames, IdentifyAgreesWithVerify,
                           IdentifyFindsTheBest

(* The process reads its environment once. *)
LEMMA UseThreshold ==
  ASSUME ThresholdInv, use_threshold
  PROVE  ThresholdInv' /\ env' = env
  BY Zenon DEF ThresholdInv, use_threshold, ft9201_match_threshold, ThresholdOfProcess,
         Acceptable

(* A print joins those of the client, and the others stay. *)
LEMMA Joins ==
  ASSUME PrintsInv, EnrolledFramesSurvive, Len(prints) < MaxPrints,
         NEW print \in WellTyped, NEW frames \in Seq(Seq(Pixel)),
         frames # <<>> => ft9201_template_unpack(print) = frames,
         prints' = Append(prints, print), origin' = Append(origin, frames)
  PROVE  PrintsInv' /\ EnrolledFramesSurvive'
  <1> DEFINE n == Len(prints)
  <1>1. /\ n \in Nat /\ prints \in Seq(WellTyped) /\ origin \in Seq(Seq(Seq(Pixel)))
        /\ Len(origin) = n
    BY DEF PrintsInv
  <1>2. /\ prints' \in Seq(WellTyped) /\ Len(prints') = n + 1
        /\ origin' \in Seq(Seq(Seq(Pixel))) /\ Len(origin') = n + 1
    <2>1. prints' \in Seq(WellTyped) /\ Len(prints') = n + 1
      BY <1>1
    <2> DEFINE Origins == Seq(Seq(Pixel))
    <2>2. origin \in Seq(Origins) /\ frames \in Origins
      BY <1>1
    <2> HIDE DEF Origins
    <2>3. origin' \in Seq(Origins) /\ Len(origin') = n + 1
      BY <1>1, <2>2
    <2> QED BY <2>1, <2>3 DEF Origins
  <1>3. PrintsInv'
    <2>1. n + 1 <= MaxPrints
      BY <1>1, PrintsBoundAssumption
    <2> QED BY <1>2, <2>1 DEF PrintsInv
  <1>4. ASSUME NEW i \in 1..(n + 1), origin'[i] # <<>>
        PROVE  ft9201_template_unpack(prints'[i]) = origin'[i]
    <2>1. CASE i = n + 1
      <3>1. prints'[i] = print /\ origin'[i] = frames
        BY <1>1, <2>1
      <3> QED BY <3>1, <1>4
    <2>2. CASE i # n + 1
      <3>1. i \in 1..n
        BY <1>1, <2>2
      <3>2. prints'[i] = prints[i] /\ origin'[i] = origin[i]
        BY <1>1, <3>1
      <3>3. i \in DOMAIN prints
        BY <1>1, <3>1
      <3> QED BY <3>2, <3>3, <1>4 DEF EnrolledFramesSurvive
    <2> QED BY <2>1, <2>2
  <1>5. DOMAIN prints' = 1..(n + 1)
    BY <1>2
  <1>6. EnrolledFramesSurvive'
    BY <1>4, <1>5 DEF EnrolledFramesSurvive
  <1> QED BY <1>3, <1>6

LEMMA EnrollKeeps == MInv /\ Enroll => MInv'
  <1> SUFFICES ASSUME MInv, Enroll PROVE MInv'
    OBVIOUS
  <1> USE DEF MInv
  <1> DEFINE w == sensor_width
             h == sensor_height
  <1>1. PICK frames \in [1..ENROLL_STAGES -> Frame] :
          /\ prints' = Append(prints, ft9201_template_pack(frames, w, h))
          /\ origin' = Append(origin, frames)
    BY DEF Enroll
  <1>2. w \in Nat \ {0} /\ h \in Nat \ {0}
    BY SensorSizes
  <1>3. frames \in [1..ENROLL_STAGES -> FrameOf(w * h)] /\ ENROLL_STAGES \in Nat \ {0}
    BY StagesAssumption DEF Frame, FrameOf
  <1> HIDE DEF w, h
  <1>4. /\ ft9201_template_pack(frames, w, h) \in WellTyped
        /\ ft9201_template_unpack(ft9201_template_pack(frames, w, h)) = frames
    BY <1>2, <1>3, RoundTrip
  <1>5. frames \in Seq(Seq(Pixel))
    <2>1. w * h \in Nat
      BY <1>2
    <2>2. \A i \in 1..ENROLL_STAGES : frames[i] \in Seq(Pixel)
      BY <1>3, <2>1 DEF FrameOf
    <2> DEFINE Pictures == Seq(Pixel)
    <2> HIDE DEF Pictures
    <2>3. frames \in [1..ENROLL_STAGES -> Pictures]
      BY <1>3, <2>2 DEF Pictures
    <2>4. frames \in Seq(Pictures)
      BY <1>3, <2>3
    <2> QED BY <2>4 DEF Pictures
  <1>6. PrintsInv' /\ EnrolledFramesSurvive'
    BY <1>1, <1>4, <1>5, Joins DEF Enroll
  <1>7. ThresholdInv' /\ SensorSize'
    BY DEF Enroll, process, sensor, ThresholdInv, ThresholdOfProcess, Acceptable,
           SensorSize
  <1> QED BY <1>6, <1>7, NothingReported DEF Enroll

LEMMA AddForeignPrintKeeps == MInv /\ AddForeignPrint => MInv'
  <1> SUFFICES ASSUME MInv, AddForeignPrint PROVE MInv'
    OBVIOUS
  <1> USE DEF MInv
  <1>1. PICK print \in ForeignPrint :
          prints' = Append(prints, print) /\ origin' = Append(origin, <<>>)
    BY DEF AddForeignPrint
  <1>2. print \in WellTyped
    BY PrintAssumption DEF WellTyped
  <1>3. <<>> \in Seq(Seq(Pixel))
    BY EmptySeq
  <1>4. PrintsInv' /\ EnrolledFramesSurvive'
    BY <1>1, <1>2, <1>3, Joins DEF AddForeignPrint
  <1>5. ThresholdInv' /\ SensorSize'
    BY DEF AddForeignPrint, process, sensor, ThresholdInv, ThresholdOfProcess,
           Acceptable, SensorSize
  <1> QED BY <1>4, <1>5, NothingReported DEF AddForeignPrint

LEMMA ReopenKeeps == MInv /\ Reopen => MInv'
  <1> SUFFICES ASSUME MInv, Reopen PROVE MInv'
    OBVIOUS
  <1> USE DEF MInv
  <1>1. SensorSize'
    BY DimensionAssumption DEF Reopen, SensorSize
  <1>2. PrintsInv' /\ EnrolledFramesSurvive'
    BY DEF Reopen, PrintsInv, EnrolledFramesSurvive
  <1>3. ThresholdInv'
    BY DEF Reopen, process, ThresholdInv, ThresholdOfProcess, Acceptable
  <1> QED BY <1>1, <1>2, <1>3, NothingReported DEF Reopen

LEMMA RestartKeeps == MInv /\ Restart => MInv'
  <1> SUFFICES ASSUME MInv, Restart PROVE MInv'
    OBVIOUS
  <1> USE DEF MInv
  <1>1. SensorSize'
    BY DEF Restart, sensor, SensorSize
  <1>2. PrintsInv' /\ EnrolledFramesSurvive'
    BY DEF Restart, PrintsInv, EnrolledFramesSurvive
  <1>3. ThresholdInv'
    BY DEF Restart, ThresholdInv
  <1> QED BY <1>1, <1>2, <1>3, NothingReported DEF Restart

(* What a decision leaves alone. *)
LEMMA DecisionLeaves ==
  ASSUME SensorSize, PrintsInv, EnrolledFramesSurvive, UNCHANGED <<sensor, prints, origin>>
  PROVE  SensorSize' /\ PrintsInv' /\ EnrolledFramesSurvive'
  BY DEF SensorSize, sensor, PrintsInv, EnrolledFramesSurvive

LEMMA VerifyInvalidKeeps == MInv /\ VerifyInvalid => MInv'
  <1> SUFFICES ASSUME MInv, VerifyInvalid PROVE MInv'
    OBVIOUS
  <1> USE DEF MInv
  <1>1. PICK i \in DOMAIN prints, probe \in Frame :
          /\ ~FitsSensor(prints[i])
          /\ report' = [op |-> "VERIFY", print |-> i, probe |-> probe,
                        result |-> "DATA_INVALID"]
    BY DEF VerifyInvalid
  <1>2. UNCHANGED <<sensor, prints, origin>> /\ env' = env /\ ThresholdInv'
    BY DEF VerifyInvalid, process, ThresholdInv, ThresholdOfProcess, Acceptable
  <1>3. i \in 1..Len(prints) /\ prints[i] \in WellTyped
    BY DEF PrintsInv
  <1>4. ~Usable(prints[i]) /\ \A t : ~Agrees(prints[i], probe, t)
    BY <1>1, <1>3, Verdict
  <1>5. /\ report'.op = "VERIFY" /\ report'.print = i /\ report'.probe = probe
        /\ report'.result = "DATA_INVALID"
    BY <1>1
  <1>6. VerifyNeedsTwoFrames'
    BY <1>2, <1>4, <1>5 DEF VerifyNeedsTwoFrames, Agrees, Usable, sensor
  <1>7. ReportInv'
    BY <1>2, <1>3, <1>5 DEF ReportInv
  <1>8. IdentifyAgreesWithVerify' /\ IdentifyFindsTheBest'
    BY <1>5 DEF IdentifyAgreesWithVerify, IdentifyFindsTheBest
  <1> QED BY <1>2, <1>6, <1>7, <1>8, DecisionLeaves

LEMMA VerifyKeeps == MInv /\ Verify => MInv'
  <1> SUFFICES ASSUME MInv, Verify PROVE MInv'
    OBVIOUS
  <1> USE DEF MInv
  <1>1. PICK i \in DOMAIN prints, probe \in Frame :
          /\ FitsSensor(prints[i])
          /\ report' = [op |-> "VERIFY", print |-> i, probe |-> probe,
                        result |-> IF PrintScore(prints[i], probe) >= ft9201_match_threshold
                                   THEN "MATCH" ELSE "NO_MATCH"]
    BY DEF Verify
  <1>2. UNCHANGED <<sensor, prints, origin>> /\ use_threshold
    BY DEF Verify
  <1>3. ThresholdInv' /\ env' = env
    BY <1>2, UseThreshold
  <1>4. i \in 1..Len(prints) /\ prints[i] \in WellTyped
    BY DEF PrintsInv
  <1>5. /\ Usable(prints[i])
        /\ PrintScore(prints[i], probe) >= ft9201_match_threshold
             <=> Agrees(prints[i], probe, ThresholdOfProcess)
    BY <1>1, <1>4, Verdict
  <1>6. /\ report'.op = "VERIFY" /\ report'.print = i /\ report'.probe = probe
        /\ report'.result # "DATA_INVALID"
        /\ report'.result = "MATCH"
             <=> PrintScore(prints[i], probe) >= ft9201_match_threshold
    BY <1>1
  <1>7. report'.result = "MATCH" <=> Agrees(prints[i], probe, ThresholdOfProcess)
    BY <1>5, <1>6, Zenon
  <1>8. VerifyNeedsTwoFrames'
    BY <1>2, <1>3, <1>5, <1>6, <1>7
       DEF VerifyNeedsTwoFrames, Agrees, Usable, ThresholdOfProcess, Acceptable, sensor
  <1>9. ReportInv'
    BY <1>2, <1>4, <1>6 DEF ReportInv
  <1>10. IdentifyAgreesWithVerify' /\ IdentifyFindsTheBest'
    BY <1>6 DEF IdentifyAgreesWithVerify, IdentifyFindsTheBest
  <1> QED BY <1>2, <1>3, <1>8, <1>9, <1>10, DecisionLeaves

LEMMA IdentifyKeeps == MInv /\ Identify => MInv'
  <1> SUFFICES ASSUME MInv, Identify PROVE MInv'
    OBVIOUS
  <1> USE DEF MInv
  <1>1. PICK probe \in Frame :
          LET best  == BestCandidate(probe)
              found == best.score >= ft9201_match_threshold
          IN  report' = [op |-> "IDENTIFY", print |-> IF found THEN best.print ELSE 0,
                         probe |-> probe,
                         result |-> IF found THEN "MATCH" ELSE "NO_MATCH"]
    BY DEF Identify
  <1>2. UNCHANGED <<sensor, prints, origin>> /\ use_threshold
    BY DEF Identify
  <1>3. ThresholdInv' /\ env' = env
    BY <1>2, UseThreshold
  <1>4. prints \in Seq(WellTyped)
    BY DEF PrintsInv
  <1> DEFINE best == BestCandidate(probe)
             found == best.score >= ft9201_match_threshold
             accepted == {i \in DOMAIN prints : Agrees(prints[i], probe, ThresholdOfProcess)}
  <1>5. (found => best.print \in accepted) /\ (~found => accepted = {})
    BY <1>4, IdentifyDecides
  <1>6. /\ report'.op = "IDENTIFY" /\ report'.probe = probe
        /\ found => report'.print = best.print /\ report'.result = "MATCH"
        /\ ~found => report'.print = 0 /\ report'.result = "NO_MATCH"
    <2> HIDE DEF best, found
    <2>1. report' = [op |-> "IDENTIFY", print |-> IF found THEN best.print ELSE 0,
                     probe |-> probe, result |-> IF found THEN "MATCH" ELSE "NO_MATCH"]
      BY <1>1, Zenon DEF best, found
    <2> QED BY <2>1
  <1>7. IF accepted = {} THEN report'.result = "NO_MATCH" /\ report'.print = 0
        ELSE report'.result = "MATCH" /\ report'.print \in accepted
    <2> HIDE DEF best, found, accepted
    <2> QED BY <1>5, <1>6
  <1>8. IdentifyAgreesWithVerify'
    BY <1>2, <1>3, <1>6, <1>7
       DEF IdentifyAgreesWithVerify, Agrees, Usable, ThresholdOfProcess, Acceptable, sensor
  <1>9. report'.print = 0 \/ (report'.print = best.print /\ report'.print \in DOMAIN prints)
    <2>1. accepted \subseteq DOMAIN prints
      OBVIOUS
    <2> HIDE DEF best, found, accepted
    <2> QED BY <1>5, <1>6, <2>1
  <1>10. ReportInv'
    <2> HIDE DEF best, found, accepted
    <2>1. DOMAIN prints = 1..Len(prints) /\ Len(prints) \in Nat
      BY <1>4
    <2> QED BY <1>2, <1>6, <1>9, <2>1 DEF ReportInv
  <1>11. IdentifyFindsTheBest'
    <2> SUFFICES ASSUME report'.print # 0 PROVE IdentifyFindsTheBest'
      BY DEF IdentifyFindsTheBest
    <2> DEFINE b == report'.print
    <2>1. b = best.print /\ b # 0
      BY <1>9
    <2>2. ASSUME NEW i \in DOMAIN prints, Usable(prints[i])
          PROVE  /\ \A k \in 1..FrameCount(prints[i]) :
                      LET s == ft9201_match_pair(FrameAt(prints[i], k), probe)
                      IN  Agrees(prints[i], probe, s) => Agrees(prints[b], probe, s)
                 /\ i < b =>
                      ~(\A k \in 1..FrameCount(prints[b]) :
                          LET s == ft9201_match_pair(FrameAt(prints[b], k), probe)
                          IN  Agrees(prints[b], probe, s) => Agrees(prints[i], probe, s))
      <3> HIDE DEF b
      <3>1. /\ \A k \in 1..FrameCount(prints[i]) :
                 LET s == ft9201_match_pair(FrameAt(prints[i], k), probe)
                 IN  Agrees(prints[i], probe, s) => Agrees(prints[b], probe, s)
            /\ i < b =>
                 \E k \in 1..FrameCount(prints[b]) :
                   LET s == ft9201_match_pair(FrameAt(prints[b], k), probe)
                   IN  Agrees(prints[b], probe, s) /\ ~Agrees(prints[i], probe, s)
        BY <1>4, <2>1, <2>2, IdentifyChooses
      <3> QED BY <3>1, Zenon
    <2> HIDE DEF best
    <2> QED BY <1>2, <1>6, <2>2 DEF IdentifyFindsTheBest, Agrees, Usable, sensor
  <1>12. SensorSize' /\ PrintsInv' /\ EnrolledFramesSurvive'
    BY <1>2, DecisionLeaves
  <1>13. VerifyNeedsTwoFrames'
    BY <1>6 DEF VerifyNeedsTwoFrames
  <1> QED BY <1>3, <1>8, <1>10, <1>11, <1>12, <1>13, Zenon

LEMMA NextKeeps == MInv /\ [Next]_vars => MInv'
  <1> SUFFICES ASSUME MInv, [Next]_vars PROVE MInv'
    OBVIOUS
  <1>1. CASE UNCHANGED vars
    <2>1. /\ UNCHANGED <<sensor, prints, origin, report>>
          /\ env' = env /\ known' = known /\ value' = value
      BY <1>1 DEF vars, process
    <2>2. ThresholdInv' /\ ReportInv'
      BY <2>1 DEF MInv, ThresholdInv, ThresholdOfProcess, Acceptable, ReportInv
    <2>3. SensorSize' /\ PrintsInv' /\ EnrolledFramesSurvive'
      BY <2>1, DecisionLeaves DEF MInv
    <2>4. VerifyNeedsTwoFrames'
      BY <2>1 DEF MInv, VerifyNeedsTwoFrames, Agrees, Usable, ThresholdOfProcess,
                  Acceptable, sensor
    <2>5. IdentifyAgreesWithVerify'
      BY <2>1 DEF MInv, IdentifyAgreesWithVerify, Agrees, Usable, ThresholdOfProcess,
                  Acceptable, sensor
    <2>6. IdentifyFindsTheBest'
      BY <2>1 DEF MInv, IdentifyFindsTheBest, Agrees, Usable, sensor
    <2> QED BY <2>2, <2>3, <2>4, <2>5, <2>6 DEF MInv
  <1> QED BY <1>1, EnrollKeeps, VerifyInvalidKeeps, VerifyKeeps, IdentifyKeeps,
             AddForeignPrintKeeps, ReopenKeeps, RestartKeeps DEF Next

(* The invariant of the decisions. *)
THEOREM MatchingInvariance == Spec => []MInv
  BY InitEstablishes, NextKeeps, PTL DEF Spec

(* Types, and a threshold within its limits whatever the environment holds *)
(* (ft9201_match_threshold).                                               *)
THEOREM ThresholdsAreBounded == Spec => []TypeOK
  <1>1. MInv => TypeOK
    <2> SUFFICES ASSUME MInv PROVE TypeOK
      OBVIOUS
    <2>1. DOMAIN origin = DOMAIN prints
      <3>1. prints \in Seq(WellTyped) /\ origin \in Seq(Seq(Seq(Pixel))) /\ Len(origin) = Len(prints)
        BY DEF MInv, PrintsInv
      <3>2. DOMAIN prints = 1..Len(prints)
        BY <3>1
      <3> DEFINE Origins == Seq(Seq(Pixel))
      <3>3. origin \in Seq(Origins)
        BY <3>1
      <3> HIDE DEF Origins
      <3>4. DOMAIN origin = 1..Len(origin)
        BY <3>3
      <3> QED BY <3>1, <3>2, <3>4
    <2> QED BY <2>1, Thresholds
            DEF MInv, TypeOK, ThresholdInv, SensorSize, PrintsInv, ReportInv
  <1> QED BY <1>1, MatchingInvariance, PTL

(* What ft9201_template_pack has stored of an enrollment is what           *)
(* ft9201_template_unpack gives back, frame by frame.                      *)
THEOREM EnrollmentsSurvive == Spec => []EnrolledFramesSurvive
  BY MatchingInvariance, PTL DEF MInv

(* A verify operation of capture_ssm_done reports a match exactly when two *)
(* frames of the print reach the threshold.                                *)
THEOREM TwoFramesVerify == Spec => []VerifyNeedsTwoFrames
  BY MatchingInvariance, PTL DEF MInv

(* An identify operation accepts exactly what a verify operation would.    *)
THEOREM IdentifyIsVerify == Spec => []IdentifyAgreesWithVerify
  BY MatchingInvariance, PTL DEF MInv

(* An identify operation finds the first of the best prints. *)
THEOREM IdentifyIsBest == Spec => []IdentifyFindsTheBest
  BY MatchingInvariance, PTL DEF MInv
=============================================================================
