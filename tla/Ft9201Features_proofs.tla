----------------------- MODULE Ft9201Features_proofs -----------------------
(***************************************************************************)
(* Theorems about the score of two frames, for any number of keypoints     *)
(* anywhere, any descriptors and any tolerance, and about the keypoints of *)
(* a frame, for every frame and every radius, border and pair of kernels.  *)
(***************************************************************************)
EXTENDS Ft9201Features, LoopTheorems, SequenceTheorems

-----------------------------------------------------------------------------
(* The loop over the keypoints of the other frame.                         *)

Ranks == [d1 : Nat, d2 : Nat, j : Nat]

NearStep(k, b, m, n) ==
  LET d == ft9201_desc_dist2(k, b[n])
  IN  IF d < m.d1 THEN [d1 |-> d, d2 |-> m.d1, j |-> n]
      ELSE IF d < m.d2 THEN [m EXCEPT !.d2 = d] ELSE m

NearRounds(k, b) == [q \in (1..Len(b)) \X Ranks |-> NearStep(k, b, q[2], q[1])]

LEMMA Distances ==
  ASSUME NEW k \in Keypoint, NEW l \in Keypoint
  PROVE  ft9201_desc_dist2(k, l) \in Nat
  <1>1. \A i \in Int : i * i \in Nat
    OBVIOUS
  <1>2. k.desc - l.desc \in Int
    <2>1. k.desc \in Descriptor /\ l.desc \in Descriptor
      BY DEF Keypoint
    <2>2. \A i, j \in Descriptor : i - j \in Int
      BY DEF Descriptor
    <2> QED BY <2>1, <2>2, Zenon
  <1> QED BY <1>1, <1>2 DEF ft9201_desc_dist2, Square

LEMMA NearStepType ==
  ASSUME NEW k \in Keypoint, NEW b \in Seq(Keypoint), NEW m \in Ranks, NEW n \in 1..Len(b)
  PROVE  NearStep(k, b, m, n) \in Ranks
  <1>1. ft9201_desc_dist2(k, b[n]) \in Nat
    BY Distances
  <1>2. m.d1 \in Nat /\ m.d2 \in Nat /\ m.j \in Nat /\ n \in Nat
        /\ m = [d1 |-> m.d1, d2 |-> m.d2, j |-> m.j]
    BY DEF Ranks
  <1> DEFINE d == ft9201_desc_dist2(k, b[n])
  <1> HIDE DEF d
  <1>3. [m EXCEPT !.d2 = d] = [d1 |-> m.d1, d2 |-> d, j |-> m.j]
    BY <1>2
  <1> QED BY <1>1, <1>2, <1>3 DEF NearStep, Ranks, d

(* nearest is a loop of one round for each keypoint of b. *)
LEMMA NearestIsLoop ==
  ASSUME NEW k \in Keypoint, NEW b \in Seq(Keypoint)
  PROVE  \E f : /\ IsLoop(f, Len(b), Ranks, FarAway, NearRounds(k, b))
                /\ nearest(k, b) = f[Len(b)]
  <1> DEFINE n == Len(b)
             turn == NearRounds(k, b)
             Round(f, i) ==
               IF i = 0 THEN FarAway
               ELSE LET m == f[i - 1]
                        d == ft9201_desc_dist2(k, b[i])
                    IN  IF d < m.d1 THEN [d1 |-> d, d2 |-> m.d1, j |-> i]
                        ELSE IF d < m.d2 THEN [m EXCEPT !.d2 = d] ELSE m
             Is(f) == f = [i \in 0..Len(b) |-> Round(f, i)]
             after == CHOOSE f : Is(f)
  <1>1. n \in Nat
    OBVIOUS
  <1>2. FarAway \in Ranks
    BY DEF FarAway, Ranks, G_MAXFLOAT
  <1>3. turn \in [(1..n) \X Ranks -> Ranks]
    BY NearStepType DEF NearRounds
  <1>4. nearest(k, b) = after[n]
    BY Zenon DEF nearest
  <1>5. \A f : \A i \in 0..n : i # 0 => Round(f, i) = NearStep(k, b, f[i - 1], i)
    BY Zenon DEF NearStep
  <1>6. \A f : Round(f, 0) = FarAway
    BY Zenon
  <1>7. \A i \in 1..n : \A m \in Ranks : turn[<<i, m>>] = NearStep(k, b, m, i)
    BY DEF NearRounds
  <1> HIDE DEF n, turn, Round
  <1>8. \E f : Is(f)
    <2>1. PICK f : IsLoop(f, n, Ranks, FarAway, turn)
      BY <1>1, <1>2, <1>3, LoopExists
    <2>2. ASSUME NEW i \in 0..n PROVE f[i] = Round(f, i)
      <3>1. CASE i = 0
        BY <3>1, <1>6, <2>1 DEF IsLoop
      <3>2. CASE i # 0
        <4>1. i \in 1..n /\ i - 1 \in 0..n
          BY <1>1, <3>2
        <4>2. f[i - 1] \in Ranks /\ f[i] = turn[<<i, f[i - 1]>>]
          BY <4>1, <2>1 DEF IsLoop
        <4> QED BY <4>1, <4>2, <3>2, <1>5, <1>7
      <3> QED BY <3>1, <3>2
    <2>3. f = [i \in 0..Len(b) |-> Round(f, i)]
      BY <2>1, <2>2 DEF IsLoop, n
    <2> QED BY <2>3, Zenon
  <1>9. Is(after)
    BY <1>8
  <1> HIDE DEF after
  <1>10. after = [i \in 0..n |-> Round(after, i)]
    BY <1>9 DEF n
  <1>11. /\ after[0] = FarAway
         /\ \A i \in 1..n : after[i] = NearStep(k, b, after[i - 1], i)
    <2>1. \A i \in 0..n : after[i] = Round(after, i)
      BY <1>10
    <2>2. 0 \in 0..n /\ \A i \in 1..n : i # 0 /\ i \in 0..n
      BY <1>1
    <2> QED BY <1>5, <1>6, <2>1, <2>2
  <1>12. \A i \in 0..n : after[i] \in Ranks
    <2> DEFINE good == {i \in 0..n : after[i] \in Ranks}
    <2>1. 0 \in good
      BY <1>1, <1>2, <1>11
    <2>2. ASSUME NEW i \in 1..n, i - 1 \in good PROVE i \in good
      <3>1. after[i - 1] \in Ranks /\ i \in 0..n /\ i \in 1..Len(b)
        BY <2>2, <1>1 DEF n
      <3> QED BY <3>1, <1>11, NearStepType
    <2>3. 0..n \subseteq good
      <3> HIDE DEF good
      <3> QED BY <1>1, <2>1, <2>2, Induction
    <2> QED BY <2>3
  <1>13. after \in [0..n -> Ranks]
    BY <1>10, <1>12
  <1>14. \A i \in 1..n : after[i] = turn[<<i, after[i - 1]>>]
    <2>1. \A i \in 1..n : i - 1 \in 0..n
      BY <1>1
    <2> QED BY <2>1, <1>7, <1>11, <1>12
  <1>15. IsLoop(after, n, Ranks, FarAway, turn)
    BY <1>11, <1>13, <1>14 DEF IsLoop
  <1> QED BY <1>4, <1>15 DEF n, turn

(* d1 and d2 are the distance of j and a distance that is not greater than *)
(* the greater one of any two.                                             *)
Nearest(k, b, m, n) ==
  LET dist(i) == ft9201_desc_dist2(k, b[i])
  IN  /\ m.d1 <= m.d2 /\ m.d2 <= G_MAXFLOAT
      /\ m.d1 < G_MAXFLOAT => m.j \in 1..n /\ dist(m.j) = m.d1
      /\ \A i, l \in 1..n : i # l => m.d2 <= dist(i) \/ m.d2 <= dist(l)
      /\ \A i \in 1..n : m.d1 <= dist(i)

LEMMA NearStepKeeps ==
  ASSUME NEW k \in Keypoint, NEW b \in Seq(Keypoint), NEW m \in Ranks, NEW n \in 1..Len(b),
         Nearest(k, b, m, n - 1)
  PROVE  Nearest(k, b, NearStep(k, b, m, n), n)
  <1> DEFINE dist(i) == ft9201_desc_dist2(k, b[i])
             d == dist(n)
             t == NearStep(k, b, m, n)
  <1>1. \A i \in 1..Len(b) : dist(i) \in Nat
    BY Distances
  <1>2. m.d1 \in Nat /\ m.d2 \in Nat /\ m.j \in Nat
        /\ m = [d1 |-> m.d1, d2 |-> m.d2, j |-> m.j] /\ G_MAXFLOAT \in Nat
    BY DEF Ranks, G_MAXFLOAT
  <1>3. /\ m.d1 <= m.d2 /\ m.d2 <= G_MAXFLOAT
        /\ m.d1 < G_MAXFLOAT => m.j \in 1..(n - 1) /\ dist(m.j) = m.d1
        /\ \A i, l \in 1..(n - 1) : i # l => m.d2 <= dist(i) \/ m.d2 <= dist(l)
        /\ \A i \in 1..(n - 1) : m.d1 <= dist(i)
    BY DEF Nearest
  <1>4. \A i \in 1..n : i \in 1..Len(b) /\ (i \in 1..(n - 1) \/ i = n)
    OBVIOUS
  <1>5. \/ d < m.d1 /\ t.d1 = d /\ t.d2 = m.d1 /\ t.j = n
        \/ ~(d < m.d1) /\ d < m.d2 /\ t.d1 = m.d1 /\ t.d2 = d /\ t.j = m.j
        \/ ~(d < m.d1) /\ ~(d < m.d2) /\ t.d1 = m.d1 /\ t.d2 = m.d2 /\ t.j = m.j
    <2>1. [m EXCEPT !.d2 = d] = [d1 |-> m.d1, d2 |-> d, j |-> m.j]
      BY <1>2
    <2>2. t = IF d < m.d1 THEN [d1 |-> d, d2 |-> m.d1, j |-> n]
              ELSE IF d < m.d2 THEN [m EXCEPT !.d2 = d] ELSE m
      BY DEF NearStep
    <2> HIDE DEF d, t
    <2> QED BY <2>1, <2>2
  <1> HIDE DEF t
  <1>6. d \in Nat /\ n \in 1..n /\ n \in Nat
    BY <1>1
  <1> HIDE DEF dist
  <1>7. t.d1 <= t.d2 /\ t.d2 <= G_MAXFLOAT
    BY <1>2, <1>3, <1>5, <1>6
  <1>8. t.d1 < G_MAXFLOAT => t.j \in 1..n /\ dist(t.j) = t.d1
    BY <1>2, <1>3, <1>5, <1>6
  <1>9. \A i \in 1..n : t.d1 <= dist(i)
    BY <1>1, <1>2, <1>3, <1>4, <1>5, <1>6
  <1>10. ASSUME NEW i \in 1..n, NEW l \in 1..n, i # l
         PROVE  t.d2 <= dist(i) \/ t.d2 <= dist(l)
    <2>1. dist(i) \in Nat /\ dist(l) \in Nat
      BY <1>1, <1>4
    <2>2. CASE i \in 1..(n - 1) /\ l \in 1..(n - 1)
      <3>1. m.d2 <= dist(i) \/ m.d2 <= dist(l)
        BY <2>2, <1>10, <1>3
      <3>2. t.d2 <= m.d2
        BY <1>2, <1>3, <1>5, <1>6
      <3>3. t.d2 \in Nat
        BY <1>2, <1>5, <1>6
      <3> QED BY <3>1, <3>2, <3>3, <2>1, <1>2
    <2>3. CASE i = n \/ l = n
      <3>1. t.d2 <= d \/ t.d2 <= m.d1
        BY <1>2, <1>5, <1>6
      <3>2. t.d2 \in Nat
        BY <1>2, <1>5, <1>6
      <3>3. (i = n /\ l \in 1..(n - 1)) \/ (l = n /\ i \in 1..(n - 1))
        BY <2>3, <1>4, <1>10
      <3>4. (i = n /\ m.d1 <= dist(l)) \/ (l = n /\ m.d1 <= dist(i))
        BY <3>3, <1>3
      <3> QED BY <3>1, <3>2, <3>4, <2>1, <1>2, <1>6
    <2> QED BY <2>2, <2>3, <1>4
  <1> QED BY <1>7, <1>8, <1>9, <1>10 DEF Nearest, dist, t

(* The two nearest keypoints of b, whatever their order. *)
LEMMA NearestTwo ==
  ASSUME NEW k \in Keypoint, NEW b \in Seq(Keypoint)
  PROVE  nearest(k, b) \in Ranks /\ Nearest(k, b, nearest(k, b), Len(b))
  <1> DEFINE n == Len(b)
  <1>1. n \in Nat
    OBVIOUS
  <1>2. PICK f : IsLoop(f, n, Ranks, FarAway, NearRounds(k, b)) /\ nearest(k, b) = f[n]
    BY NearestIsLoop
  <1> DEFINE good == {i \in 0..n : f[i] \in Ranks /\ Nearest(k, b, f[i], i)}
  <1>3. 0 \in good
    <2>1. f[0] = FarAway /\ FarAway \in Ranks
      BY <1>2 DEF IsLoop, FarAway, Ranks, G_MAXFLOAT
    <2>2. Nearest(k, b, FarAway, 0)
      BY DEF Nearest, FarAway, G_MAXFLOAT
    <2> QED BY <1>1, <2>1, <2>2
  <1>4. ASSUME NEW i \in 1..n, i - 1 \in good PROVE i \in good
    <2>1. f[i - 1] \in Ranks /\ Nearest(k, b, f[i - 1], i - 1)
      BY <1>4
    <2>2. f[i] = NearRounds(k, b)[<<i, f[i - 1]>>]
      BY <1>2 DEF IsLoop
    <2>3. f[i] = NearStep(k, b, f[i - 1], i)
      BY <2>1, <2>2 DEF NearRounds
    <2>4. f[i] \in Ranks /\ Nearest(k, b, f[i], i)
      BY <2>1, <2>3, NearStepType, NearStepKeeps
    <2> QED BY <2>4
  <1>5. 0..n \subseteq good
    <2> HIDE DEF good, n
    <2> QED BY <1>1, <1>3, <1>4, Induction
  <1>6. n \in 0..n
    BY <1>1
  <1> QED BY <1>2, <1>5, <1>6

(* Texture that occurs twice is refused by the ratio test. *)
LEMMA RepeatedIsRefused ==
  ASSUME NEW k \in Keypoint, NEW b \in Seq(Keypoint),
         \A n \in 1..Len(b) : \E m \in 1..Len(b) : m # n /\ b[m].desc = b[n].desc
  PROVE  ~accepted(nearest(k, b))
  <1> DEFINE m == nearest(k, b)
  <1>1. m \in Ranks /\ Nearest(k, b, m, Len(b))
    BY NearestTwo
  <1> HIDE DEF m
  <1>2. m.d1 \in Nat /\ m.d2 \in Nat /\ G_MAXFLOAT \in Nat
    BY <1>1 DEF Ranks, G_MAXFLOAT
  <1>3. m.d2 <= m.d1
    <2>1. CASE m.d1 < G_MAXFLOAT
      <3>1. m.j \in 1..Len(b) /\ ft9201_desc_dist2(k, b[m.j]) = m.d1
        BY <1>1, <2>1 DEF Nearest
      <3>2. PICK i \in 1..Len(b) : i # m.j /\ b[i].desc = b[m.j].desc
        BY <3>1
      <3>3. ft9201_desc_dist2(k, b[i]) = ft9201_desc_dist2(k, b[m.j])
        BY <3>2 DEF ft9201_desc_dist2
      <3>4. m.d2 <= ft9201_desc_dist2(k, b[i]) \/ m.d2 <= ft9201_desc_dist2(k, b[m.j])
        BY <1>1, <3>1, <3>2 DEF Nearest
      <3> QED BY <3>1, <3>3, <3>4
    <2>2. CASE ~(m.d1 < G_MAXFLOAT)
      <3>1. m.d2 <= G_MAXFLOAT
        BY <1>1 DEF Nearest
      <3> QED BY <2>2, <3>1, <1>2
    <2> QED BY <2>1, <2>2
  <1>4. ~(25 * m.d1 < 16 * m.d2)
    BY <1>2, <1>3
  <1> QED BY <1>4 DEF accepted, m

-----------------------------------------------------------------------------
(* The loop over the keypoints of the stored frame.                        *)

Matched == [a : Keypoint, b : Keypoint]

PairStep(a, b, s, n) ==
  LET m == nearest(a[n], b)
  IN  IF accepted(m) THEN Append(s, [a |-> a[n], b |-> b[m.j]]) ELSE s

PairRounds(a, b) == [q \in (1..Len(a)) \X Seq(Matched) |-> PairStep(a, b, q[2], q[1])]

(* An accepted keypoint is one of b: nothing was nearer than G_MAXFLOAT    *)
(* otherwise, and the two distances are the same.                          *)
LEMMA AcceptedIsFound ==
  ASSUME NEW k \in Keypoint, NEW b \in Seq(Keypoint), accepted(nearest(k, b))
  PROVE  nearest(k, b).j \in 1..Len(b)
  <1> DEFINE m == nearest(k, b)
  <1>1. m \in Ranks /\ Nearest(k, b, m, Len(b)) /\ accepted(m)
    BY NearestTwo
  <1> HIDE DEF m
  <1>2. m.d1 \in Nat /\ m.d2 \in Nat /\ G_MAXFLOAT \in Nat
    BY <1>1 DEF Ranks, G_MAXFLOAT
  <1>3. m.d2 <= G_MAXFLOAT /\ (m.d1 < G_MAXFLOAT => m.j \in 1..Len(b))
    BY <1>1 DEF Nearest
  <1>4. 25 * m.d1 < 16 * m.d2
    BY <1>1 DEF accepted
  <1>5. m.d1 < G_MAXFLOAT
    BY <1>2, <1>3, <1>4
  <1> QED BY <1>3, <1>5 DEF m

LEMMA PairStepType ==
  ASSUME NEW a \in Seq(Keypoint), NEW b \in Seq(Keypoint), NEW n \in 1..Len(a),
         NEW s \in Seq(Matched)
  PROVE  PairStep(a, b, s, n) \in Seq(Matched)
  <1>1. a[n] \in Keypoint
    OBVIOUS
  <1> DEFINE m == nearest(a[n], b)
  <1>2. CASE accepted(m)
    <2>1. b[m.j] \in Keypoint
      BY <1>1, <1>2, AcceptedIsFound
    <2>2. [a |-> a[n], b |-> b[m.j]] \in Matched
      BY <1>1, <2>1 DEF Matched
    <2> QED BY <1>2, <2>2 DEF PairStep
  <1>3. CASE ~accepted(m)
    BY <1>3 DEF PairStep
  <1> QED BY <1>2, <1>3

(* pairs is a loop of one round for each keypoint of a. *)
LEMMA PairsIsLoop ==
  ASSUME NEW a \in Seq(Keypoint), NEW b \in Seq(Keypoint)
  PROVE  \E f : /\ IsLoop(f, Len(a), Seq(Matched), <<>>, PairRounds(a, b))
                /\ pairs(a, b) = f[Len(a)]
  <1> DEFINE n == Len(a)
             S == Seq(Matched)
             turn == PairRounds(a, b)
             Round(f, i) ==
               IF i = 0 THEN <<>>
               ELSE LET m == nearest(a[i], b)
                    IN  IF accepted(m) THEN Append(f[i - 1], [a |-> a[i], b |-> b[m.j]])
                        ELSE f[i - 1]
             Is(f) == f = [i \in 0..Len(a) |-> Round(f, i)]
             found == CHOOSE f : Is(f)
  <1>1. n \in Nat
    OBVIOUS
  <1>2. <<>> \in S
    OBVIOUS
  <1>3. turn \in [(1..n) \X S -> S]
    BY PairStepType DEF PairRounds
  <1>4. pairs(a, b) = found[n]
    BY Zenon DEF pairs
  <1>5. \A f : \A i \in 0..n : i # 0 => Round(f, i) = PairStep(a, b, f[i - 1], i)
    BY Zenon DEF PairStep
  <1>6. \A f : Round(f, 0) = <<>>
    BY Zenon
  <1>7. \A i \in 1..n : \A s \in S : turn[<<i, s>>] = PairStep(a, b, s, i)
    BY DEF PairRounds
  <1>8. ASSUME NEW i \in 1..n, NEW s \in S PROVE PairStep(a, b, s, i) \in S
    BY PairStepType
  <1> HIDE DEF n, turn, Round, S
  <1>9. \E f : Is(f)
    <2>1. PICK f : IsLoop(f, n, S, <<>>, turn)
      BY <1>1, <1>2, <1>3, LoopExists
    <2>2. ASSUME NEW i \in 0..n PROVE f[i] = Round(f, i)
      <3>1. CASE i = 0
        BY <3>1, <1>6, <2>1 DEF IsLoop
      <3>2. CASE i # 0
        <4>1. i \in 1..n /\ i - 1 \in 0..n
          BY <1>1, <3>2
        <4>2. f[i - 1] \in S /\ f[i] = turn[<<i, f[i - 1]>>]
          BY <4>1, <2>1 DEF IsLoop
        <4> QED BY <4>1, <4>2, <3>2, <1>5, <1>7
      <3> QED BY <3>1, <3>2
    <2>3. f = [i \in 0..Len(a) |-> Round(f, i)]
      BY <2>1, <2>2 DEF IsLoop, n
    <2> QED BY <2>3, Zenon
  <1>10. Is(found)
    BY <1>9
  <1> HIDE DEF found
  <1>11. found = [i \in 0..n |-> Round(found, i)]
    BY <1>10 DEF n
  <1>12. /\ found[0] = <<>>
         /\ \A i \in 1..n : found[i] = PairStep(a, b, found[i - 1], i)
    <2>1. \A i \in 0..n : found[i] = Round(found, i)
      BY <1>11
    <2>2. 0 \in 0..n /\ \A i \in 1..n : i # 0 /\ i \in 0..n
      BY <1>1
    <2> QED BY <1>5, <1>6, <2>1, <2>2
  <1>13. \A i \in 0..n : found[i] \in S
    <2> DEFINE good == {i \in 0..n : found[i] \in S}
    <2>1. 0 \in good
      BY <1>1, <1>2, <1>12
    <2>2. ASSUME NEW i \in 1..n, i - 1 \in good PROVE i \in good
      <3>1. found[i - 1] \in S /\ i \in 0..n
        BY <2>2, <1>1
      <3> QED BY <3>1, <1>12, <1>8
    <2>3. 0..n \subseteq good
      <3> HIDE DEF good
      <3> QED BY <1>1, <2>1, <2>2, Induction
    <2> QED BY <2>3
  <1>14. found \in [0..n -> S]
    BY <1>11, <1>13
  <1>15. \A i \in 1..n : found[i] = turn[<<i, found[i - 1]>>]
    <2>1. \A i \in 1..n : i - 1 \in 0..n
      BY <1>1
    <2> QED BY <2>1, <1>7, <1>12, <1>13
  <1>16. IsLoop(found, n, S, <<>>, turn)
    BY <1>12, <1>14, <1>15 DEF IsLoop
  <1> QED BY <1>4, <1>16 DEF n, turn, S

LEMMA PairsType ==
  ASSUME NEW a \in Seq(Keypoint), NEW b \in Seq(Keypoint)
  PROVE  pairs(a, b) \in Seq(Matched)
  <1> DEFINE n == Len(a)
             S == Seq(Matched)
  <1>1. n \in 0..n
    OBVIOUS
  <1>2. PICK f : IsLoop(f, n, S, <<>>, PairRounds(a, b)) /\ pairs(a, b) = f[n]
    BY PairsIsLoop
  <1> HIDE DEF n, S
  <1>3. f \in [0..n -> S]
    BY <1>2 DEF IsLoop
  <1> QED BY <1>1, <1>2, <1>3 DEF S

(* If no keypoint is accepted, there is no pair. *)
LEMMA NothingPairs ==
  ASSUME NEW a \in Seq(Keypoint), NEW b \in Seq(Keypoint),
         \A n \in 1..Len(a) : ~accepted(nearest(a[n], b))
  PROVE  pairs(a, b) = <<>>
  <1> DEFINE n == Len(a)
  <1>1. n \in Nat
    OBVIOUS
  <1>2. PICK f : IsLoop(f, n, Seq(Matched), <<>>, PairRounds(a, b)) /\ pairs(a, b) = f[n]
    BY PairsIsLoop
  <1> DEFINE good == {i \in 0..n : f[i] = <<>>}
  <1>3. 0 \in good
    BY <1>1, <1>2 DEF IsLoop
  <1>4. ASSUME NEW i \in 1..n, i - 1 \in good PROVE i \in good
    <2>1. f[i - 1] = <<>> /\ <<>> \in Seq(Matched)
      BY <1>4
    <2>2. f[i] = PairRounds(a, b)[<<i, f[i - 1]>>]
      BY <1>2 DEF IsLoop
    <2>3. f[i] = PairStep(a, b, f[i - 1], i)
      BY <2>1, <2>2 DEF PairRounds
    <2>4. PairStep(a, b, f[i - 1], i) = f[i - 1]
      BY Zenon DEF PairStep
    <2> QED BY <2>1, <2>3, <2>4
  <1>5. 0..n \subseteq good
    <2> HIDE DEF good, n
    <2> QED BY <1>1, <1>3, <1>4, Induction
  <1>6. n \in 0..n
    BY <1>1
  <1> QED BY <1>2, <1>5, <1>6

-----------------------------------------------------------------------------
(* The motion of two pairs.                                                *)

(* The turn of v and z takes z, as long as it is, to the direction of v. *)
TurnFacts(vx, vy, zx, zy) ==
  LET cx == vx * zx + vy * zy
      cy == vy * zx - vx * zy
      mx == zx * cx - zy * cy
      my == zx * cy + zy * cx
      n  == (vx * vx + vy * vy) * (zx * zx + zy * zy)
  IN  cx * cx + cy * cy = n /\ mx * vx + my * vy = n

LEMMA TurnTakesOver ==
  ASSUME NEW vx \in Int, NEW vy \in Int, NEW zx \in Int, NEW zy \in Int
  PROVE  TurnFacts(vx, vy, zx, zy)
  BY DEF TurnFacts

LEMMA LengthsAreNat ==
  ASSUME NEW x \in Int, NEW y \in Int
  PROVE  x * x + y * y \in Nat
  <1>1. x * x \in Nat /\ y * y \in Nat
    OBVIOUS
  <1> QED BY <1>1

(* s <= 2 * sqrt(n) is s * sqrt(n) <= 2 * n. *)
LEMMA WithinTheRoot ==
  ASSUME NEW s \in Int, NEW n \in Nat, s <= 0 \/ s * s <= 4 * n
  PROVE  RootBelow(s, n, 2 * n)
  <1>1. 2 * n \in Nat
    OBVIOUS
  <1>2. CASE s <= 0
    BY <1>1, <1>2 DEF RootBelow
  <1>3. CASE ~(s <= 0)
    <2>1. s * s \in Nat /\ s * s <= 4 * n
      BY <1>3
    <2>2. \A i \in Nat : i <= 4 * n => i * n <= (4 * n) * n
      OBVIOUS
    <2>3. (4 * n) * n = (2 * n) * (2 * n)
      OBVIOUS
    <2>4. Square(s) * n <= Square(2 * n)
      BY <2>1, <2>2, <2>3 DEF Square
    <2>5. s > 0 /\ 2 * n >= 0
      BY <1>1, <1>3
    <2> QED BY <2>4, <2>5 DEF RootBelow
  <1> QED BY <1>2, <1>3

Vectors == [x : Int, y : Int]

LEMMA MinusType ==
  ASSUME NEW k \in Keypoint, NEW l \in Keypoint
  PROVE  Minus(k, l) \in Vectors
  BY DEF Keypoint, Minus, Vectors

(* The comparison of is_inlier, for the two ways from the first pair. *)
Fits(c, z, v) ==
  RootBelow(Length2(z) + Length2(v) - Square(RANSAC_TOL_PX), Length2(c),
            2 * (Turned(z, c).x * v.x + Turned(z, c).y * v.y))

LEMMA InlierFits ==
  ASSUME NEW c, NEW p, NEW r
  PROVE  is_inlier(c, p, r) <=> Fits(c, Minus(r.b, p.b), Minus(r.a, p.a))
  BY Zenon DEF is_inlier, Fits

(* A pair fits its own motion. *)
LEMMA FirstFits ==
  ASSUME NEW c \in Vectors, NEW z \in Vectors, NEW v \in Vectors,
         z.x = 0, z.y = 0, v.x = 0, v.y = 0
  PROVE  Fits(c, z, v)
  <1> DEFINE T == RANSAC_TOL_PX
             m == Turned(z, c)
             s == Length2(z) + Length2(v) - Square(T)
             t == 2 * (m.x * v.x + m.y * v.y)
  <1>1. T \in Nat
    BY FeatureAssumptions
  <1>2. c.x \in Int /\ c.y \in Int
    BY DEF Vectors
  <1>3. m.x = 0 /\ m.y = 0
    BY <1>2 DEF Turned
  <1>4. t = 0
    <2> HIDE DEF m
    <2> QED BY <1>3
  <1>5. s <= 0
    <2>1. Length2(z) = 0 /\ Length2(v) = 0
      BY DEF Length2, Square
    <2>2. Square(T) \in Nat
      BY <1>1 DEF Square
    <2> HIDE DEF T
    <2> QED BY <2>1, <2>2
  <1> HIDE DEF s, t
  <1>6. RootBelow(s, Length2(c), t)
    BY <1>4, <1>5 DEF RootBelow
  <1> QED BY <1>6 DEF Fits, s, t, m, T

(* The pair that gives the angle fits it, since it keeps the distance. *)
LEMMA SecondFits ==
  ASSUME NEW z \in Vectors, NEW v \in Vectors,
         NEW s \in Int, s = Length2(z) + Length2(v) - Square(RANSAC_TOL_PX),
         s <= 0 \/ Square(s) <= 4 * Length2(v) * Length2(z)
  PROVE  Fits(Turn(v, z), z, v)
  <1> DEFINE c == Turn(v, z)
             m == Turned(z, c)
             n == Length2(v) * Length2(z)
  <1>1. v.x \in Int /\ v.y \in Int /\ z.x \in Int /\ z.y \in Int
    BY DEF Vectors
  <1>2. /\ c.x = v.x * z.x + v.y * z.y /\ c.y = v.y * z.x - v.x * z.y
        /\ c.x \in Int /\ c.y \in Int
    BY <1>1 DEF Turn
  <1> HIDE DEF c
  <1>3. /\ m.x = z.x * c.x - z.y * c.y /\ m.y = z.x * c.y + z.y * c.x
        /\ m.x \in Int /\ m.y \in Int
    BY <1>1, <1>2 DEF Turned
  <1> HIDE DEF m
  <1>4. /\ c.x * c.x + c.y * c.y = (v.x * v.x + v.y * v.y) * (z.x * z.x + z.y * z.y)
        /\ m.x * v.x + m.y * v.y = (v.x * v.x + v.y * v.y) * (z.x * z.x + z.y * z.y)
    <2>1. TurnFacts(v.x, v.y, z.x, z.y)
      BY <1>1, TurnTakesOver
    <2> QED BY <2>1, <1>2, <1>3, Zenon DEF TurnFacts
  <1>5. /\ Length2(v) = v.x * v.x + v.y * v.y /\ Length2(z) = z.x * z.x + z.y * z.y
        /\ Length2(c) = c.x * c.x + c.y * c.y
    BY DEF Length2, Square
  <1>6. Length2(v) \in Nat /\ Length2(z) \in Nat
    BY <1>1, <1>5, LengthsAreNat
  <1>7. Length2(c) = n /\ m.x * v.x + m.y * v.y = n
    BY <1>4, <1>5
  <1>8. n \in Nat /\ 4 * Length2(v) * Length2(z) = 4 * n
    BY <1>6
  <1> HIDE DEF n
  <1>9. s <= 0 \/ s * s <= 4 * n
    BY <1>8 DEF Square
  <1>10. RootBelow(s, n, 2 * n)
    BY <1>8, <1>9, WithinTheRoot
  <1> QED BY <1>7, <1>10 DEF Fits, m, c

(* Pairs that keep their distance fit the motion that they define. *)
LEMMA DefiningPairsFit ==
  ASSUME NEW p \in Matched, NEW q \in Matched, keeps_distance(p, q)
  PROVE  is_inlier(motion(p, q), p, p) /\ is_inlier(motion(p, q), p, q)
  <1> DEFINE c == motion(p, q)
             z == Minus(q.b, p.b)
             v == Minus(q.a, p.a)
             s == Length2(z) + Length2(v) - Square(RANSAC_TOL_PX)
  <1>1. p.a \in Keypoint /\ p.b \in Keypoint /\ q.a \in Keypoint /\ q.b \in Keypoint
    BY DEF Matched
  <1>2. z \in Vectors /\ v \in Vectors
    BY <1>1, MinusType
  <1>3. c = Turn(v, z)
    BY DEF motion
  <1>4. /\ Length2(v) + Length2(z) - Square(RANSAC_TOL_PX) <= 0
           \/ Square(Length2(v) + Length2(z) - Square(RANSAC_TOL_PX))
                <= 4 * Length2(v) * Length2(z)
    BY Zenon DEF keeps_distance
  <1> HIDE DEF c, z, v
  <1>5. Length2(z) \in Int /\ Length2(v) \in Int /\ Square(RANSAC_TOL_PX) \in Int
    BY <1>2, FeatureAssumptions DEF Vectors, Length2, Square
  <1>6. s \in Int /\ s = Length2(v) + Length2(z) - Square(RANSAC_TOL_PX)
    BY <1>5
  <1>7. s <= 0 \/ Square(s) <= 4 * Length2(v) * Length2(z)
    BY <1>4, <1>6
  <1>8. Fits(Turn(v, z), z, v)
    <2>1. s = Length2(z) + Length2(v) - Square(RANSAC_TOL_PX)
      OBVIOUS
    <2> HIDE DEF s
    <2> QED BY <1>2, <1>6, <1>7, <2>1, SecondFits
  <1>9. c \in Vectors
    BY <1>2, <1>3 DEF Turn, Vectors
  <1> DEFINE none(k) == Minus(k, k)
  <1>10. ASSUME NEW k \in Keypoint PROVE none(k) \in Vectors /\ none(k).x = 0 /\ none(k).y = 0
    BY DEF Keypoint, Minus, Vectors
  <1> HIDE DEF none
  <1>11. Fits(c, none(p.b), none(p.a))
    BY <1>1, <1>9, <1>10, FirstFits
  <1>12. is_inlier(c, p, p)
    BY <1>11, InlierFits DEF none
  <1>13. is_inlier(c, p, q)
    BY <1>3, <1>8, InlierFits DEF z, v
  <1> QED BY <1>12, <1>13 DEF c

(* So each hypothesis has two pairs at least. *)
LEMMA TwoInliers ==
  ASSUME NEW all \in Seq(Matched), NEW h \in hypotheses(all)
  PROVE  /\ inliers(all, all[h[1]], all[h[2]]) \in 0..Len(all)
         /\ inliers(all, all[h[1]], all[h[2]]) >= 2
  <1> DEFINE p == all[h[1]]
             q == all[h[2]]
             I == {n \in DOMAIN all : is_inlier(motion(p, q), p, all[n])}
             D == 1..Len(all)
  <1>1. Len(all) \in Nat /\ DOMAIN all = D
    OBVIOUS
  <1>2. h[1] \in D /\ h[2] \in D /\ h[1] < h[2] /\ keeps_distance(p, q)
    BY <1>1 DEF hypotheses
  <1>3. p \in Matched /\ q \in Matched
    BY <1>2
  <1>4. is_inlier(motion(p, q), p, p) /\ is_inlier(motion(p, q), p, q)
    <2> HIDE DEF p, q
    <2> QED BY <1>2, <1>3, DefiningPairsFit
  <1>5. h[1] \in I /\ h[2] \in I
    BY <1>1, <1>2, <1>4
  <1>6. I \subseteq D
    BY <1>1
  <1>7. inliers(all, p, q) = Cardinality(I)
    BY DEF inliers
  <1> HIDE DEF I
  <1>8. IsFiniteSet(D) /\ Cardinality(D) = Len(all)
    BY <1>1, FS_Interval
  <1>9. IsFiniteSet(I) /\ Cardinality(I) <= Len(all) /\ Cardinality(I) \in Nat
    BY <1>6, <1>8, FS_Subset, FS_CardinalityType
  <1>10. Cardinality(I) # 0 /\ Cardinality(I) # 1
    <2>1. Cardinality(I) # 0
      BY <1>5, <1>9, FS_EmptySet
    <2>2. Cardinality(I) = 1 => \E x : I = {x}
      BY <1>9, FS_Singleton
    <2>3. h[1] # h[2]
      BY <1>2
    <2>4. \A x : I = {x} => h[1] = x /\ h[2] = x
      BY <1>5
    <2> QED BY <2>1, <2>2, <2>3, <2>4
  <1> QED BY <1>1, <1>7, <1>9, <1>10

LEMMA GreatestOf ==
  ASSUME NEW n \in Nat, NEW S, S \subseteq 0..n, S # {}
  PROVE  Max(S) \in S /\ \A x \in S : x <= Max(S)
  <1>1. \E z \in S : \A y \in S : z >= y
    BY GreatestNat
  <1> QED BY <1>1 DEF Max

-----------------------------------------------------------------------------
FInv ==
  /\ work \in Work
  /\ result # <<>> /\ work.kind = "pair" => result = <<match_pair(work.a, work.b)>>
  /\ result # <<>> /\ work.kind = "frame" =>
       result = <<[box |-> ft9201_box(work.img, work.w, work.h),
                   kp  |-> keypoints(work.img, work.w, work.h)]>>

(* What is computed is computed from the frames at hand. *)
LEMMA FeaturesInvariance == Spec => []FInv
  <1>1. Init => FInv
    BY DEF Init, FInv
  <1>2. FInv /\ [Next]_vars => FInv'
    <2> SUFFICES ASSUME FInv, [Next]_vars PROVE FInv'
      OBVIOUS
    <2>1. CASE ft9201_features_new
      BY <2>1 DEF ft9201_features_new, FInv
    <2>2. CASE ft9201_match_pair
      BY <2>2 DEF ft9201_match_pair, FInv
    <2>3. CASE UNCHANGED vars
      BY <2>3 DEF vars, FInv
    <2> QED BY <2>1, <2>2, <2>3 DEF Next
  <1> QED BY <1>1, <1>2, PTL DEF Spec

LEMMA ScoredFrames ==
  ASSUME FInv, HasScore
  PROVE  /\ work.a \in Seq(Keypoint) /\ work.b \in Seq(Keypoint)
         /\ result[1] = match_pair(work.a, work.b)
  BY WorkAssumption DEF FInv, HasScore

LEMMA SearchedFrames ==
  ASSUME FInv, HasKeypoints
  PROVE  /\ work.w \in Nat \ {0} /\ work.h \in Nat \ {0}
         /\ \A p \in Pixels(work.w, work.h) : work.img[p] \in Int
         /\ result[1].box = ft9201_box(work.img, work.w, work.h)
         /\ result[1].kp = keypoints(work.img, work.w, work.h)
  BY WorkAssumption DEF FInv, HasKeypoints

(* Every motion has at least its two pairs: the turn and the movement that *)
(* are computed from them, in the order of the code, fit them, for all     *)
(* keypoints (ft9201_match_pair).                                          *)
THEOREM MotionsFit == Spec => []EveryMotionFitsItsPairs
  <1>1. FInv => EveryMotionFitsItsPairs
    <2> DEFINE a == work.a
               b == work.b
               all == pairs(a, b)
               H == hypotheses(all)
               sizes == {inliers(all, all[h[1]], all[h[2]]) : h \in H}
               enough == Len(a) >= 4 /\ Len(b) >= 4 /\ Len(all) >= 3
    <2> SUFFICES ASSUME FInv, HasScore, enough, H # {}
                 PROVE  result[1].inliers >= 2
      BY DEF EveryMotionFitsItsPairs
    <2>1. a \in Seq(Keypoint) /\ b \in Seq(Keypoint) /\ result[1] = match_pair(a, b)
      BY ScoredFrames
    <2>2. all \in Seq(Matched)
      BY <2>1, PairsType
    <2>3. result[1].inliers = Max({0} \cup sizes)
      <3>1. ~(Len(a) < 4 \/ Len(b) < 4 \/ Len(all) < 3)
        <4>1. Len(a) \in Nat /\ Len(b) \in Nat /\ Len(all) \in Nat
          BY <2>1, <2>2
        <4> HIDE DEF a, b, all
        <4> QED BY <4>1
      <3>2. match_pair(a, b) =
              [ inliers |-> IF Len(a) < 4 \/ Len(b) < 4 \/ Len(all) < 3 THEN 0
                            ELSE Max({0} \cup sizes),
                of |-> IF Len(a) < Len(b) THEN Len(a) ELSE Len(b) ]
        BY Zenon DEF match_pair
      <3> HIDE DEF a, b, all, sizes
      <3> QED BY <2>1, <3>1, <3>2
    <2> HIDE DEF all, a, b
    <2>4. \A h \in H : inliers(all, all[h[1]], all[h[2]]) \in 0..Len(all)
                       /\ inliers(all, all[h[1]], all[h[2]]) >= 2
      BY <2>2, TwoInliers
    <2> DEFINE S == {0} \cup sizes
    <2>5. PICK s \in sizes : s >= 2
      BY <2>4
    <2>6. Len(all) \in Nat /\ S \subseteq 0..Len(all) /\ s \in S
      BY <2>2, <2>4
    <2> HIDE DEF sizes
    <2>7. Max(S) \in S /\ s <= Max(S)
      <3> HIDE DEF S
      <3> QED BY <2>6, GreatestOf
    <2> HIDE DEF S
    <2>8. Max(S) \in Nat /\ s \in Nat
      <3>1. \A x \in 0..Len(all) : x \in Nat
        BY <2>6
      <3> QED BY <2>6, <2>7, <3>1, Zenon
    <2> QED BY <2>3, <2>5, <2>7, <2>8 DEF S
  <1> QED BY <1>1, FeaturesInvariance, PTL

(* Texture that occurs twice gives no pair, whatever the order of the      *)
(* keypoints and however many there are (ft9201_match_pair).               *)
THEOREM RepeatedTextureIsIgnored == Spec => []RepeatedTextureScoresNothing
  <1>1. FInv => RepeatedTextureScoresNothing
    <2> SUFFICES ASSUME FInv, HasScore,
                        \A n \in DOMAIN work.b : \E m \in DOMAIN work.b :
                          m # n /\ work.b[m].desc = work.b[n].desc
                 PROVE  result[1].inliers = 0
      BY DEF RepeatedTextureScoresNothing
    <2> DEFINE a == work.a
               b == work.b
    <2>1. a \in Seq(Keypoint) /\ b \in Seq(Keypoint) /\ result[1] = match_pair(a, b)
      BY ScoredFrames
    <2>2. \A n \in 1..Len(b) : \E m \in 1..Len(b) : m # n /\ b[m].desc = b[n].desc
      <3>1. DOMAIN b = 1..Len(b)
        BY <2>1
      <3> QED BY <3>1, Zenon
    <2> HIDE DEF a, b
    <2>3. \A n \in 1..Len(a) : ~accepted(nearest(a[n], b))
      <3>1. \A n \in 1..Len(a) : a[n] \in Keypoint
        BY <2>1
      <3> QED BY <2>1, <2>2, <3>1, RepeatedIsRefused
    <2>4. pairs(a, b) = <<>>
      BY <2>1, <2>3, NothingPairs
    <2>5. Len(pairs(a, b)) < 3
      BY <2>4
    <2> QED BY <2>1, <2>5 DEF match_pair
  <1> QED BY <1>1, FeaturesInvariance, PTL

-----------------------------------------------------------------------------
(* A second press, moved and turned by a right angle.                      *)

MovedPair(r)  == [a |-> r.a, b |-> MovedPoint(r.b)]
MovedPairs(s) == [n \in DOMAIN s |-> MovedPair(s[n])]

LEMMA MovedPointType ==
  ASSUME NEW k \in Keypoint
  PROVE  /\ MovedPoint(k) \in Keypoint /\ MovedPoint(k).desc = k.desc
         /\ MovedPoint(k).x = 3 - k.y /\ MovedPoint(k).y = k.x - 2
  <1>1. k = [x |-> k.x, y |-> k.y, desc |-> k.desc] /\ k.x \in Int /\ k.y \in Int
        /\ k.desc \in Int
    BY DEF Keypoint, Descriptor
  <1> QED BY <1>1 DEF MovedPoint, Keypoint

LEMMA MovedFrameType ==
  ASSUME NEW b \in Seq(Keypoint)
  PROVE  /\ MovedFrame(b) \in Seq(Keypoint) /\ Len(MovedFrame(b)) = Len(b)
         /\ \A n \in 1..Len(b) : MovedFrame(b)[n] = MovedPoint(b[n])
  <1>1. \A n \in 1..Len(b) : MovedPoint(b[n]) \in Keypoint
    BY MovedPointType
  <1>2. DOMAIN b = 1..Len(b) /\ Len(b) \in Nat
    OBVIOUS
  <1>3. MovedFrame(b) \in [1..Len(b) -> Keypoint]
    BY <1>1, <1>2 DEF MovedFrame
  <1>4. \A n \in 1..Len(b) : MovedFrame(b)[n] = MovedPoint(b[n])
    BY <1>2 DEF MovedFrame
  <1> QED BY <1>2, <1>3, <1>4

LEMMA MovedPairsType ==
  ASSUME NEW s \in Seq(Matched)
  PROVE  /\ MovedPairs(s) \in Seq(Matched) /\ Len(MovedPairs(s)) = Len(s)
         /\ \A n \in 1..Len(s) : MovedPairs(s)[n] = MovedPair(s[n])
  <1>1. ASSUME NEW n \in 1..Len(s) PROVE MovedPair(s[n]) \in Matched
    <2>1. s[n].a \in Keypoint /\ s[n].b \in Keypoint
      <3>1. s[n] \in Matched
        OBVIOUS
      <3> QED BY <3>1 DEF Matched
    <2> QED BY <2>1, MovedPointType DEF MovedPair, Matched
  <1>2. DOMAIN s = 1..Len(s) /\ Len(s) \in Nat
    OBVIOUS
  <1>3. MovedPairs(s) \in [1..Len(s) -> Matched]
    BY <1>1, <1>2 DEF MovedPairs
  <1>4. \A n \in 1..Len(s) : MovedPairs(s)[n] = MovedPair(s[n])
    BY <1>2 DEF MovedPairs
  <1> QED BY <1>2, <1>3, <1>4

(* Only the descriptors decide which keypoint is the nearest. *)
LEMMA NearestAfterMove ==
  ASSUME NEW k \in Keypoint, NEW b \in Seq(Keypoint)
  PROVE  nearest(k, MovedFrame(b)) = nearest(k, b)
  <1> DEFINE c == MovedFrame(b)
             n == Len(b)
  <1>1. /\ c \in Seq(Keypoint) /\ Len(c) = n /\ n \in Nat
        /\ \A i \in 1..n : ft9201_desc_dist2(k, c[i]) = ft9201_desc_dist2(k, b[i])
    <2>1. \A i \in 1..n : c[i].desc = b[i].desc
      BY MovedFrameType, MovedPointType
    <2> HIDE DEF c
    <2>2. \A i \in 1..n : ft9201_desc_dist2(k, c[i]) = ft9201_desc_dist2(k, b[i])
      BY <2>1 DEF ft9201_desc_dist2
    <2> QED BY <2>2, MovedFrameType DEF c
  <1> HIDE DEF c
  <1>2. \A m \in Ranks : \A i \in 1..n : NearStep(k, c, m, i) = NearStep(k, b, m, i)
    BY <1>1, Zenon DEF NearStep
  <1>3. NearRounds(k, c) = NearRounds(k, b)
    BY <1>1, <1>2 DEF NearRounds
  <1>4. PICK f : IsLoop(f, n, Ranks, FarAway, NearRounds(k, b)) /\ nearest(k, b) = f[n]
    BY NearestIsLoop
  <1>5. PICK g : IsLoop(g, n, Ranks, FarAway, NearRounds(k, b)) /\ nearest(k, c) = g[n]
    BY <1>1, <1>3, NearestIsLoop
  <1> HIDE DEF n
  <1>6. \A i \in 0..n : f[i] = g[i]
    BY <1>1, <1>4, <1>5, LoopUnique
  <1>7. n \in 0..n
    BY <1>1
  <1> QED BY <1>4, <1>5, <1>6, <1>7 DEF c

LEMMA MovedAppend ==
  ASSUME NEW s \in Seq(Matched), NEW r \in Matched
  PROVE  MovedPairs(Append(s, r)) = Append(MovedPairs(s), MovedPair(r))
  <1> DEFINE t == Append(s, r)
             u == Append(MovedPairs(s), MovedPair(r))
             n == Len(s)
  <1>1. t \in Seq(Matched) /\ Len(t) = n + 1 /\ n \in Nat /\ t[n + 1] = r
        /\ \A i \in 1..n : t[i] = s[i]
    OBVIOUS
  <1>2. MovedPairs(s) \in Seq(Matched) /\ Len(MovedPairs(s)) = n
        /\ \A i \in 1..n : MovedPairs(s)[i] = MovedPair(s[i])
    BY MovedPairsType
  <1>3. MovedPair(r) \in Matched
    BY MovedPointType DEF MovedPair, Matched
  <1>4. u \in Seq(Matched) /\ Len(u) = n + 1 /\ u[n + 1] = MovedPair(r)
        /\ \A i \in 1..n : u[i] = MovedPair(s[i])
    BY <1>1, <1>2, <1>3
  <1> HIDE DEF t, u
  <1>5. MovedPairs(t) \in Seq(Matched) /\ Len(MovedPairs(t)) = n + 1
        /\ \A i \in 1..(n + 1) : MovedPairs(t)[i] = MovedPair(t[i])
    BY <1>1, MovedPairsType
  <1>6. \A i \in 1..(n + 1) : MovedPairs(t)[i] = u[i]
    <2>1. \A i \in 1..(n + 1) : i \in 1..n \/ i = n + 1
      BY <1>1
    <2> QED BY <1>1, <1>4, <1>5, <2>1
  <1>7. MovedPairs(t) = u
    BY <1>4, <1>5, <1>6, SeqEqual
  <1> QED BY <1>7 DEF t, u

(* The same keypoints become pairs. *)
LEMMA PairsAfterMove ==
  ASSUME NEW a \in Seq(Keypoint), NEW b \in Seq(Keypoint)
  PROVE  pairs(a, MovedFrame(b)) = MovedPairs(pairs(a, b))
  <1> DEFINE c == MovedFrame(b)
             n == Len(a)
             S == Seq(Matched)
  <1>1. n \in Nat /\ c \in Seq(Keypoint) /\ \A i \in 1..n : a[i] \in Keypoint
    BY MovedFrameType
  <1>2. PICK f : IsLoop(f, n, S, <<>>, PairRounds(a, b)) /\ pairs(a, b) = f[n]
    BY PairsIsLoop
  <1>3. PICK g : IsLoop(g, n, S, <<>>, PairRounds(a, c)) /\ pairs(a, c) = g[n]
    BY <1>1, PairsIsLoop
  <1>4. ASSUME NEW i \in 1..n, NEW s \in S
        PROVE  PairStep(a, c, MovedPairs(s), i) = MovedPairs(PairStep(a, b, s, i))
    <2> DEFINE m == nearest(a[i], b)
    <2>1. nearest(a[i], c) = m
      BY <1>1, NearestAfterMove
    <2>2. CASE accepted(m)
      <3>1. m.j \in 1..Len(b)
        BY <1>1, <2>2, AcceptedIsFound
      <3> DEFINE r == [a |-> a[i], b |-> b[m.j]]
      <3>2. r \in Matched
        BY <1>1, <3>1 DEF Matched
      <3>3. c[m.j] = MovedPoint(b[m.j])
        BY <3>1, MovedFrameType
      <3>4. MovedPair(r) = [a |-> a[i], b |-> c[m.j]]
        BY <3>3 DEF MovedPair
      <3>5. PairStep(a, b, s, i) = Append(s, r)
        BY <2>2, Zenon DEF PairStep
      <3>6. PairStep(a, c, MovedPairs(s), i) = Append(MovedPairs(s), MovedPair(r))
        <4> HIDE DEF c, m, r
        <4> QED BY <2>1, <2>2, <3>4, Zenon DEF PairStep
      <3> HIDE DEF r, c
      <3> QED BY <3>2, <3>5, <3>6, MovedAppend
    <2>3. CASE ~accepted(m)
      <3>1. PairStep(a, b, s, i) = s
        BY <2>3, Zenon DEF PairStep
      <3>2. PairStep(a, c, MovedPairs(s), i) = MovedPairs(s)
        <4> HIDE DEF c, m
        <4> QED BY <2>1, <2>3, Zenon DEF PairStep
      <3> QED BY <3>1, <3>2
    <2> QED BY <2>2, <2>3
  <1> DEFINE good == {i \in 0..n : f[i] \in S /\ g[i] = MovedPairs(f[i])}
  <1>5. 0 \in good
    <2>1. f[0] = <<>> /\ g[0] = <<>> /\ <<>> \in S
      BY <1>2, <1>3 DEF IsLoop
    <2>2. MovedPairs(<<>>) = <<>>
      <3>1. <<>> \in Seq(Matched) /\ Len(<<>>) = 0
        OBVIOUS
      <3>2. MovedPairs(<<>>) \in Seq(Matched) /\ Len(MovedPairs(<<>>)) = 0
        <4>1. \A s \in Seq(Matched) :
                MovedPairs(s) \in Seq(Matched) /\ Len(MovedPairs(s)) = Len(s)
          BY MovedPairsType
        <4> QED BY <3>1, <4>1, Zenon
      <3> HIDE DEF MovedPairs
      <3> QED BY <3>2
    <2>3. 0 \in 0..n
      BY <1>1
    <2> HIDE DEF n, S, c
    <2> QED BY <2>1, <2>2, <2>3, Zenon
  <1>6. ASSUME NEW i \in 1..n, i - 1 \in good PROVE i \in good
    <2>1. f[i - 1] \in S /\ g[i - 1] = MovedPairs(f[i - 1]) /\ g[i - 1] \in S
      BY <1>6, MovedPairsType
    <2>2. f[i] = PairRounds(a, b)[<<i, f[i - 1]>>] /\ g[i] = PairRounds(a, c)[<<i, g[i - 1]>>]
      BY <1>2, <1>3 DEF IsLoop
    <2> HIDE DEF c
    <2>3. f[i] = PairStep(a, b, f[i - 1], i) /\ g[i] = PairStep(a, c, g[i - 1], i)
      BY <2>1, <2>2 DEF PairRounds
    <2>4. f[i] \in S
      BY <2>1, <2>3, PairStepType
    <2>5. g[i] = MovedPairs(f[i])
      BY <2>1, <2>3, <1>4
    <2> QED BY <2>4, <2>5
  <1>7. 0..n \subseteq good
    <2> HIDE DEF good, n
    <2> QED BY <1>1, <1>5, <1>6, Induction
  <1>8. n \in 0..n
    BY <1>1
  <1> QED BY <1>2, <1>3, <1>7, <1>8

(* The distances between keypoints turn by a right angle. *)
Right(z) == [x |-> -z.y, y |-> z.x]
Left(z)  == [x |-> z.y, y |-> -z.x]

LEMMA TurnTypes ==
  ASSUME NEW z \in Vectors, NEW v \in Vectors
  PROVE  /\ Turn(z, v) \in Vectors /\ Turned(z, v) \in Vectors
         /\ Right(z) \in Vectors /\ Left(z) \in Vectors
  <1>1. z.x \in Int /\ z.y \in Int /\ v.x \in Int /\ v.y \in Int
    BY DEF Vectors
  <1>2. \A i, j \in Int : i * j \in Int
    OBVIOUS
  <1> QED BY <1>1, <1>2 DEF Turn, Turned, Right, Left, Vectors

LEMMA MovedMinus ==
  ASSUME NEW k \in Keypoint, NEW l \in Keypoint
  PROVE  Minus(MovedPoint(k), MovedPoint(l)) = Right(Minus(k, l))
  <1>1. k.x \in Int /\ k.y \in Int /\ l.x \in Int /\ l.y \in Int
    BY DEF Keypoint
  <1>2. (3 - k.y) - (3 - l.y) = -(k.y - l.y) /\ (k.x - 2) - (l.x - 2) = k.x - l.x
    BY <1>1
  <1> QED BY <1>2 DEF Minus, MovedPoint, Right

LEMMA SameLength ==
  ASSUME NEW z \in Vectors
  PROVE  Length2(Right(z)) = Length2(z) /\ Length2(Left(z)) = Length2(z)
  <1>1. z.x \in Int /\ z.y \in Int
    BY DEF Vectors
  <1>2. \A i, j \in Int : (-j) * (-j) + i * i = i * i + j * j
                          /\ j * j + (-i) * (-i) = i * i + j * j
    OBVIOUS
  <1> QED BY <1>1, <1>2 DEF Length2, Square, Right, Left

LEMMA SameTurn ==
  ASSUME NEW z \in Vectors, NEW v \in Vectors, NEW c \in Vectors
  PROVE  /\ Turn(v, Right(z)) = Left(Turn(v, z))
         /\ Turned(Right(z), Left(c)) = Turned(z, c)
  <1>1. /\ z.x \in Int /\ z.y \in Int /\ v.x \in Int /\ v.y \in Int
        /\ c.x \in Int /\ c.y \in Int
    BY DEF Vectors
  <1>2. Turn(v, Right(z)) = Left(Turn(v, z))
    <2>1. \A a, b, i, j \in Int :
            a * (-j) + b * i = b * i - a * j /\ b * (-j) - a * i = -(a * i + b * j)
      OBVIOUS
    <2>2. /\ v.x * (-z.y) + v.y * z.x = v.y * z.x - v.x * z.y
          /\ v.y * (-z.y) - v.x * z.x = -(v.x * z.x + v.y * z.y)
      BY <1>1, <2>1
    <2> QED BY <2>2 DEF Turn, Right, Left
  <1>3. Turned(Right(z), Left(c)) = Turned(z, c)
    <2>1. \A a, b, i, j \in Int :
            (-j) * b - i * (-a) = i * a - j * b /\ (-j) * (-a) + i * b = i * b + j * a
      OBVIOUS
    <2>2. /\ (-z.y) * c.y - z.x * (-c.x) = z.x * c.x - z.y * c.y
          /\ (-z.y) * (-c.x) + z.x * c.y = z.x * c.y + z.y * c.x
      BY <1>1, <2>1
    <2> QED BY <2>2 DEF Turned, Right, Left
  <1> QED BY <1>2, <1>3

(* The same two pairs define a motion, and it is the old one turned back. *)
LEMMA MotionAfterMove ==
  ASSUME NEW p \in Matched, NEW q \in Matched
  PROVE  /\ keeps_distance(MovedPair(p), MovedPair(q)) <=> keeps_distance(p, q)
         /\ motion(MovedPair(p), MovedPair(q)) = Left(motion(p, q))
         /\ motion(p, q) \in Vectors
  <1> DEFINE v == Minus(q.a, p.a)
             z == Minus(q.b, p.b)
  <1>1. /\ p.a \in Keypoint /\ p.b \in Keypoint /\ q.a \in Keypoint /\ q.b \in Keypoint
    BY DEF Matched
  <1>2. v \in Vectors /\ z \in Vectors
    BY <1>1, MinusType
  <1>3. /\ Minus(MovedPair(q).a, MovedPair(p).a) = v
        /\ Minus(MovedPair(q).b, MovedPair(p).b) = Right(z)
    BY <1>1, MovedMinus DEF MovedPair
  <1> HIDE DEF v, z
  <1>4. Length2(Right(z)) = Length2(z)
    BY <1>2, SameLength
  <1>5. Turn(v, Right(z)) = Left(Turn(v, z)) /\ Turn(v, z) \in Vectors
    BY <1>2, SameTurn, TurnTypes
  <1>6. keeps_distance(MovedPair(p), MovedPair(q)) <=> keeps_distance(p, q)
    BY <1>3, <1>4, Zenon DEF keeps_distance, v, z
  <1>7. motion(MovedPair(p), MovedPair(q)) = Left(motion(p, q)) /\ motion(p, q) \in Vectors
    BY <1>3, <1>5, Zenon DEF motion, v, z
  <1> QED BY <1>6, <1>7

(* And the same pairs confirm it. *)
LEMMA InlierAfterMove ==
  ASSUME NEW c \in Vectors, NEW p \in Matched, NEW r \in Matched
  PROVE  is_inlier(Left(c), MovedPair(p), MovedPair(r)) <=> is_inlier(c, p, r)
  <1> DEFINE v == Minus(r.a, p.a)
             z == Minus(r.b, p.b)
  <1>1. /\ p.a \in Keypoint /\ p.b \in Keypoint /\ r.a \in Keypoint /\ r.b \in Keypoint
    BY DEF Matched
  <1>2. v \in Vectors /\ z \in Vectors
    BY <1>1, MinusType
  <1>3. /\ Minus(MovedPair(r).a, MovedPair(p).a) = v
        /\ Minus(MovedPair(r).b, MovedPair(p).b) = Right(z)
    BY <1>1, MovedMinus DEF MovedPair
  <1> HIDE DEF v, z
  <1>4. Length2(Right(z)) = Length2(z) /\ Length2(Left(c)) = Length2(c)
    BY <1>2, SameLength
  <1>5. Turned(Right(z), Left(c)) = Turned(z, c)
    BY <1>2, SameTurn
  <1> QED BY <1>3, <1>4, <1>5, Zenon DEF is_inlier, v, z

LEMMA InliersAfterMove ==
  ASSUME NEW all \in Seq(Matched), NEW i \in 1..Len(all), NEW j \in 1..Len(all)
  PROVE  inliers(MovedPairs(all), MovedPairs(all)[i], MovedPairs(all)[j])
           = inliers(all, all[i], all[j])
  <1> DEFINE m == MovedPairs(all)
             D == 1..Len(all)
             c == motion(all[i], all[j])
  <1>1. /\ DOMAIN all = D /\ DOMAIN m = D
        /\ \A n \in D : all[n] \in Matched /\ m[n] = MovedPair(all[n])
    <2>1. m \in Seq(Matched) /\ Len(m) = Len(all)
      BY MovedPairsType
    <2> HIDE DEF m
    <2>2. DOMAIN m = D
      BY <2>1
    <2> QED BY <2>2, MovedPairsType DEF m
  <1>2. motion(m[i], m[j]) = Left(c) /\ c \in Vectors
    <2> HIDE DEF m
    <2> QED BY <1>1, MotionAfterMove
  <1> HIDE DEF c, m
  <1>3. \A n \in D : is_inlier(Left(c), m[i], m[n]) <=> is_inlier(c, all[i], all[n])
    BY <1>1, <1>2, InlierAfterMove
  <1> HIDE DEF D
  <1>4. {n \in DOMAIN m : is_inlier(motion(m[i], m[j]), m[i], m[n])}
          = {n \in DOMAIN all : is_inlier(c, all[i], all[n])}
    BY <1>1, <1>2, <1>3
  <1> QED BY <1>4, Zenon DEF inliers, m, c

LEMMA HypothesesAfterMove ==
  ASSUME NEW all \in Seq(Matched)
  PROVE  hypotheses(MovedPairs(all)) = hypotheses(all)
  <1> DEFINE m == MovedPairs(all)
             D == 1..Len(all)
  <1>1. /\ DOMAIN all = D /\ DOMAIN m = D
        /\ \A n \in D : all[n] \in Matched /\ m[n] = MovedPair(all[n])
    <2>1. m \in Seq(Matched) /\ Len(m) = Len(all)
      BY MovedPairsType
    <2> HIDE DEF m
    <2>2. DOMAIN m = D
      BY <2>1
    <2> QED BY <2>2, MovedPairsType DEF m
  <1> HIDE DEF m
  <1>2. \A i, j \in D : keeps_distance(m[i], m[j]) <=> keeps_distance(all[i], all[j])
    BY <1>1, MotionAfterMove
  <1>3. \A h \in D \X D : h[1] \in D /\ h[2] \in D
    OBVIOUS
  <1> HIDE DEF D
  <1>4. \A h \in D \X D :
          keeps_distance(m[h[1]], m[h[2]]) <=> keeps_distance(all[h[1]], all[h[2]])
    BY <1>2, <1>3, Zenon
  <1>5. hypotheses(m) = hypotheses(all)
    BY <1>1, <1>4 DEF hypotheses
  <1> QED BY <1>5 DEF m

(* A second press of the same skin, moved and turned by a right angle, has *)
(* the score of the first: the pairs come from the descriptors, and        *)
(* distances and turns are all that is measured (ft9201_match_pair).       *)
THEOREM ScoreIsOfTheSkin == Spec => []ScoreSurvivesMotion
  <1>1. FInv => ScoreSurvivesMotion
    <2> DEFINE a == work.a
               b == work.b
               c == MovedFrame(b)
               all == pairs(a, b)
               m == MovedPairs(all)
               Sizes(s) == {inliers(s, s[h[1]], s[h[2]]) : h \in hypotheses(s)}
    <2> SUFFICES ASSUME FInv, HasScore PROVE match_pair(a, c) = result[1]
      BY DEF ScoreSurvivesMotion
    <2>1. a \in Seq(Keypoint) /\ b \in Seq(Keypoint) /\ result[1] = match_pair(a, b)
      BY ScoredFrames
    <2> HIDE DEF a, b
    <2>2. all \in Seq(Matched)
      BY <2>1, PairsType
    <2>3. pairs(a, c) = m
      BY <2>1, PairsAfterMove
    <2>4. Len(c) = Len(b) /\ Len(m) = Len(all)
      BY <2>1, <2>2, MovedFrameType, MovedPairsType
    <2> HIDE DEF c, all
    <2>5. hypotheses(m) = hypotheses(all)
      BY <2>2, HypothesesAfterMove
    <2>6. \A h \in hypotheses(all) :
            inliers(m, m[h[1]], m[h[2]]) = inliers(all, all[h[1]], all[h[2]])
      <3>1. \A h \in hypotheses(all) : h[1] \in 1..Len(all) /\ h[2] \in 1..Len(all)
        BY <2>2 DEF hypotheses
      <3> QED BY <2>2, <3>1, InliersAfterMove
    <2> HIDE DEF m
    <2>7. Sizes(m) = Sizes(all)
      BY <2>5, <2>6
    <2>8. match_pair(a, c) = match_pair(a, b)
      BY <2>3, <2>4, <2>7, Zenon DEF match_pair, all
    <2> QED BY <2>1, <2>8
  <1> QED BY <1>1, FeaturesInvariance, PTL

-----------------------------------------------------------------------------
(* Sums.                                                                   *)

(* f[i] is the sum of the first i numbers of s. *)
IsSums(f, s, n) ==
  /\ f \in [0..n -> Int]
  /\ f[0] = 0
  /\ \A i \in 1..n : f[i] = f[i - 1] + s[i]

LEMMA SumsUnique ==
  ASSUME NEW n \in Nat, NEW s, NEW f, NEW g, IsSums(f, s, n), IsSums(g, s, n)
  PROVE  \A i \in 0..n : f[i] = g[i]
  <1> DEFINE same == {i \in 0..n : f[i] = g[i]}
  <1>1. 0 \in same
    BY DEF IsSums
  <1>2. ASSUME NEW i \in 1..n, i - 1 \in same PROVE i \in same
    BY <1>2 DEF IsSums
  <1>3. 0..n \subseteq same
    <2> HIDE DEF same
    <2> QED BY <1>1, <1>2, Induction
  <1> QED BY <1>3

(* The loop of Total has the sums. *)
LEMMA TotalIsLast ==
  ASSUME NEW n \in Nat, NEW s, \A i \in 1..n : s[i] \in Int
  PROVE  \E f : IsSums(f, s, n) /\ Total(s, n) = f[n]
  <1> DEFINE Round(f, i) == IF i = 0 THEN 0 ELSE f[i - 1] + s[i]
             Is(f) == f = [i \in 0..n |-> Round(f, i)]
             sum == CHOOSE f : Is(f)
             turn == [q \in (1..n) \X Int |-> q[2] + s[q[1]]]
  <1>1. Total(s, n) = sum[n]
    BY Zenon DEF Total
  <1>2. turn \in [(1..n) \X Int -> Int]
    OBVIOUS
  <1>3. \A i \in 1..n : \A v \in Int : turn[<<i, v>>] = v + s[i]
    OBVIOUS
  <1>4. \A f : Round(f, 0) = 0
    BY Zenon
  <1>5. \A f : \A i \in 1..n : Round(f, i) = f[i - 1] + s[i]
    <2>1. \A i \in 1..n : i # 0
      OBVIOUS
    <2> QED BY <2>1, Zenon
  <1> HIDE DEF turn, Round
  <1>6. \E f : Is(f)
    <2>1. PICK f : IsLoop(f, n, Int, 0, turn)
      <3>1. 0 \in Int
        OBVIOUS
      <3> QED BY <1>2, <3>1, LoopExists, Zenon
    <2>2. ASSUME NEW i \in 0..n PROVE f[i] = Round(f, i)
      <3>1. CASE i = 0
        BY <3>1, <1>4, <2>1 DEF IsLoop
      <3>2. CASE i # 0
        <4>1. i \in 1..n /\ i - 1 \in 0..n
          BY <3>2
        <4>2. f[i - 1] \in Int /\ f[i] = turn[<<i, f[i - 1]>>]
          BY <4>1, <2>1 DEF IsLoop
        <4> QED BY <4>1, <4>2, <1>3, <1>5
      <3> QED BY <3>1, <3>2
    <2>3. f = [i \in 0..n |-> Round(f, i)]
      BY <2>1, <2>2 DEF IsLoop
    <2> QED BY <2>3, Zenon
  <1>7. Is(sum)
    BY <1>6
  <1> HIDE DEF sum
  <1>8. \A i \in 0..n : sum[i] = Round(sum, i)
    BY <1>7
  <1>9. sum[0] = 0 /\ \A i \in 1..n : sum[i] = sum[i - 1] + s[i]
    <2>1. 0 \in 0..n /\ \A i \in 1..n : i \in 0..n
      OBVIOUS
    <2> QED BY <2>1, <1>4, <1>5, <1>8
  <1> DEFINE good == {i \in 0..n : sum[i] \in Int}
  <1>10. 0..n \subseteq good
    <2>1. 0 \in good
      BY <1>9
    <2>2. ASSUME NEW i \in 1..n, i - 1 \in good PROVE i \in good
      BY <2>2, <1>9
    <2> HIDE DEF good
    <2> QED BY <2>1, <2>2, Induction
  <1>11. sum \in [0..n -> Int]
    <2>1. sum = [i \in 0..n |-> Round(sum, i)]
      BY <1>7, Zenon
    <2>2. \A i \in 0..n : Round(sum, i) \in Int
      BY <1>8, <1>10
    <2> QED BY <2>1, <2>2
  <1>12. IsSums(sum, s, n)
    BY <1>9, <1>11 DEF IsSums
  <1> QED BY <1>1, <1>12, Zenon

(* What has the equations of the sums ends with the total. *)
LEMMA SumsEndWithTotal ==
  ASSUME NEW n \in Nat, NEW s, NEW f, \A i \in 1..n : s[i] \in Int, IsSums(f, s, n)
  PROVE  Total(s, n) = f[n]
  <1>1. PICK g : IsSums(g, s, n) /\ Total(s, n) = g[n]
    BY TotalIsLast
  <1>2. f[n] = g[n]
    BY <1>1, SumsUnique
  <1> QED BY <1>1, <1>2

LEMMA TotalSteps ==
  ASSUME NEW n \in Nat, NEW s, \A i \in 1..n : s[i] \in Int
  PROVE  /\ \A i \in 0..n : Total(s, i) \in Int
         /\ Total(s, 0) = 0
         /\ \A i \in 1..n : Total(s, i) = Total(s, i - 1) + s[i]
  <1>1. PICK f : IsSums(f, s, n)
    BY TotalIsLast
  <1>2. ASSUME NEW i \in 0..n PROVE Total(s, i) = f[i]
    <2> DEFINE g == [j \in 0..i |-> f[j]]
    <2>1. IsSums(g, s, i)
      BY <1>1 DEF IsSums
    <2>2. i \in Nat /\ \A j \in 1..i : s[j] \in Int
      OBVIOUS
    <2>3. g[i] = f[i]
      OBVIOUS
    <2> HIDE DEF g
    <2> QED BY <2>1, <2>2, <2>3, SumsEndWithTotal
  <1> QED BY <1>1, <1>2 DEF IsSums

LEMMA SumOfSame ==
  ASSUME NEW n \in Nat, NEW s, NEW t,
         \A i \in 1..n : s[i] \in Int /\ t[i] = s[i]
  PROVE  Total(t, n) = Total(s, n)
  <1>1. PICK f : IsSums(f, s, n) /\ Total(s, n) = f[n]
    BY TotalIsLast
  <1>2. IsSums(f, t, n)
    BY <1>1 DEF IsSums
  <1> QED BY <1>1, <1>2, SumsEndWithTotal

LEMMA SumOfNothing ==
  ASSUME NEW n \in Nat, NEW s, \A i \in 1..n : s[i] = 0
  PROVE  Total(s, n) = 0
  <1> DEFINE f == [i \in 0..n |-> 0]
  <1>1. IsSums(f, s, n)
    BY DEF IsSums
  <1>2. f[n] = 0
    OBVIOUS
  <1> HIDE DEF f
  <1> QED BY <1>1, <1>2, SumsEndWithTotal

LEMMA SumOfSums ==
  ASSUME NEW n \in Nat, NEW s, NEW t, NEW u,
         \A i \in 1..n : s[i] \in Int /\ t[i] \in Int /\ u[i] = s[i] + t[i]
  PROVE  Total(u, n) = Total(s, n) + Total(t, n)
  <1> DEFINE f == [i \in 0..n |-> Total(s, i) + Total(t, i)]
  <1>1. IsSums(f, u, n)
    <2>1. /\ \A i \in 0..n : Total(s, i) \in Int /\ Total(t, i) \in Int
          /\ Total(s, 0) = 0 /\ Total(t, 0) = 0
          /\ \A i \in 1..n : /\ Total(s, i) = Total(s, i - 1) + s[i]
                             /\ Total(t, i) = Total(t, i - 1) + t[i]
      BY TotalSteps
    <2>2. f \in [0..n -> Int] /\ f[0] = 0
      BY <2>1
    <2>3. ASSUME NEW i \in 1..n PROVE f[i] = f[i - 1] + u[i]
      <3>1. i \in 0..n /\ i - 1 \in 0..n
        OBVIOUS
      <3>2. f[i] = Total(s, i) + Total(t, i) /\ f[i - 1] = Total(s, i - 1) + Total(t, i - 1)
        BY <3>1
      <3> HIDE DEF f
      <3> QED BY <2>1, <3>1, <3>2
    <2> QED BY <2>2, <2>3 DEF IsSums
  <1>2. f[n] = Total(s, n) + Total(t, n)
    OBVIOUS
  <1> HIDE DEF f
  <1> QED BY <1>1, <1>2, SumsEndWithTotal

LEMMA SumOfMultiples ==
  ASSUME NEW n \in Nat, NEW c \in Int, NEW s, NEW t,
         \A i \in 1..n : s[i] \in Int /\ t[i] = c * s[i]
  PROVE  Total(t, n) = c * Total(s, n)
  <1> DEFINE f == [i \in 0..n |-> c * Total(s, i)]
  <1>1. IsSums(f, t, n)
    <2>1. /\ \A i \in 0..n : Total(s, i) \in Int
          /\ Total(s, 0) = 0
          /\ \A i \in 1..n : Total(s, i) = Total(s, i - 1) + s[i]
      BY TotalSteps
    <2>2. \A x, y \in Int : c * (x + y) = c * x + c * y /\ c * x \in Int /\ c * 0 = 0
      OBVIOUS
    <2>3. f \in [0..n -> Int] /\ f[0] = 0
      BY <2>1, <2>2
    <2>4. ASSUME NEW i \in 1..n PROVE f[i] = f[i - 1] + t[i]
      <3>1. i \in 0..n /\ i - 1 \in 0..n
        OBVIOUS
      <3>2. f[i] = c * Total(s, i) /\ f[i - 1] = c * Total(s, i - 1)
        BY <3>1
      <3> QED BY <2>1, <2>2, <3>1, <3>2
    <2> QED BY <2>3, <2>4 DEF IsSums
  <1>2. f[n] = c * Total(s, n)
    OBVIOUS
  <1> HIDE DEF f
  <1> QED BY <1>1, <1>2, SumsEndWithTotal

(* The other way round. *)
LEMMA SumOfReverse ==
  ASSUME NEW n \in Nat, NEW s, NEW t,
         \A i \in 1..n : s[i] \in Int /\ t[i] = s[n + 1 - i]
  PROVE  Total(t, n) = Total(s, n)
  <1> DEFINE f == [i \in 0..n |-> Total(s, n) - Total(s, n - i)]
  <1>1. /\ \A i \in 0..n : Total(s, i) \in Int
        /\ Total(s, 0) = 0
        /\ \A i \in 1..n : Total(s, i) = Total(s, i - 1) + s[i]
    BY TotalSteps
  <1>2. IsSums(f, t, n)
    <2>1. ASSUME NEW i \in 1..n PROVE f[i] = f[i - 1] + t[i]
      <3>1. n + 1 - i \in 1..n /\ i \in 0..n /\ i - 1 \in 0..n
            /\ n - (i - 1) = n + 1 - i /\ (n + 1 - i) - 1 = n - i
            /\ n - i \in 0..n /\ n + 1 - i \in 0..n
        OBVIOUS
      <3>2. Total(s, n + 1 - i) = Total(s, n - i) + s[n + 1 - i]
        BY <1>1, <3>1
      <3>3. f[i] = Total(s, n) - Total(s, n - i) /\ f[i - 1] = Total(s, n) - Total(s, n + 1 - i)
        BY <3>1
      <3> HIDE DEF f
      <3>4. s[n + 1 - i] \in Int /\ t[i] = s[n + 1 - i]
        BY <3>1
      <3> QED BY <1>1, <3>1, <3>2, <3>3, <3>4
    <2>2. f \in [0..n -> Int] /\ f[0] = 0
      BY <1>1
    <2> QED BY <2>1, <2>2 DEF IsSums
  <1>3. f[n] = Total(s, n)
    BY <1>1
  <1>4. \A i \in 1..n : t[i] \in Int
    OBVIOUS
  <1> HIDE DEF f
  <1> QED BY <1>2, <1>3, <1>4, SumsEndWithTotal

(* A window that moves by one: one number enters, one leaves. *)
LEMMA SumOfNext ==
  ASSUME NEW n \in Nat, NEW s, NEW t,
         \A i \in 1..(n + 1) : s[i] \in Int,
         \A i \in 1..n : t[i] = s[i + 1]
  PROVE  Total(t, n) = Total(s, n) + s[n + 1] - s[1]
  <1> DEFINE f == [i \in 0..n |-> Total(s, i) + s[i + 1] - s[1]]
  <1>1. /\ \A i \in 0..n : Total(s, i) \in Int
        /\ Total(s, 0) = 0
        /\ \A i \in 1..n : Total(s, i) = Total(s, i - 1) + s[i]
    <2>1. \A i \in 1..n : s[i] \in Int
      OBVIOUS
    <2> QED BY <2>1, TotalSteps
  <1>2. IsSums(f, t, n)
    <2>1. ASSUME NEW i \in 1..n PROVE f[i] = f[i - 1] + t[i]
      <3>1. i \in 0..n /\ i - 1 \in 0..n /\ (i - 1) + 1 = i
            /\ s[1] \in Int /\ s[i] \in Int /\ s[i + 1] \in Int
        OBVIOUS
      <3>2. f[i] = Total(s, i) + s[i + 1] - s[1] /\ f[i - 1] = Total(s, i - 1) + s[i] - s[1]
        BY <3>1
      <3> HIDE DEF f
      <3> QED BY <1>1, <3>1, <3>2
    <2>2. f \in [0..n -> Int] /\ f[0] = 0
      BY <1>1
    <2> QED BY <2>1, <2>2 DEF IsSums
  <1>3. f[n] = Total(s, n) + s[n + 1] - s[1]
    OBVIOUS
  <1>4. \A i \in 1..n : t[i] \in Int
    OBVIOUS
  <1> HIDE DEF f
  <1> QED BY <1>2, <1>3, <1>4, SumsEndWithTotal

(* A table summed line by line has the sum of the table summed column by   *)
(* column.                                                                 *)
LEMMA SumOfTable ==
  ASSUME NEW n \in Nat, NEW m \in Nat, NEW a, \A i \in 1..n, j \in 1..m : a[<<i, j>>] \in Int
  PROVE  Total([i \in 1..n |-> Total([j \in 1..m |-> a[<<i, j>>]], m)], n)
           = Total([j \in 1..m |-> Total([i \in 1..n |-> a[<<i, j>>]], n)], m)
  <1> DEFINE Row(i) == [j \in 1..m |-> a[<<i, j>>]]
             Column(j) == [i \in 1..n |-> a[<<i, j>>]]
             Upto(i) == [j \in 1..m |-> Total(Column(j), i)]
             f == [i \in 0..n |-> Total(Upto(i), m)]
             rows == [i \in 1..n |-> Total(Row(i), m)]
  <1>1. ASSUME NEW i \in 1..n
        PROVE  Total(Row(i), m) \in Int /\ \A j \in 1..m : Row(i)[j] = a[<<i, j>>]
    <2>1. \A j \in 1..m : Row(i)[j] = a[<<i, j>>] /\ Row(i)[j] \in Int
      OBVIOUS
    <2>2. m \in 0..m
      OBVIOUS
    <2> HIDE DEF Row
    <2> QED BY <2>1, <2>2, TotalSteps
  <1>2. ASSUME NEW j \in 1..m
        PROVE  /\ \A i \in 0..n : Total(Column(j), i) \in Int
               /\ Total(Column(j), 0) = 0
               /\ \A i \in 1..n : Total(Column(j), i) = Total(Column(j), i - 1) + a[<<i, j>>]
    <2>1. \A i \in 1..n : Column(j)[i] = a[<<i, j>>] /\ Column(j)[i] \in Int
      OBVIOUS
    <2> HIDE DEF Column
    <2>2. /\ \A i \in 0..n : Total(Column(j), i) \in Int
          /\ Total(Column(j), 0) = 0
          /\ \A i \in 1..n : Total(Column(j), i) = Total(Column(j), i - 1) + Column(j)[i]
      <3>1. \A i \in 1..n : Column(j)[i] \in Int
        BY <2>1
      <3> QED BY <3>1, TotalSteps, Zenon
    <2>3. \A i \in 1..n : Total(Column(j), i) = Total(Column(j), i - 1) + a[<<i, j>>]
      BY <2>1, <2>2, Zenon
    <2> QED BY <2>2, <2>3, Zenon
  <1> HIDE DEF Column, Row
  <1>3. \A i \in 0..n : \A j \in 1..m : Upto(i)[j] = Total(Column(j), i)
    OBVIOUS
  <1> HIDE DEF Upto
  <1>4. \A i \in 0..n : Total(Upto(i), m) \in Int
    <2>1. ASSUME NEW i \in 0..n PROVE Total(Upto(i), m) \in Int
      <3>1. \A j \in 1..m : Upto(i)[j] \in Int
        BY <1>2, <1>3
      <3>2. m \in 0..m
        OBVIOUS
      <3> QED BY <3>1, <3>2, TotalSteps
    <2> QED BY <2>1
  <1>5. Total(Upto(0), m) = 0
    <2>1. \A j \in 1..m : Upto(0)[j] = 0
      BY <1>2, <1>3
    <2> QED BY <2>1, SumOfNothing
  <1>6. ASSUME NEW i \in 1..n
        PROVE  Total(Upto(i), m) = Total(Upto(i - 1), m) + Total(Row(i), m)
    <2>1. i \in 0..n /\ i - 1 \in 0..n
      OBVIOUS
    <2>2. \A j \in 1..m : /\ Upto(i - 1)[j] \in Int /\ Row(i)[j] \in Int
                          /\ Upto(i)[j] = Upto(i - 1)[j] + Row(i)[j]
      <3> SUFFICES ASSUME NEW j \in 1..m
                   PROVE  /\ Upto(i - 1)[j] \in Int /\ Row(i)[j] \in Int
                          /\ Upto(i)[j] = Upto(i - 1)[j] + Row(i)[j]
        OBVIOUS
      <3>1. Upto(i)[j] = Total(Column(j), i) /\ Upto(i - 1)[j] = Total(Column(j), i - 1)
        BY <2>1, <1>3, Zenon
      <3>2. Total(Column(j), i) = Total(Column(j), i - 1) + a[<<i, j>>]
            /\ Total(Column(j), i - 1) \in Int
        BY <2>1, <1>2, Zenon
      <3>3. Row(i)[j] = a[<<i, j>>] /\ a[<<i, j>>] \in Int
        BY <1>1, Zenon
      <3> QED BY <3>1, <3>2, <3>3, Zenon
    <2> QED BY <2>2, SumOfSums
  <1>7. IsSums(f, rows, n)
    <2>1. \A i \in 1..n : rows[i] = Total(Row(i), m)
      OBVIOUS
    <2>2. f \in [0..n -> Int] /\ f[0] = 0 /\ \A i \in 0..n : f[i] = Total(Upto(i), m)
      BY <1>4, <1>5
    <2>3. \A i \in 1..n : i \in 0..n /\ i - 1 \in 0..n
      OBVIOUS
    <2> HIDE DEF f, rows
    <2> QED BY <1>6, <2>1, <2>2, <2>3 DEF IsSums
  <1>8. \A i \in 1..n : rows[i] \in Int
    BY <1>1
  <1>9. f[n] = Total(Upto(n), m)
    OBVIOUS
  <1>10. Total(rows, n) = Total(Upto(n), m)
    <2> HIDE DEF f, rows
    <2> QED BY <1>7, <1>8, <1>9, SumsEndWithTotal
  <1> QED BY <1>10, Zenon DEF rows, Row, Upto, Column

-----------------------------------------------------------------------------
(* The local mean.                                                         *)

Clamped(line, n, v) == line[CLAMP(v, 0, n - 1)]

LEMMA ClampType ==
  ASSUME NEW n \in Nat \ {0}, NEW v \in Int
  PROVE  /\ CLAMP(v, 0, n - 1) \in 0..(n - 1)
         /\ v \in 0..(n - 1) => CLAMP(v, 0, n - 1) = v
  BY DEF CLAMP

LEMMA HeldType ==
  ASSUME NEW n \in Nat \ {0}, NEW r \in Nat, NEW x \in Int, NEW line,
         \A i \in 0..(n - 1) : line[i] \in Int
  PROVE  \A i \in 1..(2 * r + 1) : /\ Held(line, n, x, r)[i] = Clamped(line, n, x - r + i - 1)
                                   /\ Held(line, n, x, r)[i] \in Int
  <1>1. \A i \in 1..(2 * r + 1) : x - r + i - 1 \in Int
    OBVIOUS
  <1>2. \A i \in 1..(2 * r + 1) :
          Held(line, n, x, r)[i] = Clamped(line, n, x - r + i - 1)
    BY DEF Held, Clamped
  <1>3. \A v \in Int : Clamped(line, n, v) \in Int
    BY ClampType DEF Clamped
  <1> QED BY <1>1, <1>2, <1>3

WindowSum(line, n, x) == Total(Held(line, n, x, BoxRadius), 2 * BoxRadius + 1)

(* When the window moves on, one value enters and one leaves. *)
LEMMA WindowMoves ==
  ASSUME NEW n \in Nat \ {0}, NEW x \in Int, NEW line,
         \A i \in 0..(n - 1) : line[i] \in Int
  PROVE  WindowSum(line, n, x) = WindowSum(line, n, x - 1)
                                   + Clamped(line, n, x + BoxRadius)
                                   - Clamped(line, n, x - 1 - BoxRadius)
  <1> DEFINE r == BoxRadius
             size == 2 * r + 1
             both == [i \in 1..(size + 1) |-> Clamped(line, n, x - 1 - r + i - 1)]
             old == Held(line, n, x - 1, r)
             new == Held(line, n, x, r)
  <1>1. r \in Nat /\ size \in Nat
    BY FeatureAssumptions
  <1>2. \A v \in Int : Clamped(line, n, v) \in Int
    BY ClampType DEF Clamped
  <1>3. /\ \A i \in 1..(size + 1) : both[i] \in Int
        /\ both[1] = Clamped(line, n, x - 1 - r)
        /\ both[size + 1] = Clamped(line, n, x + r)
    <2>1. \A i \in 1..(size + 1) : x - 1 - r + i - 1 \in Int
      BY <1>1
    <2>2. \A i \in 1..(size + 1) : both[i] = Clamped(line, n, x - 1 - r + i - 1)
      OBVIOUS
    <2>3. 1 \in 1..(size + 1) /\ size + 1 \in 1..(size + 1)
          /\ x - 1 - r + 1 - 1 = x - 1 - r /\ x - 1 - r + (size + 1) - 1 = x + r
      BY <1>1
    <2> HIDE DEF both, size
    <2>4. \A i \in 1..(size + 1) : both[i] \in Int
      BY <1>2, <2>1, <2>2
    <2> QED BY <2>2, <2>3, <2>4
  <1>4. \A i \in 1..size : old[i] \in Int /\ both[i] = old[i]
    <2>1. x - 1 \in Int
      OBVIOUS
    <2>2. \A i \in 1..size : old[i] = Clamped(line, n, x - 1 - r + i - 1) /\ old[i] \in Int
      BY <1>1, <2>1, HeldType
    <2>3. \A i \in 1..size : i \in 1..(size + 1)
      BY <1>1
    <2> HIDE DEF old, size
    <2> QED BY <2>2, <2>3
  <1>5. \A i \in 1..size : new[i] = both[i + 1]
    <2>1. \A i \in 1..size : new[i] = Clamped(line, n, x - r + i - 1)
      BY <1>1, HeldType
    <2>2. \A i \in 1..size : /\ i + 1 \in 1..(size + 1)
                             /\ x - 1 - r + (i + 1) - 1 = x - r + i - 1
      BY <1>1
    <2> HIDE DEF new, size
    <2> QED BY <2>1, <2>2
  <1> HIDE DEF old, new, both, size
  <1>6. Total(both, size) = Total(old, size)
    BY <1>1, <1>4, SumOfSame
  <1>7. Total(new, size) = Total(both, size) + both[size + 1] - both[1]
    BY <1>1, <1>3, <1>5, SumOfNext
  <1> QED BY <1>3, <1>6, <1>7 DEF WindowSum, old, new, size, r

LEMMA WindowSumType ==
  ASSUME NEW n \in Nat \ {0}, NEW x \in Int, NEW line,
         \A i \in 0..(n - 1) : line[i] \in Int
  PROVE  WindowSum(line, n, x) \in Int
  <1> DEFINE size == 2 * BoxRadius + 1
             s == Held(line, n, x, BoxRadius)
  <1>1. BoxRadius \in Nat /\ size \in Nat /\ size \in 0..size
    BY FeatureAssumptions
  <1>2. \A i \in 1..size : s[i] \in Int
    BY <1>1, HeldType
  <1> HIDE DEF s, size
  <1>3. Total(s, size) \in Int
    BY <1>1, <1>2, TotalSteps
  <1> QED BY <1>3 DEF WindowSum, s, size

(* So the sum that runs along the line is the sum of the window. *)
LEMMA RunningSumIsWindowSum ==
  ASSUME NEW n \in Nat \ {0}, NEW line, \A i \in 0..(n - 1) : line[i] \in Int
  PROVE  \A x \in 0..(n - 1) : running_sum(line, n)[x] = WindowSum(line, n, x)
  <1> DEFINE Round(f, x) ==
               IF x = 0
               THEN Total(Held(line, n, 0, BoxRadius), 2 * BoxRadius + 1)
               ELSE f[x - 1] + line[CLAMP(x + BoxRadius, 0, n - 1)]
                             - line[CLAMP(x - 1 - BoxRadius, 0, n - 1)]
             Is(f) == f = [x \in 0..(n - 1) |-> Round(f, x)]
             run == CHOOSE f : Is(f)
             window == [x \in 0..(n - 1) |-> WindowSum(line, n, x)]
  <1>1. running_sum(line, n) = run
    BY Zenon DEF running_sum
  <1>2. \A f : Round(f, 0) = WindowSum(line, n, 0)
    BY Zenon DEF WindowSum
  <1>3. \A f : \A x \in 1..(n - 1) :
          Round(f, x) = f[x - 1] + Clamped(line, n, x + BoxRadius)
                                 - Clamped(line, n, x - 1 - BoxRadius)
    <2>1. \A x \in 1..(n - 1) : x # 0
      OBVIOUS
    <2> QED BY <2>1, Zenon DEF Clamped
  <1> HIDE DEF Round
  <1>4. \A x \in 0..(n - 1) : x \in Int /\ (x = 0 \/ (x \in 1..(n - 1) /\ x - 1 \in 0..(n - 1)))
    OBVIOUS
  <1>5. \A x \in 0..(n - 1) : window[x] = Round(window, x)
    <2>1. \A x \in 0..(n - 1) : window[x] = WindowSum(line, n, x)
      OBVIOUS
    <2> HIDE DEF window
    <2> QED BY <1>2, <1>3, <1>4, <2>1, WindowMoves
  <1>6. \E f : Is(f)
    <2>1. window = [x \in 0..(n - 1) |-> Round(window, x)]
      BY <1>5
    <2> HIDE DEF window
    <2> QED BY <2>1, Zenon
  <1>7. Is(run)
    BY <1>6
  <1> HIDE DEF run
  <1>8. \A x \in 0..(n - 1) : run[x] = Round(run, x)
    BY <1>7
  <1> DEFINE good == {x \in 0..(n - 1) : run[x] = WindowSum(line, n, x)}
  <1>9. 0 \in good
    BY <1>2, <1>8
  <1>10. ASSUME NEW x \in 1..(n - 1), x - 1 \in good PROVE x \in good
    <2>1. x \in 0..(n - 1) /\ x \in Int /\ run[x - 1] = WindowSum(line, n, x - 1)
      BY <1>10
    <2>2. WindowSum(line, n, x) = WindowSum(line, n, x - 1)
                                    + Clamped(line, n, x + BoxRadius)
                                    - Clamped(line, n, x - 1 - BoxRadius)
      BY <2>1, WindowMoves
    <2>3. run[x] = WindowSum(line, n, x)
      BY <1>3, <1>8, <2>1, <2>2
    <2> QED BY <2>1, <2>3
  <1>11. 0..(n - 1) \subseteq good
    <2>1. n - 1 \in Nat
      OBVIOUS
    <2> HIDE DEF good
    <2> QED BY <2>1, <1>9, <1>10, Induction
  <1> QED BY <1>1, <1>11

LEMMA PixelParts ==
  ASSUME NEW w, NEW h
  PROVE  /\ \A p \in Pixels(w, h) : /\ p[1] \in 0..(w - 1) /\ p[2] \in 0..(h - 1)
                                    /\ p = <<p[1], p[2]>>
         /\ \A x \in 0..(w - 1), y \in 0..(h - 1) : <<x, y>> \in Pixels(w, h)
  BY DEF Pixels

Line(img, w, y)   == [x \in 0..(w - 1) |-> img[<<x, y>>]]
Column(img, h, x) == [y \in 0..(h - 1) |-> img[<<x, y>>]]

LEMMA LineTypes ==
  ASSUME NEW w \in Nat \ {0}, NEW h \in Nat \ {0}, NEW img,
         \A p \in Pixels(w, h) : img[p] \in Int
  PROVE  /\ \A y \in 0..(h - 1) : \A x \in 0..(w - 1) :
              Line(img, w, y)[x] = img[<<x, y>>] /\ Line(img, w, y)[x] \in Int
         /\ \A x \in 0..(w - 1) : \A y \in 0..(h - 1) :
              Column(img, h, x)[y] = img[<<x, y>>] /\ Column(img, h, x)[y] \in Int
  BY PixelParts DEF Line, Column

LEMMA LinesOfSums ==
  ASSUME NEW w \in Nat \ {0}, NEW h \in Nat \ {0}, NEW img,
         \A p \in Pixels(w, h) : img[p] \in Int
  PROVE  \A p \in Pixels(w, h) :
           /\ Lines(img, w, h, running_sum)[p] = WindowSum(Line(img, w, p[2]), w, p[1])
           /\ Lines(img, w, h, running_sum)[p] \in Int
  <1> SUFFICES ASSUME NEW p \in Pixels(w, h)
               PROVE  /\ Lines(img, w, h, running_sum)[p]
                           = WindowSum(Line(img, w, p[2]), w, p[1])
                      /\ Lines(img, w, h, running_sum)[p] \in Int
    OBVIOUS
  <1> DEFINE row == [y \in 0..(h - 1) |-> running_sum(Line(img, w, y), w)]
  <1>1. p[1] \in 0..(w - 1) /\ p[2] \in 0..(h - 1) /\ p[1] \in Int
    BY PixelParts
  <1>2. Lines(img, w, h, running_sum) = [q \in Pixels(w, h) |-> row[q[2]][q[1]]]
    BY DEF Lines, Line
  <1>3. row[p[2]] = running_sum(Line(img, w, p[2]), w)
    BY <1>1
  <1> HIDE DEF row
  <1>4. Lines(img, w, h, running_sum)[p] = running_sum(Line(img, w, p[2]), w)[p[1]]
    BY <1>2, <1>3
  <1>5. \A x \in 0..(w - 1) : Line(img, w, p[2])[x] \in Int
    BY <1>1, LineTypes
  <1> QED BY <1>1, <1>4, <1>5, RunningSumIsWindowSum, WindowSumType

LEMMA ColumnsOfSums ==
  ASSUME NEW w \in Nat \ {0}, NEW h \in Nat \ {0}, NEW img,
         \A p \in Pixels(w, h) : img[p] \in Int
  PROVE  \A p \in Pixels(w, h) :
           Columns(img, w, h, running_sum)[p] = WindowSum(Column(img, h, p[1]), h, p[2])
  <1> SUFFICES ASSUME NEW p \in Pixels(w, h)
               PROVE  Columns(img, w, h, running_sum)[p]
                        = WindowSum(Column(img, h, p[1]), h, p[2])
    OBVIOUS
  <1> DEFINE column == [x \in 0..(w - 1) |-> running_sum(Column(img, h, x), h)]
  <1>1. p[1] \in 0..(w - 1) /\ p[2] \in 0..(h - 1) /\ p[2] \in Int
    BY PixelParts
  <1>2. Columns(img, w, h, running_sum) = [q \in Pixels(w, h) |-> column[q[1]][q[2]]]
    BY DEF Columns, Column
  <1>3. column[p[1]] = running_sum(Column(img, h, p[1]), h)
    BY <1>1
  <1> HIDE DEF column
  <1>4. Columns(img, w, h, running_sum)[p] = running_sum(Column(img, h, p[1]), h)[p[2]]
    BY <1>2, <1>3
  <1>5. \A y \in 0..(h - 1) : Column(img, h, p[1])[y] \in Int
    BY <1>1, LineTypes
  <1> QED BY <1>1, <1>4, <1>5, RunningSumIsWindowSum

(* A window of the frame, line by line. *)
BoxSum(img, w, h, p) ==
  LET size == 2 * BoxRadius + 1
      Value(x, y) == img[<<CLAMP(x, 0, w - 1), CLAMP(y, 0, h - 1)>>]
  IN  Total([j \in 1..size |->
        Total([i \in 1..size |->
          Value(p[1] - BoxRadius + i - 1, p[2] - BoxRadius + j - 1)], size)], size)

LEMMA BoxIsBoxSum ==
  ASSUME NEW w \in Nat \ {0}, NEW h \in Nat \ {0}, NEW img,
         \A p \in Pixels(w, h) : img[p] \in Int, NEW p \in Pixels(w, h)
  PROVE  ft9201_box(img, w, h)[p] = BoxSum(img, w, h, p)
  <1> DEFINE r == BoxRadius
             size == 2 * r + 1
             L == Lines(img, w, h, running_sum)
             X(i) == CLAMP(p[1] - r + i - 1, 0, w - 1)
             Y(j) == CLAMP(p[2] - r + j - 1, 0, h - 1)
             Inner(j) == [i \in 1..size |-> img[<<X(i), Y(j)>>]]
             outer == [j \in 1..size |-> Total(Inner(j), size)]
             held == Held(Column(L, h, p[1]), h, p[2], r)
  <1>1. /\ p[1] \in 0..(w - 1) /\ p[2] \in 0..(h - 1) /\ p[1] \in Int /\ p[2] \in Int
        /\ r \in Nat /\ size \in Nat
    BY PixelParts, FeatureAssumptions
  <1>2. \A q \in Pixels(w, h) : /\ L[q] = WindowSum(Line(img, w, q[2]), w, q[1])
                                /\ L[q] \in Int
    BY LinesOfSums
  <1> HIDE DEF L
  <1>3. ft9201_box(img, w, h)[p] = Total(held, size)
    BY <1>2, ColumnsOfSums DEF ft9201_box, WindowSum, L
  <1>4. \A j \in 1..size : Y(j) \in 0..(h - 1) /\ X(j) \in 0..(w - 1)
    <2>1. \A j \in 1..size : p[2] - r + j - 1 \in Int /\ p[1] - r + j - 1 \in Int
      BY <1>1
    <2> QED BY <2>1, ClampType
  <1>5. ASSUME NEW j \in 1..size PROVE held[j] = Total(Inner(j), size) /\ held[j] \in Int
    <2> DEFINE y == Y(j)
               s == Held(Line(img, w, y), w, p[1], r)
    <2>1. y \in 0..(h - 1)
      BY <1>4
    <2>2. held[j] = Column(L, h, p[1])[y] /\ held[j] \in Int
      <3>1. \A k \in 0..(h - 1) : Column(L, h, p[1])[k] \in Int
        BY <1>1, <1>2, LineTypes
      <3> QED BY <1>1, <3>1, HeldType DEF Clamped
    <2>3. Column(L, h, p[1])[y] = L[<<p[1], y>>]
      BY <1>1, <1>2, <2>1, LineTypes
    <2> HIDE DEF y
    <2>4. L[<<p[1], y>>] = Total(s, size)
      <3>1. <<p[1], y>> \in Pixels(w, h) /\ <<p[1], y>>[1] = p[1] /\ <<p[1], y>>[2] = y
        BY <1>1, <2>1, PixelParts
      <3> QED BY <1>2, <3>1 DEF WindowSum
    <2>5. \A i \in 1..size : s[i] \in Int /\ Inner(j)[i] = s[i]
      <3>1. \A x \in 0..(w - 1) : /\ Line(img, w, y)[x] = img[<<x, y>>]
                                  /\ Line(img, w, y)[x] \in Int
        BY <2>1, LineTypes
      <3>2. \A i \in 1..size : /\ s[i] = Clamped(Line(img, w, y), w, p[1] - r + i - 1)
                               /\ s[i] \in Int
        BY <1>1, <3>1, HeldType
      <3>3. \A i \in 1..size : s[i] = img[<<X(i), y>>]
        BY <1>4, <3>1, <3>2 DEF Clamped
      <3>4. \A i \in 1..size : Inner(j)[i] = img[<<X(i), y>>]
        BY DEF y
      <3> HIDE DEF s, Inner, X
      <3> QED BY <3>2, <3>3, <3>4
    <2> HIDE DEF s, Inner
    <2>6. Total(Inner(j), size) = Total(s, size)
      BY <1>1, <2>5, SumOfSame
    <2> QED BY <2>2, <2>3, <2>4, <2>6
  <1>6. Total(outer, size) = Total(held, size)
    <2>1. \A j \in 1..size : outer[j] = held[j] /\ held[j] \in Int
      BY <1>5
    <2> HIDE DEF outer, held, size
    <2> QED BY <1>1, <2>1, SumOfSame
  <1>7. BoxSum(img, w, h, p) = Total(outer, size)
    BY Zenon DEF BoxSum
  <1> QED BY <1>3, <1>6, <1>7

(* Along the line and then along the column, with one pixel added and one  *)
(* removed at each step, the sum is that of the window, for every frame    *)
(* and every radius (ft9201_box).                                          *)
THEOREM MeanIsOfTheWindow == Spec => []BoxIsWindowSum
  <1>1. FInv => BoxIsWindowSum
    <2> SUFFICES ASSUME FInv, HasKeypoints, NEW p \in Pixels(work.w, work.h)
                 PROVE  result[1].box[p] = BoxSum(work.img, work.w, work.h, p)
      BY Zenon DEF BoxIsWindowSum, BoxSum
    <2> QED BY SearchedFrames, BoxIsBoxSum
  <1> QED BY <1>1, FeaturesInvariance, PTL

-----------------------------------------------------------------------------
(* The Gaussians.                                                          *)

(* The terms of a weighted sum. *)
Weighted(k, line, n, x) == [i \in 1..Len(k) |-> k[i] * Held(line, n, x, Len(k) \div 2)[i]]

Kernel(k) ==
  /\ k \in Seq(Nat) /\ Len(k) % 2 = 1
  /\ \A i \in 1..Len(k) : k[i] = k[Len(k) + 1 - i]

LEMMA KernelTypes ==
  ASSUME NEW k, Kernel(k)
  PROVE  /\ Len(k) \in Nat /\ Len(k) \div 2 \in Nat /\ Len(k) = 2 * (Len(k) \div 2) + 1
         /\ \A i \in 1..Len(k) : /\ k[i] \in Int /\ Len(k) + 1 - i \in 1..Len(k)
                                 /\ k[Len(k) + 1 - i] = k[i]
  <1>1. Len(k) \in Nat /\ \A i \in 1..Len(k) : k[i] \in Int
    BY DEF Kernel
  <1>2. \A n \in Nat : n % 2 = 1 => n \div 2 \in Nat /\ n = 2 * (n \div 2) + 1
    OBVIOUS
  <1>3. Len(k) \div 2 \in Nat /\ Len(k) = 2 * (Len(k) \div 2) + 1
    BY <1>1, <1>2 DEF Kernel
  <1>4. \A i \in 1..Len(k) : Len(k) + 1 - i \in 1..Len(k)
    BY <1>1
  <1> QED BY <1>1, <1>3, <1>4 DEF Kernel

LEMMA WeightedType ==
  ASSUME NEW k, Kernel(k), NEW n \in Nat \ {0}, NEW x \in Int, NEW line,
         \A i \in 0..(n - 1) : line[i] \in Int
  PROVE  /\ \A i \in 1..Len(k) :
              /\ Weighted(k, line, n, x)[i]
                   = k[i] * Clamped(line, n, x - (Len(k) \div 2) + i - 1)
              /\ Weighted(k, line, n, x)[i] \in Int
         /\ Total(Weighted(k, line, n, x), Len(k)) \in Int
  <1> DEFINE r == Len(k) \div 2
             s == Weighted(k, line, n, x)
             around == Held(line, n, x, r)
  <1>1. /\ Len(k) \in Nat /\ r \in Nat /\ Len(k) = 2 * r + 1
        /\ \A i \in 1..Len(k) : k[i] \in Int
    BY KernelTypes
  <1> HIDE DEF r
  <1>2. \A i \in 1..Len(k) : around[i] = Clamped(line, n, x - r + i - 1) /\ around[i] \in Int
    BY <1>1, HeldType
  <1>3. \A i \in 1..Len(k) : s[i] = k[i] * around[i]
    BY DEF Weighted, r
  <1> HIDE DEF around, s
  <1>4. \A i \in 1..Len(k) : s[i] = k[i] * Clamped(line, n, x - r + i - 1) /\ s[i] \in Int
    <2>1. \A v, u \in Int : v * u \in Int
      OBVIOUS
    <2> QED BY <1>1, <1>2, <1>3, <2>1
  <1>5. Total(s, Len(k)) \in Int
    <2>1. Len(k) \in 0..Len(k)
      BY <1>1
    <2> QED BY <1>1, <1>4, <2>1, TotalSteps
  <1> QED BY <1>4, <1>5 DEF s, r

(* The frame after the weighted sums along its lines. *)
GaussLines(k, img, w, h) ==
  [p \in Pixels(w, h) |-> Total(Weighted(k, Line(img, w, p[2]), w, p[1]), Len(k))]

LEMMA WeightedSums ==
  ASSUME NEW k, NEW line, NEW n, NEW x \in 0..(n - 1)
  PROVE  weighted_sum(k, line, n)[x] = Total(Weighted(k, line, n, x), Len(k))
  BY DEF weighted_sum, Weighted

LEMMA GaussIsTwoSums ==
  ASSUME NEW k, Kernel(k), NEW w \in Nat \ {0}, NEW h \in Nat \ {0}, NEW img,
         NEW p \in Pixels(w, h)
  PROVE  ft9201_gauss(img, w, h, k)[p]
           = Total(Weighted(k, Column(GaussLines(k, img, w, h), h, p[1]), h, p[2]), Len(k))
  <1> DEFINE row == [y \in 0..(h - 1) |-> weighted_sum(k, Line(img, w, y), w)]
             L == [q \in Pixels(w, h) |-> row[q[2]][q[1]]]
             column == [x \in 0..(w - 1) |-> weighted_sum(k, Column(L, h, x), h)]
  <1>1. ft9201_gauss(img, w, h, k) = [q \in Pixels(w, h) |-> column[q[1]][q[2]]]
    BY Zenon DEF ft9201_gauss, Columns, Lines, Line, Column
  <1>2. \A q \in Pixels(w, h) : q[1] \in 0..(w - 1) /\ q[2] \in 0..(h - 1)
    BY PixelParts
  <1>3. L = GaussLines(k, img, w, h)
    <2>1. \A q \in Pixels(w, h) :
            row[q[2]][q[1]] = Total(Weighted(k, Line(img, w, q[2]), w, q[1]), Len(k))
      <3>1. \A y \in 0..(h - 1) : row[y] = weighted_sum(k, Line(img, w, y), w)
        OBVIOUS
      <3> HIDE DEF row
      <3> QED BY <1>2, <3>1, WeightedSums
    <2> HIDE DEF row
    <2> QED BY <2>1 DEF GaussLines
  <1>4. ft9201_gauss(img, w, h, k)[p] = column[p[1]][p[2]]
    BY <1>1
  <1> HIDE DEF L
  <1>5. column[p[1]] = weighted_sum(k, Column(L, h, p[1]), h)
    BY <1>2
  <1> HIDE DEF column
  <1> QED BY <1>2, <1>3, <1>4, <1>5, WeightedSums

(* One term of the sum over the window around q. *)
Term(k, img, w, h, q, i, j) ==
  k[j] * (k[i] * img[<<CLAMP(q[1] - (Len(k) \div 2) + i - 1, 0, w - 1),
                       CLAMP(q[2] - (Len(k) \div 2) + j - 1, 0, h - 1)>>])

KernelLine(k, img, w, h, q, j) == [i \in 1..Len(k) |-> Term(k, img, w, h, q, i, j)]

KernelSum(k, img, w, h, q) ==
  Total([j \in 1..Len(k) |-> Total(KernelLine(k, img, w, h, q, j), Len(k))], Len(k))

LEMMA TermType ==
  ASSUME NEW k, Kernel(k), NEW w \in Nat \ {0}, NEW h \in Nat \ {0}, NEW img,
         \A p \in Pixels(w, h) : img[p] \in Int,
         NEW q \in Int \X Int, NEW i \in 1..Len(k), NEW j \in 1..Len(k)
  PROVE  Term(k, img, w, h, q, i, j) \in Int
  <1> DEFINE x == CLAMP(q[1] - (Len(k) \div 2) + i - 1, 0, w - 1)
             y == CLAMP(q[2] - (Len(k) \div 2) + j - 1, 0, h - 1)
  <1>1. /\ q[1] - (Len(k) \div 2) + i - 1 \in Int
        /\ q[2] - (Len(k) \div 2) + j - 1 \in Int
    BY KernelTypes
  <1>2. x \in 0..(w - 1) /\ y \in 0..(h - 1)
    BY <1>1, ClampType
  <1> HIDE DEF x, y
  <1>3. img[<<x, y>>] \in Int
    BY <1>2, PixelParts
  <1>4. k[i] \in Int /\ k[j] \in Int
    BY KernelTypes
  <1>5. \A u, v \in Int : u * v \in Int
    OBVIOUS
  <1> QED BY <1>3, <1>4, <1>5 DEF Term, x, y

LEMMA GaussIsKernelSum ==
  ASSUME NEW k, Kernel(k), NEW w \in Nat \ {0}, NEW h \in Nat \ {0}, NEW img,
         \A p \in Pixels(w, h) : img[p] \in Int, NEW p \in Pixels(w, h)
  PROVE  ft9201_gauss(img, w, h, k)[p] = KernelSum(k, img, w, h, p)
  <1> DEFINE n == Len(k)
             r == n \div 2
             L == GaussLines(k, img, w, h)
             X(i) == CLAMP(p[1] - r + i - 1, 0, w - 1)
             Y(j) == CLAMP(p[2] - r + j - 1, 0, h - 1)
             column == Weighted(k, Column(L, h, p[1]), h, p[2])
             outer == [j \in 1..n |-> Total(KernelLine(k, img, w, h, p, j), n)]
  <1>1. /\ p[1] \in 0..(w - 1) /\ p[2] \in 0..(h - 1) /\ p[1] \in Int /\ p[2] \in Int
        /\ p \in Int \X Int
        /\ n \in Nat /\ r \in Nat /\ \A i \in 1..n : k[i] \in Int
    BY PixelParts, KernelTypes DEF Pixels
  <1>2. \A q \in Pixels(w, h) : /\ L[q] = Total(Weighted(k, Line(img, w, q[2]), w, q[1]), n)
                                /\ L[q] \in Int
    <2> SUFFICES ASSUME NEW q \in Pixels(w, h)
                 PROVE  /\ L[q] = Total(Weighted(k, Line(img, w, q[2]), w, q[1]), n)
                        /\ L[q] \in Int
      OBVIOUS
    <2>1. q[1] \in Int /\ q[2] \in 0..(h - 1)
      BY PixelParts
    <2>2. \A x \in 0..(w - 1) : Line(img, w, q[2])[x] \in Int
      BY <2>1, LineTypes
    <2>3. Total(Weighted(k, Line(img, w, q[2]), w, q[1]), n) \in Int
      BY <2>1, <2>2, WeightedType
    <2> QED BY <2>3 DEF GaussLines
  <1>3. ft9201_gauss(img, w, h, k)[p] = Total(column, n)
    BY GaussIsTwoSums
  <1> HIDE DEF L
  <1>4. \A j \in 1..n : Y(j) \in 0..(h - 1) /\ X(j) \in 0..(w - 1)
    <2>1. \A j \in 1..n : p[2] - r + j - 1 \in Int /\ p[1] - r + j - 1 \in Int
      BY <1>1
    <2> QED BY <2>1, ClampType
  <1>5. ASSUME NEW j \in 1..n
        PROVE  /\ column[j] = Total(KernelLine(k, img, w, h, p, j), n)
               /\ column[j] \in Int
    <2> DEFINE y == Y(j)
               s == Weighted(k, Line(img, w, y), w, p[1])
               t == KernelLine(k, img, w, h, p, j)
    <2>1. y \in 0..(h - 1)
      BY <1>4
    <2>2. column[j] = k[j] * Column(L, h, p[1])[y] /\ column[j] \in Int
      <3>1. \A z \in 0..(h - 1) : Column(L, h, p[1])[z] \in Int
        BY <1>1, <1>2, LineTypes
      <3> QED BY <1>1, <3>1, WeightedType DEF Clamped
    <2>3. Column(L, h, p[1])[y] = L[<<p[1], y>>]
      BY <1>1, <2>1 DEF Column
    <2> HIDE DEF y
    <2>4. L[<<p[1], y>>] = Total(s, n)
      <3>1. <<p[1], y>> \in Pixels(w, h) /\ <<p[1], y>>[1] = p[1] /\ <<p[1], y>>[2] = y
        BY <1>1, <2>1, PixelParts
      <3> QED BY <1>2, <3>1
    <2>5. \A i \in 1..n : s[i] \in Int /\ t[i] = k[j] * s[i]
      <3>1. \A x \in 0..(w - 1) : /\ Line(img, w, y)[x] = img[<<x, y>>]
                                  /\ Line(img, w, y)[x] \in Int
        BY <2>1, LineTypes
      <3>2. \A i \in 1..n : /\ s[i] = k[i] * Clamped(Line(img, w, y), w, p[1] - r + i - 1)
                            /\ s[i] \in Int
        BY <1>1, <3>1, WeightedType
      <3>3. \A i \in 1..n : s[i] = k[i] * img[<<X(i), y>>]
        BY <1>4, <3>1, <3>2 DEF Clamped
      <3>4. \A i \in 1..n : t[i] = k[j] * (k[i] * img[<<X(i), y>>])
        BY DEF y, KernelLine, Term
      <3> HIDE DEF s, t, X
      <3> QED BY <3>2, <3>3, <3>4
    <2> HIDE DEF s, t
    <2>6. Total(t, n) = k[j] * Total(s, n)
      <3> DEFINE c == k[j]
      <3>1. c \in Int /\ n \in Nat
        BY <1>1
      <3> HIDE DEF c, n
      <3>2. Total(t, n) = c * Total(s, n)
        BY <2>5, <3>1, SumOfMultiples DEF c
      <3> QED BY <3>2 DEF c
    <2> QED BY <2>2, <2>3, <2>4, <2>6 DEF t
  <1>6. Total(outer, n) = Total(column, n)
    <2>1. \A j \in 1..n : outer[j] = column[j] /\ column[j] \in Int
      BY <1>5
    <2> HIDE DEF outer, column, n
    <2> QED BY <1>1, <2>1, SumOfSame
  <1> QED BY <1>3, <1>6 DEF KernelSum

(* The frame turned by a right angle: the pixel at p comes from Back(h, p). *)
Back(h, p) == <<p[2], h - 1 - p[1]>>

TurnedImage(img, w, h) == [p \in Pixels(h, w) |-> img[Back(h, p)]]

LEMMA BackIsPixel ==
  ASSUME NEW w \in Nat \ {0}, NEW h \in Nat \ {0}, NEW p \in Pixels(h, w)
  PROVE  Back(h, p) \in Pixels(w, h)
  <1>1. p[1] \in 0..(h - 1) /\ p[2] \in 0..(w - 1)
    BY PixelParts
  <1>2. h - 1 - p[1] \in 0..(h - 1)
    BY <1>1
  <1> QED BY <1>1, <1>2, PixelParts DEF Back

LEMMA ClampTurned ==
  ASSUME NEW n \in Nat \ {0}, NEW v \in Int
  PROVE  n - 1 - CLAMP(v, 0, n - 1) = CLAMP(n - 1 - v, 0, n - 1)
  BY DEF CLAMP

LEMMA TermTurned ==
  ASSUME NEW k, Kernel(k), NEW w \in Nat \ {0}, NEW h \in Nat \ {0}, NEW img,
         \A p \in Pixels(w, h) : img[p] \in Int, NEW p \in Pixels(h, w),
         NEW i \in 1..Len(k), NEW j \in 1..Len(k)
  PROVE  Term(k, TurnedImage(img, w, h), h, w, p, i, j)
           = Term(k, img, w, h, Back(h, p), j, Len(k) + 1 - i)
  <1> DEFINE n == Len(k)
             r == n \div 2
             q == Back(h, p)
             x == CLAMP(p[1] - r + i - 1, 0, h - 1)
             y == CLAMP(p[2] - r + j - 1, 0, w - 1)
             v == img[<<y, h - 1 - x>>]
  <1>1. /\ p[1] \in Int /\ p[2] \in Int /\ q[1] = p[2] /\ q[2] = h - 1 - p[1]
    BY PixelParts DEF Back
  <1>2. n \in Nat /\ r \in Nat /\ n = 2 * r + 1 /\ n + 1 - i \in 1..n
        /\ k[i] \in Int /\ k[j] \in Int /\ k[n + 1 - i] = k[i]
    BY KernelTypes
  <1>3. p[1] - r + i - 1 \in Int /\ p[2] - r + j - 1 \in Int
    <2>1. \A a, b, c \in Int : a - b + c - 1 \in Int
      OBVIOUS
    <2>2. i \in Int /\ j \in Int /\ r \in Int
      BY <1>2
    <2> QED BY <1>1, <2>1, <2>2
  <1> HIDE DEF r, q
  <1>4. x \in 0..(h - 1) /\ y \in 0..(w - 1)
    BY <1>3, ClampType
  <1>5. h - 1 - x = CLAMP(q[2] - r + (n + 1 - i) - 1, 0, h - 1)
    <2>1. h - 1 - x = CLAMP(h - 1 - (p[1] - r + i - 1), 0, h - 1)
      BY <1>3, ClampTurned
    <2>2. h - 1 - (p[1] - r + i - 1) = q[2] - r + (n + 1 - i) - 1
      <3>1. \A a, b, c, d \in Int :
              a - 1 - (b - c + d - 1) = (a - 1 - b) - c + (2 * c + 1 + 1 - d) - 1
        OBVIOUS
      <3>2. h \in Int /\ r \in Int /\ i \in Int
        BY <1>2
      <3> QED BY <1>1, <1>2, <3>1, <3>2
    <2> QED BY <2>1, <2>2
  <1>6. y = CLAMP(q[1] - r + j - 1, 0, w - 1)
    BY <1>1
  <1> HIDE DEF x, y
  <1>7. TurnedImage(img, w, h)[<<x, y>>] = v /\ v \in Int
    <2>1. <<x, y>> \in Pixels(h, w)
      BY <1>4, PixelParts
    <2>2. Back(h, <<x, y>>) = <<y, h - 1 - x>>
      BY DEF Back
    <2> QED BY <2>1, <2>2, BackIsPixel DEF TurnedImage
  <1>8. Term(k, TurnedImage(img, w, h), h, w, p, i, j) = k[j] * (k[i] * v)
    BY <1>7 DEF Term, x, y, r
  <1>9. Term(k, img, w, h, q, j, n + 1 - i) = k[n + 1 - i] * (k[j] * v)
    BY <1>5, <1>6, Zenon DEF Term, r
  <1> HIDE DEF v
  <1>10. \A a, b, c \in Int : a * (b * c) = b * (a * c)
    OBVIOUS
  <1> QED BY <1>2, <1>7, <1>8, <1>9, <1>10 DEF q

LEMMA TurnedImageType ==
  ASSUME NEW w \in Nat \ {0}, NEW h \in Nat \ {0}, NEW img,
         \A p \in Pixels(w, h) : img[p] \in Int
  PROVE  \A p \in Pixels(h, w) : TurnedImage(img, w, h)[p] \in Int
  BY BackIsPixel DEF TurnedImage

LEMMA KernelSumTurned ==
  ASSUME NEW k, Kernel(k), NEW w \in Nat \ {0}, NEW h \in Nat \ {0}, NEW img,
         \A p \in Pixels(w, h) : img[p] \in Int, NEW p \in Pixels(h, w)
  PROVE  KernelSum(k, TurnedImage(img, w, h), h, w, p) = KernelSum(k, img, w, h, Back(h, p))
  <1> DEFINE n == Len(k)
             q == Back(h, p)
             old == TurnedImage(img, w, h)
             a == [c \in (1..n) \X (1..n) |-> Term(k, img, w, h, q, c[1], c[2])]
             Across(j) == [i \in 1..n |-> a[<<j, i>>]]
             Down(j) == [i \in 1..n |-> a[<<i, j>>]]
  <1>1. n \in Nat /\ q \in Int \X Int /\ n \in 0..n
    <2>1. \A c \in Pixels(w, h) : c \in Int \X Int
      BY DEF Pixels
    <2>2. q \in Pixels(w, h)
      BY BackIsPixel
    <2>3. n \in Nat /\ n \in 0..n
      BY KernelTypes
    <2> HIDE DEF n, q
    <2> QED BY <2>1, <2>2, <2>3
  <1>2. \A i, j \in 1..n : /\ a[<<i, j>>] = Term(k, img, w, h, q, i, j)
                           /\ a[<<i, j>>] \in Int
    <2>1. \A i, j \in 1..n : a[<<i, j>>] = Term(k, img, w, h, q, i, j)
      OBVIOUS
    <2>2. \A i, j \in 1..n : Term(k, img, w, h, q, i, j) \in Int
      BY <1>1, TermType
    <2> HIDE DEF a
    <2> QED BY <2>1, <2>2
  <1>3. \A i, j \in 1..n : /\ n + 1 - i \in 1..n
                           /\ Term(k, old, h, w, p, i, j) = a[<<j, n + 1 - i>>]
    <2> SUFFICES ASSUME NEW i \in 1..n, NEW j \in 1..n
                 PROVE  /\ n + 1 - i \in 1..n
                        /\ Term(k, old, h, w, p, i, j) = a[<<j, n + 1 - i>>]
      OBVIOUS
    <2>1. n + 1 - i \in 1..n
      BY <1>1
    <2>2. Term(k, old, h, w, p, i, j) = Term(k, img, w, h, q, j, n + 1 - i)
      BY TermTurned
    <2> HIDE DEF a, old, q
    <2> QED BY <1>2, <2>1, <2>2
  <1> HIDE DEF a, old, q
  <1>4. ASSUME NEW j \in 1..n
        PROVE  /\ Total(KernelLine(k, old, h, w, p, j), n) = Total(Across(j), n)
               /\ Total(Across(j), n) \in Int
    <2> DEFINE s == Across(j)
               t == KernelLine(k, old, h, w, p, j)
    <2>1. \A i \in 1..n : s[i] = a[<<j, i>>] /\ s[i] \in Int
      BY <1>2
    <2>2. \A i \in 1..n : t[i] = a[<<j, n + 1 - i>>]
      BY <1>3 DEF KernelLine
    <2> HIDE DEF s, t
    <2>3. \A i \in 1..n : s[i] \in Int /\ t[i] = s[n + 1 - i]
      BY <1>3, <2>1, <2>2
    <2>4. Total(t, n) = Total(s, n) /\ Total(s, n) \in Int
      BY <1>1, <2>3, SumOfReverse, TotalSteps
    <2> QED BY <2>4 DEF s, t
  <1>5. \A j \in 1..n : Down(j) = KernelLine(k, img, w, h, q, j)
    BY <1>2 DEF KernelLine
  <1> DEFINE across == [j \in 1..n |-> Total(Across(j), n)]
             turned == [j \in 1..n |-> Total(KernelLine(k, old, h, w, p, j), n)]
             down == [j \in 1..n |-> Total(Down(j), n)]
  <1>6. Total(across, n) = Total(down, n)
    <2>1. \A i, j \in 1..n : a[<<i, j>>] \in Int
      BY <1>2
    <2> QED BY <1>1, <2>1, SumOfTable
  <1>7. Total(turned, n) = Total(across, n)
    <2>1. \A j \in 1..n : across[j] \in Int /\ turned[j] = across[j]
      BY <1>4
    <2> HIDE DEF across, turned
    <2> QED BY <1>1, <2>1, SumOfSame
  <1>8. down = [j \in 1..n |-> Total(KernelLine(k, img, w, h, q, j), n)]
    BY <1>5
  <1>9. Total(down, n) = KernelSum(k, img, w, h, q)
    BY <1>8, Zenon DEF KernelSum
  <1>10. Total(turned, n) = KernelSum(k, old, h, w, p)
    BY Zenon DEF KernelSum
  <1> QED BY <1>6, <1>7, <1>9, <1>10 DEF old, q

LEMMA GaussTurned ==
  ASSUME NEW k, Kernel(k), NEW w \in Nat \ {0}, NEW h \in Nat \ {0}, NEW img,
         \A p \in Pixels(w, h) : img[p] \in Int, NEW p \in Pixels(h, w)
  PROVE  ft9201_gauss(TurnedImage(img, w, h), h, w, k)[p]
           = ft9201_gauss(img, w, h, k)[Back(h, p)]
  <1>1. \A q \in Pixels(h, w) : TurnedImage(img, w, h)[q] \in Int
    BY TurnedImageType
  <1>2. ft9201_gauss(TurnedImage(img, w, h), h, w, k)[p]
          = KernelSum(k, TurnedImage(img, w, h), h, w, p)
    <2> DEFINE old == TurnedImage(img, w, h)
    <2>1. \A q \in Pixels(h, w) : old[q] \in Int
      BY <1>1
    <2> HIDE DEF old
    <2>2. ft9201_gauss(old, h, w, k)[p] = KernelSum(k, old, h, w, p)
      BY <2>1, GaussIsKernelSum
    <2> QED BY <2>2 DEF old
  <1>3. ft9201_gauss(img, w, h, k)[Back(h, p)] = KernelSum(k, img, w, h, Back(h, p))
    BY BackIsPixel, GaussIsKernelSum
  <1> QED BY <1>2, <1>3, KernelSumTurned

-----------------------------------------------------------------------------
(* The detection, at a right angle.                                        *)

LEMMA DogTurned ==
  ASSUME NEW w \in Nat \ {0}, NEW h \in Nat \ {0}, NEW img,
         \A p \in Pixels(w, h) : img[p] \in Int
  PROVE  difference_of_gaussians(TurnedImage(img, w, h), h, w)
           = TurnedImage(difference_of_gaussians(img, w, h), w, h)
  <1> DEFINE old == TurnedImage(img, w, h)
             Value(u, a, b, p) == ft9201_gauss(u, a, b, Narrow)[p] * Weight(Wide)
                                    - ft9201_gauss(u, a, b, Wide)[p] * Weight(Narrow)
  <1>1. Kernel(Narrow) /\ Kernel(Wide)
    BY KernelAssumption DEF Kernel
  <1>2. \A p \in Pixels(h, w) : Back(h, p) \in Pixels(w, h)
    BY BackIsPixel
  <1>3. \A p \in Pixels(h, w) :
          /\ ft9201_gauss(old, h, w, Narrow)[p] = ft9201_gauss(img, w, h, Narrow)[Back(h, p)]
          /\ ft9201_gauss(old, h, w, Wide)[p] = ft9201_gauss(img, w, h, Wide)[Back(h, p)]
    BY <1>1, GaussTurned
  <1> HIDE DEF old
  <1>4. difference_of_gaussians(old, h, w) = [p \in Pixels(h, w) |-> Value(old, h, w, p)]
    BY Zenon DEF difference_of_gaussians
  <1>5. difference_of_gaussians(img, w, h) = [p \in Pixels(w, h) |-> Value(img, w, h, p)]
    BY Zenon DEF difference_of_gaussians
  <1>6. \A p \in Pixels(h, w) : Value(old, h, w, p) = Value(img, w, h, Back(h, p))
    BY <1>3
  <1> HIDE DEF Value
  <1>7. \A p \in Pixels(h, w) :
          difference_of_gaussians(img, w, h)[Back(h, p)] = Value(img, w, h, Back(h, p))
    BY <1>2, <1>5
  <1> QED BY <1>4, <1>6, <1>7 DEF TurnedImage, old

LEMMA UpscaleTurned ==
  ASSUME NEW w \in Nat \ {0}, NEW h \in Nat \ {0}, NEW img
  PROVE  ft9201_upscale(TurnedImage(img, w, h), h, w)
           = TurnedImage(ft9201_upscale(img, w, h), w * KP_UPSCALE, h * KP_UPSCALE)
  <1> DEFINE W == w * KP_UPSCALE
             H == h * KP_UPSCALE
  <1>1. W \in Nat \ {0} /\ H \in Nat \ {0} /\ H = h * 2 /\ W = w * 2
    BY DEF KP_UPSCALE
  <1> SUFFICES ASSUME NEW p \in Pixels(H, W)
               PROVE  ft9201_upscale(TurnedImage(img, w, h), h, w)[p]
                        = ft9201_upscale(img, w, h)[Back(H, p)]
    BY DEF ft9201_upscale, TurnedImage
  <1> DEFINE x == p[1] \div 2
             y == p[2] \div 2
  <1>2. p[1] \in 0..(H - 1) /\ p[2] \in 0..(W - 1) /\ Back(H, p) \in Pixels(W, H)
        /\ Back(H, p)[1] = p[2] /\ Back(H, p)[2] = H - 1 - p[1]
    BY <1>1, PixelParts, BackIsPixel DEF Back
  <1>3. x \in 0..(h - 1) /\ y \in 0..(w - 1) /\ (H - 1 - p[1]) \div 2 = h - 1 - x
    BY <1>1, <1>2
  <1> HIDE DEF x, y
  <1>4. ft9201_upscale(img, w, h)[Back(H, p)] = img[<<y, h - 1 - x>>]
    BY <1>2, <1>3 DEF ft9201_upscale, KP_UPSCALE, y
  <1>5. ft9201_upscale(TurnedImage(img, w, h), h, w)[p] = TurnedImage(img, w, h)[<<x, y>>]
    BY DEF ft9201_upscale, KP_UPSCALE, x, y
  <1>6. TurnedImage(img, w, h)[<<x, y>>] = img[<<y, h - 1 - x>>]
    <2>1. <<x, y>> \in Pixels(h, w)
      BY <1>3, PixelParts
    <2> QED BY <2>1 DEF TurnedImage, Back
  <1> QED BY <1>4, <1>5, <1>6

-----------------------------------------------------------------------------
(* The pixels are searched line by line.                                   *)

LEMMA QuotientAndRest ==
  ASSUME NEW u \in Nat \ {0}, NEW d \in Nat, NEW r \in 0..(u - 1)
  PROVE  (d * u + r) % u = r /\ (d * u + r) \div u = d
  <1>1. \A m \in Nat : m = d * u + r => m % u = r
    OBVIOUS
  <1>2. \A m \in Nat : m = d * u + r => m \div u = d
    OBVIOUS
  <1>3. d * u + r \in Nat
    OBVIOUS
  <1> QED BY <1>1, <1>2, <1>3

LEMMA DivisionExists ==
  ASSUME NEW u \in Nat \ {0}, NEW N \in Nat
  PROVE  \A m \in 0..N : \E d \in Nat, r \in 0..(u - 1) : m = d * u + r
  <1> DEFINE good == {m \in 0..N : \E d \in Nat, r \in 0..(u - 1) : m = d * u + r}
  <1>1. 0 \in good
    <2>1. 0 \in Nat /\ 0 \in 0..(u - 1) /\ 0 = 0 * u + 0
      OBVIOUS
    <2> QED BY <2>1
  <1>2. ASSUME NEW m \in 1..N, m - 1 \in good PROVE m \in good
    <2>1. PICK d \in Nat, r \in 0..(u - 1) : m - 1 = d * u + r
      BY <1>2
    <2>2. d * u \in Nat /\ (d + 1) * u = d * u + u
      OBVIOUS
    <2>3. CASE r = u - 1
      <3>1. m = (d + 1) * u + 0 /\ d + 1 \in Nat /\ 0 \in 0..(u - 1)
        BY <2>1, <2>2, <2>3
      <3> QED BY <3>1
    <2>4. CASE r # u - 1
      <3>1. m = d * u + (r + 1) /\ r + 1 \in 0..(u - 1)
        BY <2>1, <2>2, <2>4
      <3> QED BY <3>1
    <2> QED BY <2>3, <2>4
  <1>3. 0..N \subseteq good
    <2> HIDE DEF good
    <2> QED BY <1>1, <1>2, Induction
  <1> QED BY <1>3

PixelAt(uw, n)  == <<(n - 1) % uw, (n - 1) \div uw>>
Before(E, uw, n) == {p \in E : p[2] * uw + p[1] < n}

LEMMA PixelOrder ==
  ASSUME NEW uw \in Nat \ {0}, NEW uh \in Nat \ {0}, NEW p \in Pixels(uw, uh)
  PROVE  /\ p[2] * uw + p[1] \in 0..(uw * uh - 1)
         /\ \A n \in 1..(uw * uh) : p[2] * uw + p[1] = n - 1 <=> p = PixelAt(uw, n)
  <1> DEFINE x == p[1]
             y == p[2]
  <1>1. x \in 0..(uw - 1) /\ y \in 0..(uh - 1) /\ p = <<x, y>> /\ y \in Nat
    BY PixelParts
  <1> HIDE DEF x, y
  <1>2. y * uw + x \in 0..(uw * uh - 1)
    <2>1. uh - 1 - y \in Nat
      BY <1>1
    <2>2. (uh - 1 - y) * uw \in Nat /\ y * uw \in Nat
      BY <1>1, <2>1
    <2>3. (uh - 1 - y) * uw = uw * uh - uw - y * uw
      BY <1>1
    <2> DEFINE a == uw * uh
               b == y * uw
               c == (uh - 1 - y) * uw
    <2>4. a \in Nat /\ b \in Nat /\ c \in Nat /\ c = a - uw - b
      BY <2>2, <2>3
    <2> HIDE DEF a, b, c
    <2>5. b + x \in 0..(a - 1)
      BY <1>1, <2>4
    <2> QED BY <2>5 DEF a, b
  <1>3. uw * uh \in Nat
    OBVIOUS
  <1>4. ASSUME NEW n \in 1..(uw * uh), y * uw + x = n - 1 PROVE p = PixelAt(uw, n)
    <2>1. (y * uw + x) % uw = x /\ (y * uw + x) \div uw = y
      BY <1>1, QuotientAndRest
    <2> QED BY <1>1, <1>4, <2>1 DEF PixelAt
  <1>5. ASSUME NEW n \in 1..(uw * uh), p = PixelAt(uw, n) PROVE y * uw + x = n - 1
    <2>1. n - 1 \in 0..(uw * uh)
      BY <1>3
    <2>2. PICK d \in Nat, r \in 0..(uw - 1) : n - 1 = d * uw + r
      BY <1>3, <2>1, DivisionExists
    <2>3. (n - 1) % uw = r /\ (n - 1) \div uw = d
      BY <2>2, QuotientAndRest
    <2>4. x = r /\ y = d
      BY <1>1, <1>5, <2>3 DEF PixelAt
    <2> QED BY <2>2, <2>4
  <1> QED BY <1>2, <1>4, <1>5 DEF x, y

(* One round more takes one pixel more into account. *)
LEMMA BeforeGrows ==
  ASSUME NEW uw \in Nat \ {0}, NEW uh \in Nat \ {0}, NEW E \in SUBSET Pixels(uw, uh)
  PROVE  /\ Before(E, uw, 0) = {} /\ Before(E, uw, uw * uh) = E
         /\ \A n \in 1..(uw * uh) :
              IF PixelAt(uw, n) \in E
              THEN /\ Before(E, uw, n) = Before(E, uw, n - 1) \cup {PixelAt(uw, n)}
                   /\ PixelAt(uw, n) \notin Before(E, uw, n - 1)
              ELSE Before(E, uw, n) = Before(E, uw, n - 1)
  <1> DEFINE index(p) == p[2] * uw + p[1]
             N == uw * uh
  <1>1. \A p \in E : /\ index(p) \in 0..(N - 1)
                     /\ \A n \in 1..N : index(p) = n - 1 <=> p = PixelAt(uw, n)
    BY PixelOrder
  <1>2. N \in Nat
    OBVIOUS
  <1>3. \A n : Before(E, uw, n) = {p \in E : index(p) < n}
    BY DEF Before
  <1> HIDE DEF index, N
  <1>4. Before(E, uw, 0) = {} /\ Before(E, uw, N) = E
    BY <1>1, <1>2, <1>3
  <1>5. ASSUME NEW n \in 1..N
        PROVE  IF PixelAt(uw, n) \in E
               THEN /\ Before(E, uw, n) = Before(E, uw, n - 1) \cup {PixelAt(uw, n)}
                    /\ PixelAt(uw, n) \notin Before(E, uw, n - 1)
               ELSE Before(E, uw, n) = Before(E, uw, n - 1)
    <2> DEFINE o == PixelAt(uw, n)
    <2>1. \A p \in E : index(p) < n <=> index(p) < n - 1 \/ p = o
      BY <1>1, <1>2
    <2>2. o \in E => ~(index(o) < n - 1)
      BY <1>1, <1>2
    <2> HIDE DEF o
    <2>3. CASE o \in E
      <3>1. Before(E, uw, n) = Before(E, uw, n - 1) \cup {o}
        BY <1>3, <2>1, <2>3
      <3>2. o \notin Before(E, uw, n - 1)
        BY <1>3, <2>2, <2>3
      <3> QED BY <2>3, <3>1, <3>2 DEF o
    <2>4. CASE o \notin E
      <3>1. Before(E, uw, n) = Before(E, uw, n - 1)
        BY <1>3, <2>1, <2>4
      <3> QED BY <2>4, <3>1 DEF o
    <2> QED BY <2>3, <2>4
  <1> QED BY <1>4, <1>5 DEF N

Dog(img, w, h) ==
  difference_of_gaussians(ft9201_upscale(img, w, h), w * KP_UPSCALE, h * KP_UPSCALE)

Extrema(dog, uw, uh) == {p \in searched(uw, uh) : is_extremum(dog, p)}

LEMMA SearchedPixels ==
  ASSUME NEW uw \in Nat \ {0}, NEW uh \in Nat \ {0}
  PROVE  \A p \in searched(uw, uh) :
           /\ p \in Pixels(uw, uh) /\ p = <<p[1], p[2]>>
           /\ p[1] \in Border..(uw - Border - 1) /\ p[2] \in Border..(uh - Border - 1)
  BY FeatureAssumptions DEF searched, Pixels

FoundStep(E, uw, s, n) ==
  IF Len(s) < KP_MAX /\ PixelAt(uw, n) \in E THEN Append(s, PixelAt(uw, n)) ELSE s

FoundRounds(E, uw, N) == [q \in (1..N) \X Seq(E) |-> FoundStep(E, uw, q[2], q[1])]

LEMMA FoundStepType ==
  ASSUME NEW E, NEW uw, NEW n, NEW s \in Seq(E)
  PROVE  FoundStep(E, uw, s, n) \in Seq(E)
  BY DEF FoundStep

(* keypoints is a loop of one round for each pixel. *)
LEMMA KeypointsIsLoop ==
  ASSUME NEW w \in Nat \ {0}, NEW h \in Nat \ {0}, NEW img,
         NEW uw, NEW uh, uw = w * KP_UPSCALE, uh = h * KP_UPSCALE,
         NEW E, E = Extrema(Dog(img, w, h), uw, uh)
  PROVE  \E f : /\ IsLoop(f, uw * uh, Seq(E), <<>>, FoundRounds(E, uw, uw * uh))
                /\ keypoints(img, w, h) = f[uw * uh]
  <1> DEFINE W == w * KP_UPSCALE
             H == h * KP_UPSCALE
             dog == difference_of_gaussians(ft9201_upscale(img, w, h), W, H)
             n == W * H
             S == Seq(E)
             turn == FoundRounds(E, W, n)
             Round(f, i) ==
               IF i = 0 THEN <<>>
               ELSE LET kp == f[i - 1]
                        p  == <<(i - 1) % W, (i - 1) \div W>>
                    IN  IF Len(kp) < KP_MAX /\ p \in searched(W, H) /\ is_extremum(dog, p)
                        THEN Append(kp, p) ELSE kp
             Is(f) == f = [i \in 0..n |-> Round(f, i)]
             found == CHOOSE f : Is(f)
  <1>1. n \in Nat
    BY DEF KP_UPSCALE
  <1>2. <<>> \in S
    OBVIOUS
  <1>3. turn \in [(1..n) \X S -> S]
    BY FoundStepType DEF FoundRounds
  <1>4. keypoints(img, w, h) = found[n]
    BY Zenon DEF keypoints
  <1>5. \A f : \A i \in 0..n : i # 0 => Round(f, i) = FoundStep(E, W, f[i - 1], i)
    <2>1. \A p : p \in E <=> p \in searched(W, H) /\ is_extremum(dog, p)
      <3> HIDE DEF W, H, dog
      <3>1. E = {p \in searched(W, H) : is_extremum(dog, p)}
        BY Zenon DEF Extrema, Dog, W, H, dog
      <3> QED BY <3>1
    <2> HIDE DEF dog, H
    <2> QED BY <2>1, Zenon DEF FoundStep, PixelAt
  <1>6. \A f : Round(f, 0) = <<>>
    BY Zenon
  <1>7. \A i \in 1..n : \A s \in S : turn[<<i, s>>] = FoundStep(E, W, s, i)
    BY DEF FoundRounds
  <1>8. ASSUME NEW i \in 1..n, NEW s \in S PROVE FoundStep(E, W, s, i) \in S
    BY FoundStepType
  <1> HIDE DEF n, turn, Round, S
  <1>9. \E f : Is(f)
    <2>1. PICK f : IsLoop(f, n, S, <<>>, turn)
      BY <1>1, <1>2, <1>3, LoopExists
    <2>2. ASSUME NEW i \in 0..n PROVE f[i] = Round(f, i)
      <3>1. CASE i = 0
        BY <3>1, <1>6, <2>1 DEF IsLoop
      <3>2. CASE i # 0
        <4>1. i \in 1..n /\ i - 1 \in 0..n
          BY <1>1, <3>2
        <4>2. f[i - 1] \in S /\ f[i] = turn[<<i, f[i - 1]>>]
          BY <4>1, <2>1 DEF IsLoop
        <4> QED BY <4>1, <4>2, <3>2, <1>5, <1>7
      <3> QED BY <3>1, <3>2
    <2>3. f = [i \in 0..n |-> Round(f, i)]
      BY <2>1, <2>2 DEF IsLoop
    <2> QED BY <2>3, Zenon
  <1>10. Is(found)
    BY <1>9
  <1> HIDE DEF found
  <1>11. /\ found[0] = <<>>
         /\ \A i \in 1..n : found[i] = FoundStep(E, W, found[i - 1], i)
    <2>1. \A i \in 0..n : found[i] = Round(found, i)
      BY <1>10
    <2>2. 0 \in 0..n /\ \A i \in 1..n : i # 0 /\ i \in 0..n
      BY <1>1
    <2> QED BY <1>5, <1>6, <2>1, <2>2
  <1>12. \A i \in 0..n : found[i] \in S
    <2> DEFINE good == {i \in 0..n : found[i] \in S}
    <2>1. 0 \in good
      BY <1>1, <1>2, <1>11
    <2>2. ASSUME NEW i \in 1..n, i - 1 \in good PROVE i \in good
      <3>1. found[i - 1] \in S /\ i \in 0..n
        BY <2>2, <1>1
      <3> QED BY <3>1, <1>11, <1>8
    <2>3. 0..n \subseteq good
      <3> HIDE DEF good
      <3> QED BY <1>1, <2>1, <2>2, Induction
    <2> QED BY <2>3
  <1>13. found \in [0..n -> S]
    <2>1. found = [i \in 0..n |-> Round(found, i)]
      BY <1>10, Zenon
    <2>2. \A i \in 0..n : Round(found, i) \in S
      BY <1>12, <2>1
    <2> QED BY <2>1, <2>2
  <1>14. \A i \in 1..n : found[i] = turn[<<i, found[i - 1]>>]
    <2>1. \A i \in 1..n : i - 1 \in 0..n
      BY <1>1
    <2> QED BY <2>1, <1>7, <1>11, <1>12
  <1>15. IsLoop(found, n, S, <<>>, turn)
    BY <1>11, <1>13, <1>14 DEF IsLoop
  <1>16. W = uw /\ H = uh
    OBVIOUS
  <1> QED BY <1>4, <1>15, <1>16, Zenon DEF n, turn, S

(* The array has every extremum, as long as there are fewer than it holds. *)
Collected(E, s) ==
  /\ s \in Seq(E) /\ IsFiniteSet(E)
  /\ Len(s) = IF Cardinality(E) < KP_MAX THEN Cardinality(E) ELSE KP_MAX
  /\ Len(s) < KP_MAX => {s[i] : i \in 1..Len(s)} = E

LEMMA CollectedOne ==
  ASSUME NEW E, NEW s, Collected(E, s), NEW p, p \notin E
  PROVE  Collected(E \cup {p}, IF Len(s) < KP_MAX THEN Append(s, p) ELSE s)
  <1> DEFINE D == E \cup {p}
             c == Cardinality(E)
             n == Len(s)
             t == Append(s, p)
  <1>1. /\ s \in Seq(E) /\ IsFiniteSet(E) /\ c \in Nat /\ n \in Nat
        /\ n = IF c < KP_MAX THEN c ELSE KP_MAX
        /\ n < KP_MAX => {s[i] : i \in 1..n} = E
    BY FS_CardinalityType DEF Collected
  <1>2. IsFiniteSet(D) /\ Cardinality(D) = c + 1
    BY <1>1, FS_AddElement
  <1>3. s \in Seq(D) /\ KP_MAX \in Nat
    BY <1>1, FeatureAssumptions
  <1>4. CASE n < KP_MAX
    <2>1. t \in Seq(D) /\ Len(t) = n + 1 /\ t[n + 1] = p /\ \A i \in 1..n : t[i] = s[i]
      BY <1>1, <1>3
    <2> HIDE DEF t, D, c, n
    <2>2. {t[i] : i \in 1..(n + 1)} = {s[i] : i \in 1..n} \cup {p}
      <3>1. \A i \in 1..(n + 1) : i \in 1..n \/ i = n + 1
        BY <1>1
      <3>2. n + 1 \in 1..(n + 1) /\ \A i \in 1..n : i \in 1..(n + 1)
        BY <1>1
      <3> QED BY <2>1, <3>1, <3>2
    <2>3. {t[i] : i \in 1..Len(t)} = D
      BY <1>1, <1>4, <2>1, <2>2 DEF D
    <2>4. Len(t) = IF Cardinality(D) < KP_MAX THEN Cardinality(D) ELSE KP_MAX
      BY <1>1, <1>2, <1>3, <1>4, <2>1
    <2>5. Collected(D, t)
      BY <1>2, <2>1, <2>3, <2>4 DEF Collected
    <2> QED BY <1>4, <2>5 DEF D, t, n
  <1>5. CASE ~(n < KP_MAX)
    <2> HIDE DEF D, c
    <2>1. n = KP_MAX /\ ~(c < KP_MAX)
      BY <1>1, <1>3, <1>5
    <2>2. Len(s) = IF Cardinality(D) < KP_MAX THEN Cardinality(D) ELSE KP_MAX
      BY <1>1, <1>2, <1>3, <2>1
    <2>3. Collected(D, s)
      BY <1>2, <1>3, <1>5, <2>2 DEF Collected
    <2> QED BY <1>5, <2>3 DEF D
  <1> QED BY <1>4, <1>5

LEMMA KeypointsCollected ==
  ASSUME NEW w \in Nat \ {0}, NEW h \in Nat \ {0}, NEW img
  PROVE  Collected(Extrema(Dog(img, w, h), w * KP_UPSCALE, h * KP_UPSCALE),
                   keypoints(img, w, h))
  <1> DEFINE uw == w * KP_UPSCALE
             uh == h * KP_UPSCALE
             N == uw * uh
             E == Extrema(Dog(img, w, h), uw, uh)
  <1>1. uw \in Nat \ {0} /\ uh \in Nat \ {0} /\ N \in Nat
    BY DEF KP_UPSCALE
  <1>2. PICK f : /\ IsLoop(f, N, Seq(E), <<>>, FoundRounds(E, uw, N))
                 /\ keypoints(img, w, h) = f[N]
    BY KeypointsIsLoop
  <1>3. E \in SUBSET Pixels(uw, uh)
    <2> HIDE DEF uw, uh
    <2> QED BY <1>1, SearchedPixels DEF Extrema
  <1> HIDE DEF E, uw, uh
  <1>4. /\ Before(E, uw, 0) = {} /\ Before(E, uw, N) = E
        /\ \A n \in 1..N :
             IF PixelAt(uw, n) \in E
             THEN /\ Before(E, uw, n) = Before(E, uw, n - 1) \cup {PixelAt(uw, n)}
                  /\ PixelAt(uw, n) \notin Before(E, uw, n - 1)
             ELSE Before(E, uw, n) = Before(E, uw, n - 1)
    BY <1>1, <1>3, BeforeGrows
  <1> HIDE DEF N
  <1>5. /\ f \in [0..N -> Seq(E)] /\ f[0] = <<>>
        /\ \A n \in 1..N : f[n] = FoundStep(E, uw, f[n - 1], n)
    <2>1. f \in [0..N -> Seq(E)] /\ f[0] = <<>>
      BY <1>2 DEF IsLoop
    <2>2. ASSUME NEW n \in 1..N PROVE f[n] = FoundStep(E, uw, f[n - 1], n)
      <3>1. f[n - 1] \in Seq(E)
        BY <1>1, <2>1
      <3>2. f[n] = FoundRounds(E, uw, N)[<<n, f[n - 1]>>]
        BY <1>2 DEF IsLoop
      <3> QED BY <3>1, <3>2 DEF FoundRounds
    <2> QED BY <2>1, <2>2
  <1> DEFINE good == {n \in 0..N : Collected(Before(E, uw, n), f[n])}
  <1>6. 0 \in good
    <2>1. Collected({}, <<>>)
      <3>1. IsFiniteSet({}) /\ Cardinality({}) = 0
        BY FS_EmptySet
      <3>2. KP_MAX \in Nat /\ 0 < KP_MAX
        BY FeatureAssumptions
      <3>3. <<>> \in Seq({}) /\ Len(<<>>) = 0 /\ {<<>>[i] : i \in 1..Len(<<>>)} = {}
        OBVIOUS
      <3> QED BY <3>1, <3>2, <3>3 DEF Collected
    <2>2. Collected(Before(E, uw, 0), f[0])
      BY <1>4, <1>5, <2>1, Zenon
    <2>3. 0 \in 0..N
      BY <1>1
    <2> QED BY <2>2, <2>3
  <1>7. ASSUME NEW n \in 1..N, n - 1 \in good PROVE n \in good
    <2> DEFINE s == f[n - 1]
               p == PixelAt(uw, n)
               D == Before(E, uw, n - 1)
    <2>1. Collected(D, s) /\ n \in 0..N
      BY <1>1, <1>7
    <2>2. f[n] = IF Len(s) < KP_MAX /\ p \in E THEN Append(s, p) ELSE s
      BY <1>5, Zenon DEF FoundStep
    <2>3. IF p \in E THEN Before(E, uw, n) = D \cup {p} /\ p \notin D
                     ELSE Before(E, uw, n) = D
      BY <1>4, Zenon
    <2> HIDE DEF s, p, D
    <2>4. CASE p \in E
      <3>1. f[n] = IF Len(s) < KP_MAX THEN Append(s, p) ELSE s
        BY <2>2, <2>4, Zenon
      <3>2. Before(E, uw, n) = D \cup {p} /\ p \notin D
        BY <2>3, <2>4, Zenon
      <3>3. Collected(D \cup {p}, IF Len(s) < KP_MAX THEN Append(s, p) ELSE s)
        BY <2>1, <3>2, CollectedOne, Zenon
      <3> QED BY <2>1, <3>1, <3>2, <3>3
    <2>5. CASE p \notin E
      <3>1. f[n] = s /\ Before(E, uw, n) = D
        BY <2>2, <2>3, <2>5, Zenon
      <3> QED BY <2>1, <3>1
    <2> QED BY <2>4, <2>5
  <1>8. 0..N \subseteq good
    <2> HIDE DEF good
    <2> QED BY <1>1, <1>6, <1>7, Induction
  <1>9. Collected(E, f[N])
    <2>1. N \in 0..N
      BY <1>1
    <2> QED BY <1>4, <1>8, <2>1
  <1> QED BY <1>2, <1>9 DEF E, uw, uh

(* What is around a pixel turns with it. *)
LEMMA AroundTurned ==
  ASSUME NEW h \in Nat, NEW p \in Int \X Int
  PROVE  /\ \A o \in Around(p) : o \in Int \X Int /\ Back(h, o) \in Around(Back(h, p))
         /\ \A c \in Around(Back(h, p)) : \E o \in Around(p) : Back(h, o) = c
  <1> DEFINE D == (-Step)..Step
  <1>1. \A d \in D : d \in Int /\ -d \in D
    BY FeatureAssumptions
  <1>2. \A q, o : o \in Around(q) <=>
          (\E dx \in D, dy \in D : o = <<q[1] + dx, q[2] + dy>>) /\ o # q
    BY DEF Around
  <1> HIDE DEF D
  <1>3. /\ p[1] \in Int /\ p[2] \in Int /\ p = <<p[1], p[2]>>
        /\ Back(h, p) = <<p[2], h - 1 - p[1]>>
    BY DEF Back
  <1>4. ASSUME NEW o \in Around(p)
        PROVE  o \in Int \X Int /\ Back(h, o) \in Around(Back(h, p))
    <2>1. PICK dx \in D, dy \in D : o = <<p[1] + dx, p[2] + dy>>
      BY <1>2
    <2>2. o \in Int \X Int /\ o # p
      BY <1>1, <1>2, <1>3, <2>1
    <2>3. Back(h, o) = <<p[2] + dy, (h - 1 - p[1]) + (-dx)>>
      BY <1>1, <1>3, <2>1 DEF Back
    <2>4. Back(h, o) # Back(h, p)
      BY <1>1, <1>3, <2>1, <2>2, <2>3
    <2>5. Back(h, o) = <<Back(h, p)[1] + dy, Back(h, p)[2] + (-dx)>>
      BY <1>3, <2>3
    <2>6. -dx \in D
      BY <1>1
    <2> QED BY <1>2, <2>2, <2>4, <2>5, <2>6
  <1>5. ASSUME NEW c \in Around(Back(h, p)) PROVE \E o \in Around(p) : Back(h, o) = c
    <2>1. PICK dx \in D, dy \in D : c = <<Back(h, p)[1] + dx, Back(h, p)[2] + dy>>
      BY <1>2
    <2> DEFINE o == <<p[1] + (-dy), p[2] + dx>>
    <2>2. c = <<p[2] + dx, h - 1 - p[1] + dy>> /\ c # Back(h, p)
      BY <1>2, <1>3, <2>1
    <2>3. Back(h, o) = c
      BY <1>1, <1>3, <2>2 DEF Back
    <2>4. -dy \in D
      BY <1>1
    <2>5. o # p
      BY <2>2, <2>3
    <2>6. o \in Around(p)
      BY <1>2, <2>4, <2>5
    <2> QED BY <2>3, <2>6
  <1> QED BY <1>4, <1>5

(* The border is wide enough: what is around a searched pixel is a pixel. *)
LEMMA AroundIsInside ==
  ASSUME NEW uw \in Nat \ {0}, NEW uh \in Nat \ {0}, NEW p \in searched(uw, uh)
  PROVE  \A o \in Around(p) : o \in Pixels(uw, uh)
  <1>1. /\ p[1] \in Border..(uw - Border - 1) /\ p[2] \in Border..(uh - Border - 1)
    BY SearchedPixels
  <1>2. Border \in Nat /\ Step \in Nat /\ Border >= Step
    BY FeatureAssumptions
  <1>3. \A d \in (-Step)..Step : /\ p[1] + d \in 0..(uw - 1)
                                 /\ p[2] + d \in 0..(uh - 1)
    BY <1>1, <1>2
  <1> QED BY <1>3, PixelParts DEF Around

LEMMA ExtremumTurned ==
  ASSUME NEW uw \in Nat \ {0}, NEW uh \in Nat \ {0}, NEW dog, NEW p \in searched(uh, uw)
  PROVE  /\ Back(uh, p) \in searched(uw, uh)
         /\ is_extremum(TurnedImage(dog, uw, uh), p) <=> is_extremum(dog, Back(uh, p))
  <1> DEFINE q == Back(uh, p)
             old == TurnedImage(dog, uw, uh)
  <1>1. /\ p \in Pixels(uh, uw) /\ p \in Int \X Int
        /\ p[1] \in Border..(uh - Border - 1) /\ p[2] \in Border..(uw - Border - 1)
    BY SearchedPixels DEF Pixels
  <1>2. q \in searched(uw, uh)
    <2>1. uh - 1 - p[1] \in Border..(uh - Border - 1)
      BY <1>1, FeatureAssumptions
    <2> QED BY <1>1, <2>1 DEF searched, Back
  <1>3. \A o \in Pixels(uh, uw) : old[o] = dog[Back(uh, o)]
    BY DEF TurnedImage
  <1>4. \A o \in Around(p) : o \in Pixels(uh, uw)
    BY AroundIsInside
  <1>5. /\ \A o \in Around(p) : Back(uh, o) \in Around(q)
        /\ \A c \in Around(q) : \E o \in Around(p) : Back(uh, o) = c
    BY <1>1, AroundTurned
  <1> HIDE DEF old
  <1>6. old[p] = dog[q] /\ \A o \in Around(p) : old[o] = dog[Back(uh, o)]
    BY <1>1, <1>3, <1>4
  <1> HIDE DEF q
  <1>7. (\A o \in Around(p) : old[o] < old[p]) <=> (\A c \in Around(q) : dog[c] < dog[q])
    BY <1>5, <1>6, Zenon
  <1>8. (\A o \in Around(p) : old[o] > old[p]) <=> (\A c \in Around(q) : dog[c] > dog[q])
    BY <1>5, <1>6, Zenon
  <1> QED BY <1>2, <1>6, <1>7, <1>8, Zenon DEF is_extremum, old, q

(* The way forth. *)
Forth(h, q) == <<h - 1 - q[2], q[1]>>

LEMMA ThereAndBack ==
  ASSUME NEW uw \in Nat \ {0}, NEW uh \in Nat \ {0}
  PROVE  /\ \A q \in searched(uw, uh) : /\ Forth(uh, q) \in searched(uh, uw)
                                        /\ Back(uh, Forth(uh, q)) = q
         /\ \A p \in searched(uh, uw) : Forth(uh, Back(uh, p)) = p
  <1>1. ASSUME NEW q \in searched(uw, uh)
        PROVE  Forth(uh, q) \in searched(uh, uw) /\ Back(uh, Forth(uh, q)) = q
    <2>1. /\ q[1] \in Border..(uw - Border - 1) /\ q[2] \in Border..(uh - Border - 1)
          /\ q = <<q[1], q[2]>>
      BY SearchedPixels
    <2>2. uh - 1 - q[2] \in Border..(uh - Border - 1) /\ uh - 1 - (uh - 1 - q[2]) = q[2]
      BY <2>1, FeatureAssumptions
    <2> QED BY <2>1, <2>2 DEF searched, Forth, Back
  <1>2. ASSUME NEW p \in searched(uh, uw) PROVE Forth(uh, Back(uh, p)) = p
    <2>1. p[1] \in Border..(uh - Border - 1) /\ p = <<p[1], p[2]>>
      BY SearchedPixels
    <2>2. uh - 1 - (uh - 1 - p[1]) = p[1]
      BY <2>1, FeatureAssumptions
    <2> QED BY <2>1, <2>2 DEF Forth, Back
  <1> QED BY <1>1, <1>2

(* The extrema of the turned frame are those of the frame, turned. *)
LEMMA ExtremaTurned ==
  ASSUME NEW uw \in Nat \ {0}, NEW uh \in Nat \ {0}, NEW dog,
         IsFiniteSet(Extrema(dog, uw, uh))
  PROVE  LET E == Extrema(dog, uw, uh)
             D == Extrema(TurnedImage(dog, uw, uh), uh, uw)
         IN  /\ D = {Forth(uh, q) : q \in E}
             /\ Cardinality(D) = Cardinality(E)
  <1> DEFINE E == Extrema(dog, uw, uh)
             D == Extrema(TurnedImage(dog, uw, uh), uh, uw)
             f == [q \in E |-> Forth(uh, q)]
  <1>1. \A q \in E : Forth(uh, q) \in D /\ Back(uh, Forth(uh, q)) = q
    BY ThereAndBack, ExtremumTurned DEF Extrema
  <1>2. \A p \in D : Back(uh, p) \in E /\ Forth(uh, Back(uh, p)) = p
    BY ThereAndBack, ExtremumTurned DEF Extrema
  <1> HIDE DEF D, E
  <1>3. D = {Forth(uh, q) : q \in E}
    BY <1>1, <1>2
  <1>4. f \in Bijection(E, D)
    <2>1. f \in [E -> D] /\ \A q \in E : f[q] = Forth(uh, q)
      BY <1>1
    <2> HIDE DEF f
    <2>2. \A a, b \in E : f[a] = f[b] => a = b
      BY <1>1, <2>1
    <2>3. \A p \in D : \E q \in E : f[q] = p
      BY <1>2, <2>1
    <2> QED BY <2>1, <2>2, <2>3 DEF Bijection, Injection, Surjection, IsInjective
  <1>5. IsFiniteSet(E)
    BY DEF E
  <1>6. Cardinality(D) = Cardinality(E)
    BY <1>4, <1>5, FS_Bijection DEF ExistsBijection
  <1> QED BY <1>3, <1>6 DEF D, E

LEMMA UpscaleType ==
  ASSUME NEW w \in Nat \ {0}, NEW h \in Nat \ {0}, NEW img,
         \A p \in Pixels(w, h) : img[p] \in Int
  PROVE  \A p \in Pixels(w * KP_UPSCALE, h * KP_UPSCALE) : ft9201_upscale(img, w, h)[p] \in Int
  <1> SUFFICES ASSUME NEW p \in Pixels(w * KP_UPSCALE, h * KP_UPSCALE)
               PROVE  ft9201_upscale(img, w, h)[p] \in Int
    OBVIOUS
  <1>1. p[1] \in 0..(w * 2 - 1) /\ p[2] \in 0..(h * 2 - 1)
    BY PixelParts DEF KP_UPSCALE
  <1>2. p[1] \div 2 \in 0..(w - 1) /\ p[2] \div 2 \in 0..(h - 1)
    BY <1>1
  <1>3. img[<<p[1] \div 2, p[2] \div 2>>] \in Int
    BY <1>2, PixelParts
  <1>4. ft9201_upscale(img, w, h)[p] = img[<<p[1] \div 2, p[2] \div 2>>]
    BY DEF ft9201_upscale, KP_UPSCALE
  <1> QED BY <1>3, <1>4

LEMMA WholeDogTurned ==
  ASSUME NEW w \in Nat \ {0}, NEW h \in Nat \ {0}, NEW img,
         \A p \in Pixels(w, h) : img[p] \in Int
  PROVE  Dog(TurnedImage(img, w, h), h, w)
           = TurnedImage(Dog(img, w, h), w * KP_UPSCALE, h * KP_UPSCALE)
  <1> DEFINE uw == w * KP_UPSCALE
             uh == h * KP_UPSCALE
             up == ft9201_upscale(img, w, h)
  <1>1. uw \in Nat \ {0} /\ uh \in Nat \ {0}
    BY DEF KP_UPSCALE
  <1>2. \A p \in Pixels(uw, uh) : up[p] \in Int
    BY UpscaleType
  <1>3. ft9201_upscale(TurnedImage(img, w, h), h, w) = TurnedImage(up, uw, uh)
    BY UpscaleTurned
  <1> HIDE DEF uw, uh, up
  <1>4. difference_of_gaussians(TurnedImage(up, uw, uh), uh, uw)
          = TurnedImage(difference_of_gaussians(up, uw, uh), uw, uh)
    BY <1>1, <1>2, DogTurned
  <1> QED BY <1>3, <1>4, Zenon DEF Dog, uw, uh, up

(* No step of the detection prefers a direction: the window of the sums,   *)
(* the kernels, the neighbours and the border are the same on all sides,   *)
(* for every frame, and only an array that is full shows in which order    *)
(* the lines are searched (ft9201_features_new).                           *)
THEOREM DetectionPrefersNoDirection == Spec => []TurnedFrameHasTurnedKeypoints
  <1>1. FInv => TurnedFrameHasTurnedKeypoints
    <2> DEFINE w == work.w
               h == work.h
               uw == w * KP_UPSCALE
               uh == h * KP_UPSCALE
               old == TurnedImage(work.img, w, h)
               kp == keypoints(work.img, w, h)
               kp2 == keypoints(old, h, w)
               dog == Dog(work.img, w, h)
               E == Extrema(dog, uw, uh)
               D == Extrema(TurnedImage(dog, uw, uh), uh, uw)
    <2> SUFFICES ASSUME FInv, HasKeypoints, Len(result[1].kp) < KP_MAX
                 PROVE  {kp2[n] : n \in DOMAIN kp2}
                          = {<<uh - 1 - result[1].kp[n][2], result[1].kp[n][1]>> :
                               n \in DOMAIN result[1].kp}
      BY Zenon DEF TurnedFrameHasTurnedKeypoints, TurnedImage, Back
    <2>1. w \in Nat \ {0} /\ h \in Nat \ {0} /\ result[1].kp = kp
          /\ \A p \in Pixels(w, h) : work.img[p] \in Int
      BY SearchedFrames
    <2>2. uw \in Nat \ {0} /\ uh \in Nat \ {0}
      BY <2>1 DEF KP_UPSCALE
    <2> HIDE DEF w, h
    <2>3. Collected(E, kp)
      BY <2>1, KeypointsCollected
    <2>4. Collected(D, kp2)
      <3>1. Dog(old, h, w) = TurnedImage(dog, uw, uh)
        BY <2>1, WholeDogTurned
      <3>2. Collected(Extrema(Dog(old, h, w), uh, uw), kp2)
        <4> HIDE DEF old
        <4> QED BY <2>1, KeypointsCollected
      <3> QED BY <3>1, <3>2
    <2> HIDE DEF dog, uw, uh, old
    <2>5. D = {Forth(uh, q) : q \in E} /\ Cardinality(D) = Cardinality(E)
      BY <2>2, <2>3, ExtremaTurned DEF Collected
    <2> HIDE DEF kp, kp2, E, D
    <2>6. KP_MAX \in Nat /\ Cardinality(E) \in Nat /\ Len(kp) < KP_MAX
      BY <2>1, <2>3, FS_CardinalityType, FeatureAssumptions DEF Collected
    <2>7. Cardinality(E) < KP_MAX
      BY <2>3, <2>6 DEF Collected
    <2>8. Len(kp2) < KP_MAX
      BY <2>4, <2>5, <2>6, <2>7 DEF Collected
    <2>9. /\ DOMAIN kp = 1..Len(kp) /\ DOMAIN kp2 = 1..Len(kp2)
          /\ {kp[n] : n \in 1..Len(kp)} = E /\ {kp2[n] : n \in 1..Len(kp2)} = D
      BY <2>3, <2>4, <2>6, <2>8 DEF Collected
    <2>10. {kp2[n] : n \in DOMAIN kp2} = {Forth(uh, kp[n]) : n \in DOMAIN kp}
      <3>1. /\ \A n \in DOMAIN kp : kp[n] \in E
            /\ \A q \in E : \E n \in DOMAIN kp : q = kp[n]
        BY <2>9
      <3>2. {Forth(uh, q) : q \in E} = {Forth(uh, kp[n]) : n \in DOMAIN kp}
        BY <3>1
      <3> QED BY <2>5, <2>9, <3>2
    <2> QED BY <2>1, <2>10 DEF Forth
  <1> QED BY <1>1, FeaturesInvariance, PTL
=============================================================================
