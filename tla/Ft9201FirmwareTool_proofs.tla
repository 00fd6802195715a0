--------------------- MODULE Ft9201FirmwareTool_proofs ---------------------
(***************************************************************************)
(* Theorems about the program that makes the firmware file, for every      *)
(* binary, every capture, every page of the catalog and all sizes.         *)
(***************************************************************************)
EXTENDS Ft9201FirmwareTool, LoopTheorems, SequenceTheorems, FiniteSetTheorems

-----------------------------------------------------------------------------
(* The least and the greatest member of a set of bytes or places. *)
LEMMA MinIsLeast ==
  ASSUME NEW S, S \subseteq Nat, S # {}
  PROVE  Min(S) \in S /\ \A x \in S : Min(S) <= x
  <1>1. \E x \in S : \A y \in S : x =< y
    BY LeastNat
  <1> QED BY <1>1 DEF Min

LEMMA MaxIsGreatest ==
  ASSUME NEW n \in Nat, NEW S, S \subseteq 0..n, S # {}
  PROVE  Max(S) \in S /\ \A x \in S : x <= Max(S)
  <1>1. \E z \in S : \A y \in S : z >= y
    BY GreatestNat
  <1> QED BY <1>1 DEF Max

(* -(-length // CHUNK_SIZE) * CHUNK_SIZE *)
LEMMA PaddedUp ==
  ASSUME NEW length \in Nat
  PROVE  /\ padded(length) \in Nat
         /\ length <= padded(length) /\ padded(length) < length + CHUNK_SIZE
         /\ padded(length) % CHUNK_SIZE = 0
  <1> DEFINE c == CHUNK_SIZE
             m == length + c - 1
             q == m \div c
             r == m % c
  <1>1. c \in Nat \ {0}
    BY SizeAssumption
  <1> HIDE DEF c
  <1>2. m \in Nat
    BY <1>1
  <1> HIDE DEF m
  <1>3. q \in Nat /\ r \in 0..(c - 1) /\ m = c * q + r
    BY <1>1, <1>2
  <1> HIDE DEF q, r
  <1>4. q * c \in Nat /\ m = q * c + r /\ (q * c) % c = 0
    BY <1>1, <1>3
  <1> DEFINE p == q * c
  <1>5. p \in Nat /\ length <= p /\ p < length + c /\ p % c = 0
    <2>1. m = length + c - 1
      BY DEF m
    <2>2. p \in Nat /\ m = p + r /\ p % c = 0
      BY <1>4
    <2> HIDE DEF p, m
    <2> QED BY <2>1, <2>2, <1>1, <1>3
  <1>6. padded(length) = p
    BY DEF padded, p, q, m, c
  <1> HIDE DEF p
  <1> QED BY <1>5, <1>6 DEF c

-----------------------------------------------------------------------------
(* The search in a binary.                                                 *)

(* A start lies in the file with its table behind it, in which there is a  *)
(* byte that is not zero.                                                  *)
LEMMA StartsLieInTheFile ==
  ASSUME NEW data \in Seq(Byte)
  PROVE  /\ image_starts(data) \subseteq 0..Len(data)
         /\ \A s \in image_starts(data) : \E k \in 1..Len(data) : k > s /\ data[k] # 0
  <1> DEFINE n == Len(data)
             m == Len(FW_TABLE_SIG)
  <1>1. n \in Nat /\ m \in Nat /\ FW_TABLE_OFFSET \in Nat /\ FW_TABLE_SIG \in Seq(Byte)
    BY TableAssumption
  <1>2. PICK z \in 1..m : FW_TABLE_SIG[z] # 0
    BY TableAssumption
  <1>3. ASSUME NEW s \in image_starts(data)
        PROVE  s \in 0..n /\ \E k \in 1..n : k > s /\ data[k] # 0
    <2>1. PICK off \in 0..n :
            /\ s = off - FW_TABLE_OFFSET
            /\ TableAt(data, off) /\ looks_like_image_start(data, off - FW_TABLE_OFFSET)
      BY DEF image_starts
    <2>2. s \in Nat /\ s <= off /\ off + m <= n
      BY <1>1, <2>1 DEF TableAt, looks_like_image_start
    <2>3. SubSeq(data, off + 1, off + m) = FW_TABLE_SIG
      BY <2>1 DEF TableAt
    <2>4. off + 1 \in 1..n /\ off + m \in 1..n /\ off + z \in 1..n
      BY <1>1, <1>2, <2>2
    <2>5. SubSeq(data, off + 1, off + m)[z] = data[off + z]
      <3> HIDE DEF n, m
      <3>1. (off + m) - (off + 1) + 1 = m /\ off + 1 + z - 1 = off + z
        BY <1>1, <2>1
      <3> QED BY <1>1, <1>2, <2>2, <2>4, <3>1 DEF n
    <2>6. data[off + z] # 0
      BY <1>2, <2>3, <2>5
    <2>7. off + z > s
      BY <1>1, <1>2, <2>2
    <2> QED BY <2>2, <2>4, <2>6, <2>7, <1>1
  <1> QED BY <1>3

(* The length that is padded: it reaches the next start, or the last byte  *)
(* that is not zero, and no further.                                       *)
LEMMA ImageLength ==
  ASSUME NEW data \in Seq(Byte), image_starts(data) # {}
  PROVE  LET start == Min(image_starts(data))
             end   == start + image_length(data)
         IN  /\ start \in image_starts(data) /\ start \in Nat
             /\ \A s \in image_starts(data) : start <= s
             /\ image_length(data) \in Nat
             /\ \/ /\ end \in image_starts(data) /\ end > start
                   /\ \A s \in image_starts(data) : s > start => end <= s
                \/ /\ \A s \in image_starts(data) : s = start
                   /\ end \in 1..Len(data) /\ end > start /\ data[end] # 0
                   /\ \A k \in 1..Len(data) : data[k] # 0 => k <= end
  <1> DEFINE starts == image_starts(data)
             start == Min(starts)
             others == starts \ {start}
             solid == {k \in 1..Len(data) : data[k] # 0}
             n == Len(data)
  <1>1. n \in Nat /\ starts \subseteq 0..n /\ starts # {}
        /\ \A s \in starts : \E k \in 1..n : k > s /\ data[k] # 0
    BY StartsLieInTheFile
  <1>2. IsFiniteSet(starts)
    <2>1. IsFiniteSet(0..n)
      BY <1>1, FS_Interval
    <2> HIDE DEF starts
    <2> QED BY <2>1, <1>1, FS_Subset
  <1>3. image_length(data) = IF Cardinality(starts) > 1 THEN Min(others) - start
                             ELSE Max(solid) - start
    BY DEF image_length
  <1> HIDE DEF starts, solid, n
  <1>4. start \in starts /\ \A s \in starts : start <= s
    <2>1. starts \subseteq Nat
      BY <1>1
    <2> QED BY <1>1, <2>1, MinIsLeast
  <1>5. start \in 0..n
    BY <1>1, <1>4
  <1>6. Cardinality(starts) > 1 <=> others # {}
    <2>1. Cardinality(starts) \in Nat
      BY <1>2, FS_CardinalityType
    <2>2. Cardinality(starts) = 0 <=> starts = {}
      BY <1>2, FS_EmptySet
    <2>3. Cardinality(starts) = 1 <=> \E x : starts = {x}
      BY <1>2, FS_Singleton
    <2>4. (\E x : starts = {x}) <=> others = {}
      <3> HIDE DEF start
      <3> QED BY <1>4
    <2> DEFINE c == Cardinality(starts)
    <2> HIDE DEF c, others
    <2>5. c > 1 <=> c # 0 /\ c # 1
      BY <2>1 DEF c
    <2> QED BY <2>2, <2>3, <2>4, <2>5, <1>1, Zenon DEF c
  <1> HIDE DEF start
  <1>7. CASE others # {}
    <2> DEFINE next == Min(others)
    <2>1. others \subseteq Nat
      <3>1. \A s \in 0..n : s \in Nat
        BY <1>1
      <3>2. \A s \in others : s \in starts
        OBVIOUS
      <3> QED BY <1>1, <3>1, <3>2
    <2>2. next \in others /\ \A s \in others : next <= s
      BY <1>7, <2>1, MinIsLeast
    <2>3. image_length(data) = next - start
      BY <1>3, <1>6, <1>7
    <2> HIDE DEF next
    <2>4. next \in starts /\ next > start /\ next \in Nat
      BY <2>1, <2>2, <1>4, <1>5
    <2>5. \A s \in starts : s > start => next <= s
      <3>1. \A s \in starts : s > start => s \in others
        BY <1>5
      <3> QED BY <3>1, <2>2
    <2>6. start + image_length(data) = next /\ image_length(data) \in Nat
      BY <2>3, <2>4, <1>5
    <2> QED BY <2>4, <2>5, <2>6, <1>4, <1>5 DEF start, starts
  <1>8. CASE others = {}
    <2> DEFINE end == Max(solid)
    <2>1. solid \subseteq 0..n /\ solid # {}
      BY <1>1, <1>4 DEF solid, n
    <2>2. end \in solid /\ \A k \in solid : k <= end
      BY <2>1, <1>1, MaxIsGreatest
    <2>3. image_length(data) = end - start
      BY <1>3, <1>6, <1>8
    <2> HIDE DEF end
    <2>4. PICK k \in 1..n : k > start /\ data[k] # 0
      BY <1>1, <1>4
    <2>5. end \in 1..n /\ data[end] # 0 /\ end > start
      <3>1. k \in solid
        BY <2>4 DEF solid, n
      <3>2. end \in 1..n /\ data[end] # 0
        BY <2>2 DEF solid, n
      <3>3. k <= end
        BY <2>2, <3>1
      <3> QED BY <2>4, <3>2, <3>3, <1>1, <1>5
    <2>6. \A j \in 1..n : data[j] # 0 => j <= end
      BY <2>2 DEF solid, n
    <2>7. \A s \in starts : s = start
      BY <1>8, <1>4
    <2>8. start + image_length(data) = end /\ image_length(data) \in Nat
      BY <2>3, <2>5, <1>1, <1>5
    <2> QED BY <2>5, <2>6, <2>7, <2>8, <1>4, <1>5 DEF start, starts, n
  <1> QED BY <1>7, <1>8

LEMMA PieceLength ==
  ASSUME NEW data \in Seq(Byte), NEW start \in Nat, NEW size \in Nat,
         start + size <= Len(data)
  PROVE  Len(SubSeq(data, start + 1, start + size)) = size
  <1>1. CASE size = 0
    BY <1>1
  <1>2. CASE size # 0
    <2>1. start + 1 \in 1..Len(data) /\ start + size \in 1..Len(data)
      BY <1>2
    <2> QED BY <1>2, <2>1
  <1> QED BY <1>1, <1>2

(* The bytes of data from start on are its first image and all of it. *)
IsFirstImage(data, start, size, blob) ==
  LET starts == image_starts(data)
      Belongs(k) == k > start /\ data[k] # 0 /\ \A s \in starts : s > start => k <= s
  IN  /\ start \in starts /\ \A s \in starts : start <= s
      /\ Len(blob) = size /\ size % CHUNK_SIZE = 0
      /\ \A k \in DOMAIN data : Belongs(k) => k <= start + size
      /\ \/ \E k \in DOMAIN data : Belongs(k) /\ k > (start + size) - CHUNK_SIZE
         \/ \E s \in starts : s > (start + size) - CHUNK_SIZE

FirstStart(data) == Min(image_starts(data))
FirstSize(data)  == padded(image_length(data))
FirstBlob(data)  == SubSeq(data, FirstStart(data) + 1, FirstStart(data) + FirstSize(data))

(* What a binary gives is its first image and all of it. *)
LEMMA BinaryIsComplete ==
  ASSUME NEW data \in Seq(Byte), image_starts(data) # {},
         FirstStart(data) + FirstSize(data) <= Len(data)
  PROVE  IsFirstImage(data, FirstStart(data), FirstSize(data), FirstBlob(data))
  <1> DEFINE start == FirstStart(data)
             size  == FirstSize(data)
             blob  == FirstBlob(data)
  <1> DEFINE length == image_length(data)
             end == start + length
             starts == image_starts(data)
             n == Len(data)
  <1>1. /\ start \in starts /\ start \in Nat /\ \A s \in starts : start <= s
        /\ length \in Nat
        /\ \/ /\ end \in starts /\ end > start
              /\ \A s \in starts : s > start => end <= s
           \/ /\ \A s \in starts : s = start
              /\ end \in 1..n /\ end > start /\ data[end] # 0
              /\ \A k \in 1..n : data[k] # 0 => k <= end
    BY ImageLength DEF FirstStart
  <1>2. DOMAIN data = 1..n /\ n \in Nat
    OBVIOUS
  <1>3. /\ size \in Nat /\ length <= size /\ size < length + CHUNK_SIZE
        /\ size % CHUNK_SIZE = 0
    BY <1>1, PaddedUp DEF FirstSize
  <1>4. CHUNK_SIZE \in Nat \ {0}
    BY SizeAssumption
  <1>5. starts \subseteq Nat
    BY StartsLieInTheFile
  <1>6. start \in Nat /\ length \in Nat /\ size \in Nat /\ n \in Nat /\ start + size <= n
    BY <1>1, <1>2, <1>3
  <1>7. Len(blob) = size
    BY <1>6, PieceLength DEF n, FirstBlob
  <1> DEFINE Belongs(k) == k > start /\ data[k] # 0 /\ \A s \in starts : s > start => k <= s
  <1> HIDE DEF length, starts, n, start, size, blob
  <1>8. end \in Nat /\ end <= start + size /\ end > (start + size) - CHUNK_SIZE
    <2> SUFFICES ASSUME NEW x \in Nat, NEW l \in Nat, NEW z \in Nat, NEW c \in Nat,
                        l <= z, z < l + c
                 PROVE  x + l \in Nat /\ x + l <= x + z /\ x + l > (x + z) - c
      BY <1>3, <1>4, <1>6
    <2> QED OBVIOUS
  <1> HIDE DEF end
  <1>10. ASSUME NEW k \in 1..n, Belongs(k) PROVE k <= start + size
    <2>1. k <= end
      BY <1>1, <1>8, <1>10
    <2> QED BY <2>1, <1>3, <1>6, <1>8
  <1>9. \/ \E k \in 1..n : Belongs(k) /\ k > (start + size) - CHUNK_SIZE
        \/ \E s \in starts : s > (start + size) - CHUNK_SIZE
    <2>1. CASE end \in starts
      BY <2>1, <1>8
    <2>2. CASE ~(end \in starts)
      <3>1. (\A s \in starts : s = start) /\ end \in 1..n /\ end > start /\ data[end] # 0
        BY <2>2, <1>1
      <3>2. Belongs(end)
        BY <3>1, <1>1
      <3> QED BY <3>1, <3>2, <1>8
    <2> QED BY <2>1, <2>2
  <1> QED BY <1>1, <1>2, <1>3, <1>7, <1>9, <1>10, Zenon
          DEF IsFirstImage, starts, start, size, blob

-----------------------------------------------------------------------------
(* The search in a capture.                                                *)

Pieces == Seq(Seq(Byte))

IsRun(p, i, j) == \A k \in i..j : Len(p[k]) = CHUNK_SIZE

IsWhole(p, i, j) ==
  /\ i > 1 => Len(p[i - 1]) # CHUNK_SIZE
  /\ j < Len(p) => Len(p[j + 1]) # CHUNK_SIZE

(* r is empty or a run of p with nothing to add. *)
IsWholeRun(p, r) ==
  r # <<>> => \E i, j \in 1..Len(p) :
                i <= j /\ r = SubSeq(p, i, j) /\ IsRun(p, i, j) /\ IsWhole(p, i, j)

(* What the loop knows after n payloads: run is the run that ends there,   *)
(* best a whole one before it, and one of them is as long as any.          *)
RunSince(p, s, n, a) ==
  /\ s.run = SubSeq(p, a + 1, n)
  /\ IsRun(p, a + 1, n)
  /\ a > 0 => Len(p[a]) # CHUNK_SIZE

Scanned(p, s, n) ==
  /\ \E a \in 0..n : RunSince(p, s, n, a)
  /\ IsWholeRun(p, s.best)
  /\ \A i \in 1..n : \A j \in i..n :
       IsRun(p, i, j) => j - i + 1 <= Len(s.run) \/ j - i + 1 <= Len(s.best)

Scans == [run : Pieces, best : Pieces]

LongerOf(run, best) == IF Len(run) > Len(best) THEN run ELSE best

ScanStep(p, s, n) ==
  IF Len(p[n]) = CHUNK_SIZE THEN [s EXCEPT !.run = Append(@, p[n])]
  ELSE [run |-> <<>>, best |-> LongerOf(s.run, s.best)]

LEMMA Piece ==
  ASSUME NEW S, NEW p \in Seq(S), NEW a \in Nat, NEW n \in Nat, a <= n, n <= Len(p)
  PROVE  /\ SubSeq(p, a + 1, n) \in Seq(S)
         /\ Len(SubSeq(p, a + 1, n)) = n - a
         /\ \A k \in 1..(n - a) : SubSeq(p, a + 1, n)[k] = p[a + k]
  <1>1. CASE a = n
    BY <1>1
  <1>2. CASE a # n
    <2>1. a + 1 \in 1..Len(p) /\ n \in 1..Len(p) /\ a + 1 <= n
      BY <1>2
    <2> QED BY <2>1
  <1> QED BY <1>1, <1>2

LEMMA PieceGrows ==
  ASSUME NEW S, NEW p \in Seq(S), NEW n \in 1..Len(p), NEW a \in 0..(n - 1)
  PROVE  SubSeq(p, a + 1, n) = Append(SubSeq(p, a + 1, n - 1), p[n])
  <1> DEFINE old == SubSeq(p, a + 1, n - 1)
             new == SubSeq(p, a + 1, n)
  <1>1. /\ old \in Seq(S) /\ Len(old) = (n - 1) - a
        /\ \A k \in 1..((n - 1) - a) : old[k] = p[a + k]
    <2>1. a \in Nat /\ n - 1 \in Nat /\ a <= n - 1 /\ n - 1 <= Len(p)
      OBVIOUS
    <2> QED BY <2>1, Piece
  <1>2. /\ new \in Seq(S) /\ Len(new) = n - a
        /\ \A k \in 1..(n - a) : new[k] = p[a + k]
    <2>1. a \in Nat /\ n \in Nat /\ a <= n /\ n <= Len(p)
      OBVIOUS
    <2> QED BY <2>1, Piece
  <1> HIDE DEF old, new
  <1> DEFINE joined == Append(old, p[n])
  <1>3. p[n] \in S /\ n - a \in Nat /\ n \in Nat /\ a \in Nat
    OBVIOUS
  <1>4. joined \in Seq(S) /\ Len(joined) = n - a
    BY <1>1, <1>3
  <1>5. \A k \in 1..(n - a) : joined[k] = p[a + k]
    BY <1>1, <1>3
  <1> HIDE DEF joined
  <1>6. new = joined
    BY <1>2, <1>4, <1>5, SeqEqual
  <1> QED BY <1>6 DEF new, joined, old

LEMMA OneMore ==
  ASSUME NEW S, NEW s \in Seq(S), NEW e \in S
  PROVE  Append(s, e) \in Seq(S) /\ Len(Append(s, e)) = Len(s) + 1
  OBVIOUS

(* A part of the payloads of a device. *)
LEMMA SomePieces ==
  ASSUME NEW p \in Pieces, NEW a \in Nat, NEW n \in Nat, a <= n, n <= Len(p)
  PROVE  /\ SubSeq(p, a + 1, n) \in Pieces
         /\ Len(SubSeq(p, a + 1, n)) = n - a
         /\ \A k \in 1..(n - a) : SubSeq(p, a + 1, n)[k] = p[a + k]
  <1> DEFINE S == Seq(Byte)
  <1>1. p \in Seq(S) /\ Pieces = Seq(S)
    BY DEF Pieces
  <1> HIDE DEF S
  <1> QED BY <1>1, Piece

LEMMA ScanStepKeeps ==
  ASSUME NEW p \in Pieces, NEW n \in 1..Len(p), NEW s \in Scans, Scanned(p, s, n - 1)
  PROVE  ScanStep(p, s, n) \in Scans /\ Scanned(p, ScanStep(p, s, n), n)
  <1> DEFINE t == ScanStep(p, s, n)
             C == CHUNK_SIZE
  <1>1. p[n] \in Seq(Byte) /\ n \in Nat /\ n - 1 \in Nat /\ Len(p) \in Nat
    BY DEF Pieces
  <1>2. s.run \in Pieces /\ s.best \in Pieces /\ s = [run |-> s.run, best |-> s.best]
    BY DEF Scans
  <1>3. Len(s.run) \in Nat /\ Len(s.best) \in Nat
    BY <1>2 DEF Pieces
  <1>4. PICK a \in 0..(n - 1) : RunSince(p, s, n - 1, a)
    BY DEF Scanned
  <1>5. Len(s.run) = (n - 1) - a
    BY <1>1, <1>4, Piece DEF RunSince, Pieces
  <1>6. \A i \in 1..(n - 1) : \A j \in i..(n - 1) :
          IsRun(p, i, j) => j - i + 1 <= Len(s.run) \/ j - i + 1 <= Len(s.best)
    BY DEF Scanned
  <1>7. CASE Len(p[n]) = C
    <2>1. t = [run |-> Append(s.run, p[n]), best |-> s.best]
      BY <1>2, <1>7 DEF ScanStep
    <2> DEFINE run == Append(s.run, p[n])
    <2>2. run \in Pieces /\ Len(run) = n - a
      <3>1. run \in Pieces /\ Len(run) = Len(s.run) + 1
        BY <1>1, <1>2, OneMore DEF Pieces
      <3> HIDE DEF run
      <3> QED BY <3>1, <1>1, <1>5
    <2> HIDE DEF run, t
    <2>3. t \in Scans /\ t.run = run /\ t.best = s.best
      BY <1>2, <2>1, <2>2 DEF Scans, run
    <2>4. RunSince(p, t, n, a)
      <3>1. run = SubSeq(p, a + 1, n)
        BY <1>4, PieceGrows DEF run, RunSince, Pieces
      <3>2. IsRun(p, a + 1, n)
        <4>1. \A k \in (a + 1)..n : k \in (a + 1)..(n - 1) \/ k = n
          OBVIOUS
        <4> QED BY <4>1, <1>4, <1>7 DEF RunSince, IsRun
      <3> QED BY <2>3, <3>1, <3>2, <1>4 DEF RunSince
    <2>5. IsWholeRun(p, t.best)
      BY <2>3 DEF Scanned
    <2>6. ASSUME NEW i \in 1..n, NEW j \in i..n, IsRun(p, i, j)
          PROVE  j - i + 1 <= Len(t.run) \/ j - i + 1 <= Len(t.best)
      <3>1. CASE j = n
        <4>1. ~(a > 0 /\ i <= a)
          <5>1. a > 0 /\ i <= a => a \in i..j /\ Len(p[a]) # C
            BY <3>1, <1>4 DEF RunSince
          <5> QED BY <5>1, <2>6 DEF IsRun
        <4>2. j - i + 1 <= n - a
          BY <3>1, <4>1
        <4> QED BY <4>2, <2>2, <2>3
      <3>2. CASE j # n
        <4>1. i \in 1..(n - 1) /\ j \in i..(n - 1)
          BY <3>2
        <4>2. j - i + 1 <= Len(s.run) \/ j - i + 1 <= Len(s.best)
          BY <4>1, <1>6, <2>6
        <4>3. Len(s.run) <= Len(t.run) /\ t.best = s.best
          BY <1>5, <2>2, <2>3
        <4>4. Len(t.run) \in Nat
          BY <2>2, <2>3 DEF Pieces
        <4> QED BY <4>2, <4>3, <4>4, <1>3
      <3> QED BY <3>1, <3>2
    <2>7. a \in 0..n
      OBVIOUS
    <2>8. Scanned(p, t, n)
      BY <2>4, <2>5, <2>6, <2>7 DEF Scanned
    <2> QED BY <2>3, <2>8 DEF t
  <1>8. CASE Len(p[n]) # C
    <2> DEFINE best == LongerOf(s.run, s.best)
    <2>1. t = [run |-> <<>>, best |-> best]
      BY <1>8 DEF ScanStep
    <2>2. /\ best \in Pieces /\ Len(s.run) <= Len(best) /\ Len(s.best) <= Len(best)
          /\ Len(best) \in Nat
      BY <1>2, <1>3 DEF LongerOf
    <2>3. best = s.best \/ (best = s.run /\ Len(s.run) > 0)
      BY <1>3 DEF LongerOf
    <2> HIDE DEF best, t
    <2>4. t \in Scans /\ t.run = <<>> /\ t.best = best
      <3>1. <<>> \in Pieces
        BY DEF Pieces
      <3> QED BY <2>1, <2>2, <3>1 DEF Scans
    <2>5. RunSince(p, t, n, n)
      <3>1. SubSeq(p, n + 1, n) = <<>>
        BY <1>1 DEF Pieces
      <3>2. \A k \in (n + 1)..n : FALSE
        OBVIOUS
      <3> QED BY <2>4, <3>1, <3>2, <1>8 DEF RunSince, IsRun
    <2>6. IsWholeRun(p, best)
      <3>1. CASE best = s.best
        BY <3>1 DEF Scanned
      <3>2. CASE best = s.run /\ Len(s.run) > 0
        <4>1. a + 1 \in 1..Len(p) /\ n - 1 \in 1..Len(p) /\ a + 1 <= n - 1
          BY <3>2, <1>5, <1>1
        <4>2. best = SubSeq(p, a + 1, n - 1) /\ IsRun(p, a + 1, n - 1)
          BY <3>2, <1>4 DEF RunSince
        <4>3. IsWhole(p, a + 1, n - 1)
          <5>1. (a + 1) - 1 = a /\ (n - 1) + 1 = n /\ (a + 1 > 1 => a > 0)
            OBVIOUS
          <5> QED BY <5>1, <1>4, <1>8 DEF RunSince, IsWhole
        <4> QED BY <4>1, <4>2, <4>3 DEF IsWholeRun
      <3> QED BY <2>3, <3>1, <3>2
    <2>7. ASSUME NEW i \in 1..n, NEW j \in i..n, IsRun(p, i, j)
          PROVE  j - i + 1 <= Len(best)
      <3>1. j # n
        <4>1. j = n => n \in i..j
          OBVIOUS
        <4> QED BY <4>1, <1>8, <2>7 DEF IsRun
      <3>2. i \in 1..(n - 1) /\ j \in i..(n - 1)
        BY <3>1
      <3>3. j - i + 1 <= Len(s.run) \/ j - i + 1 <= Len(s.best)
        BY <3>2, <1>6, <2>7
      <3> QED BY <3>3, <2>2, <1>3
    <2>8. n \in 0..n
      OBVIOUS
    <2>9. Scanned(p, t, n)
      BY <2>4, <2>5, <2>6, <2>7, <2>8 DEF Scanned
    <2> QED BY <2>4, <2>9 DEF t
  <1> QED BY <1>7, <1>8

(* The loop of extract: the first of the longest runs of a stream, empty   *)
(* if there is none.                                                       *)
LEMMA LongestRun ==
  ASSUME NEW p \in Pieces
  PROVE  /\ longest_run(p) \in Pieces
         /\ IsWholeRun(p, longest_run(p))
         /\ \A i \in 1..Len(p) : \A j \in i..Len(p) :
              IsRun(p, i, j) => j - i + 1 <= Len(longest_run(p))
  <1> DEFINE n == Len(p)
             none == [run |-> <<>>, best |-> <<>>]
             Longer(run, best) == IF Len(run) > Len(best) THEN run ELSE best
             Round(f, m) ==
               IF m = 0 THEN [run |-> <<>>, best |-> <<>>]
               ELSE IF Len(p[m]) = CHUNK_SIZE
               THEN [f[m - 1] EXCEPT !.run = Append(@, p[m])]
               ELSE [run |-> <<>>, best |-> Longer(f[m - 1].run, f[m - 1].best)]
             Is(f) == f = [m \in 0..Len(p) |-> Round(f, m)]
             after == CHOOSE f : Is(f)
             good == {m \in 0..n : after[m] \in Scans /\ Scanned(p, after[m], m)}
  <1>1. n \in Nat /\ \A m \in 1..n : p[m] \in Seq(Byte)
    BY DEF Pieces
  <1>2. none \in Scans
    <2>1. <<>> \in Pieces
      BY DEF Pieces
    <2> QED BY <2>1 DEF Scans
  <1>3. ASSUME NEW s \in Scans, NEW m \in 1..n PROVE ScanStep(p, s, m) \in Scans
    <2>1. /\ s.run \in Pieces /\ s.best \in Pieces /\ s = [run |-> s.run, best |-> s.best]
          /\ p[m] \in Seq(Byte) /\ <<>> \in Pieces
      BY <1>1 DEF Scans, Pieces
    <2>2. Append(s.run, p[m]) \in Pieces
      BY <2>1 DEF Pieces
    <2> QED BY <2>1, <2>2 DEF ScanStep, LongerOf, Scans
  <1>4. longest_run(p) = LongerOf(after[n].run, after[n].best)
    BY Zenon DEF longest_run, LongerOf
  <1>5. \A f : \A m \in 0..n : m # 0 => Round(f, m) = ScanStep(p, f[m - 1], m)
    BY Zenon DEF ScanStep, LongerOf
  <1>6. \A f : Round(f, 0) = none
    BY Zenon
  <1> HIDE DEF none, Longer
  <1>7. \E f : Is(f)
    <2> DEFINE turn == [q \in (1..n) \X Scans |-> ScanStep(p, q[2], q[1])]
    <2>1. turn \in [(1..n) \X Scans -> Scans]
      BY <1>3
    <2>2. PICK f : IsLoop(f, n, Scans, none, turn)
      <3> HIDE DEF turn
      <3> QED BY <2>1, <1>1, <1>2, LoopExists
    <2>3. ASSUME NEW m \in 1..n PROVE f[m] = ScanStep(p, f[m - 1], m)
      <3>1. f[m - 1] \in Scans /\ f[m] = turn[<<m, f[m - 1]>>]
        <4> HIDE DEF turn
        <4> QED BY <2>2 DEF IsLoop
      <3> QED BY <3>1
    <2>4. ASSUME NEW m \in 0..n PROVE f[m] = Round(f, m)
      <3> HIDE DEF Round
      <3>1. CASE m = 0
        BY <3>1, <1>6, <2>2 DEF IsLoop
      <3>2. CASE m # 0
        <4>1. m \in 1..n
          BY <3>2
        <4> QED BY <4>1, <3>2, <2>3, <1>5
      <3> QED BY <3>1, <3>2
    <2>5. f = [m \in 0..Len(p) |-> Round(f, m)]
      <3> HIDE DEF Round
      <3> QED BY <2>2, <2>4 DEF IsLoop
    <2> QED BY <2>5, Zenon
  <1>8. Is(after)
    BY <1>7
  <1> HIDE DEF after
  <1>9. after[0] = none /\ \A m \in 1..n : after[m] = ScanStep(p, after[m - 1], m)
    <2> HIDE DEF Round
    <2>1. \A m \in 0..n : after[m] = Round(after, m)
      BY <1>8
    <2>2. \A m \in 1..n : m # 0 /\ m \in 0..n
      OBVIOUS
    <2> QED BY <1>1, <1>5, <1>6, <2>1, <2>2
  <1>10. 0 \in good
    <2>1. none.run = <<>> /\ none.best = <<>>
      BY DEF none
    <2>2. RunSince(p, none, 0, 0)
      <3>1. SubSeq(p, 1, 0) = <<>> /\ \A k \in 1..0 : FALSE
        BY DEF Pieces
      <3> QED BY <2>1, <3>1 DEF RunSince, IsRun
    <2>3. Scanned(p, none, 0)
      <3>1. 0 \in 0..0 /\ \A i \in 1..0 : FALSE
        OBVIOUS
      <3> QED BY <2>1, <2>2, <3>1 DEF Scanned, IsWholeRun
    <2> QED BY <1>1, <1>2, <1>9, <2>3
  <1>11. ASSUME NEW m \in 1..n, m - 1 \in good PROVE m \in good
    <2>1. after[m - 1] \in Scans /\ Scanned(p, after[m - 1], m - 1)
      BY <1>11
    <2>2. after[m] \in Scans /\ Scanned(p, after[m], m)
      BY <2>1, <1>9, ScanStepKeeps
    <2> QED BY <2>2
  <1>12. 0..n \subseteq good
    <2> HIDE DEF good
    <2> QED BY <1>1, <1>10, <1>11, Induction
  <1>13. after[n] \in Scans /\ Scanned(p, after[n], n)
    <2>1. n \in 0..n
      BY <1>1
    <2> QED BY <2>1, <1>12
  <1> DEFINE s == after[n]
             r == longest_run(p)
  <1>14. PICK a \in 0..n : RunSince(p, s, n, a)
    BY <1>13 DEF Scanned
  <1>15. s.run \in Pieces /\ s.best \in Pieces /\ Len(s.run) \in Nat /\ Len(s.best) \in Nat
         /\ Len(s.run) = n - a
    <2>1. s.run \in Pieces /\ s.best \in Pieces
      BY <1>13 DEF Scans
    <2>2. s.run = SubSeq(p, a + 1, n) /\ a \in Nat /\ a <= n
      BY <1>1, <1>14 DEF RunSince
    <2>3. Len(s.run) = n - a
      <3> HIDE DEF s
      <3> QED BY <1>1, <2>2, SomePieces
    <2>4. Len(s.run) \in Nat /\ Len(s.best) \in Nat
      BY <2>1 DEF Pieces
    <2> QED BY <2>1, <2>3, <2>4
  <1> HIDE DEF s, r, good
  <1>16. /\ r = s.best \/ (r = s.run /\ Len(s.run) > 0)
         /\ Len(s.run) <= Len(r) /\ Len(s.best) <= Len(r) /\ Len(r) \in Nat
    BY <1>4, <1>15 DEF LongerOf, r, s
  <1>17. IsWholeRun(p, r)
    <2>1. CASE r = s.best
      BY <2>1, <1>13 DEF Scanned, s
    <2>2. CASE r = s.run /\ Len(s.run) > 0
      <3>1. a + 1 \in 1..n /\ n \in 1..n /\ a + 1 <= n
        BY <2>2, <1>1, <1>15
      <3>2. r = SubSeq(p, a + 1, n) /\ IsRun(p, a + 1, n)
        BY <2>2, <1>14 DEF RunSince
      <3>3. IsWhole(p, a + 1, n)
        <4>1. (a + 1) - 1 = a /\ (a + 1 > 1 => a > 0) /\ ~(n < n)
          BY <1>1
        <4> QED BY <4>1, <1>14 DEF RunSince, IsWhole
      <3> QED BY <3>1, <3>2, <3>3 DEF IsWholeRun
    <2> QED BY <1>16, <2>1, <2>2
  <1>18. ASSUME NEW i \in 1..n, NEW j \in i..n, IsRun(p, i, j) PROVE j - i + 1 <= Len(r)
    <2>1. j - i + 1 <= Len(s.run) \/ j - i + 1 <= Len(s.best)
      BY <1>13, <1>18 DEF Scanned, s
    <2> QED BY <2>1, <1>15, <1>16
  <1>19. r \in Pieces
    BY <1>15, <1>16
  <1> QED BY <1>17, <1>18, <1>19 DEF r

(* Payloads of one unit make an image of as many units. *)
LEMMA FlattenedUnits ==
  ASSUME NEW r \in Pieces, r # <<>>, \A k \in 1..Len(r) : Len(r[k]) = CHUNK_SIZE
  PROVE  FlattenSeq(r) \in Seq(Byte) /\ Len(FlattenSeq(r)) = Len(r) * CHUNK_SIZE
  <1> DEFINE n == Len(r)
             C == CHUNK_SIZE
             Round(f, m) == IF m = 1 THEN r[m] ELSE f[m - 1] \o r[m]
             Is(f) == f = [m \in 1..Len(r) |-> Round(f, m)]
             flat == CHOOSE f : Is(f)
             Bytes == Seq(Byte)
             Long(m) == flat[m] \in Bytes /\ Len(flat[m]) = m * C
  <1>1. n \in Nat \ {0} /\ C \in Nat \ {0} /\ \A m \in 1..n : r[m] \in Bytes
    BY SizeAssumption, EmptySeq DEF Pieces
  <1>2. FlattenSeq(r) = flat[n]
    <2>1. Len(r) # 0
      BY <1>1
    <2> QED BY <2>1 DEF FlattenSeq
  <1>3. \E f : Is(f)
    <2> DEFINE N == n - 1
               base == r[1]
               turn == [q \in (1..N) \X Bytes |-> q[2] \o r[q[1] + 1]]
    <2>1. N \in Nat /\ base \in Bytes
      BY <1>1
    <2>2. turn \in [(1..N) \X Bytes -> Bytes]
      <3>1. \A q \in (1..N) \X Bytes : r[q[1] + 1] \in Bytes
        BY <1>1
      <3> QED BY <3>1
    <2>3. PICK g : IsLoop(g, N, Bytes, base, turn)
      <3> HIDE DEF turn, base, N, Bytes
      <3> QED BY <2>1, <2>2, LoopExists
    <2>4. \A m \in 1..N : g[m] = g[m - 1] \o r[m + 1]
      <3> SUFFICES ASSUME NEW m \in 1..N PROVE g[m] = g[m - 1] \o r[m + 1]
        OBVIOUS
      <3>1. g[m - 1] \in Bytes /\ g[m] = turn[<<m, g[m - 1]>>]
        <4> HIDE DEF turn, N, base, Bytes
        <4>1. m - 1 \in 0..N
          BY <2>1
        <4> QED BY <2>1, <2>3, <4>1 DEF IsLoop
      <3> QED BY <3>1
    <2>5. g[0] = base
      BY <2>3 DEF IsLoop
    <2> DEFINE f == [m \in 1..n |-> g[m - 1]]
    <2>6. ASSUME NEW m \in 1..n PROVE f[m] = Round(f, m)
      <3>1. CASE m = 1
        BY <3>1, <2>5
      <3>2. CASE m # 1
        <4>1. m - 1 \in 1..N /\ m - 1 \in 1..n /\ (m - 1) + 1 = m
          BY <3>2
        <4>2. f[m] = g[m - 1] /\ f[m - 1] = g[(m - 1) - 1]
          BY <4>1
        <4>3. g[m - 1] = g[(m - 1) - 1] \o r[m]
          BY <4>1, <2>4
        <4> QED BY <4>2, <4>3, <3>2
      <3> QED BY <3>1, <3>2
    <2>7. f = [m \in 1..Len(r) |-> Round(f, m)]
      <3> HIDE DEF Round
      <3>1. f = [m \in 1..n |-> f[m]]
        OBVIOUS
      <3> HIDE DEF f
      <3> QED BY <2>6, <3>1
    <2> HIDE DEF f
    <2> QED BY <2>7, Zenon
  <1>4. Is(flat)
    BY <1>3
  <1> HIDE DEF flat
  <1>5. \A m \in 1..n : flat[m] = Round(flat, m)
    <2> HIDE DEF Round
    <2> QED BY <1>4
  <1> DEFINE good == {m \in 0..n : m # 0 => Long(m)}
  <1>6. 0 \in good
    BY <1>1
  <1>7. ASSUME NEW m \in 1..n, m - 1 \in good PROVE m \in good
    <2>1. r[m] \in Bytes /\ Len(r[m]) = C
      BY <1>1
    <2>2. CASE m = 1
      <3>1. flat[m] = r[m]
        BY <2>2, <1>5
      <3>2. 1 * C = C
        BY <1>1
      <3>3. Long(m)
        BY <2>1, <2>2, <3>1, <3>2
      <3> QED BY <3>3
    <2>3. CASE m # 1
      <3>1. m - 1 # 0 /\ Long(m - 1)
        BY <2>3, <1>7
      <3>2. flat[m] = flat[m - 1] \o r[m]
        BY <2>3, <1>5
      <3>3. flat[m] \in Bytes /\ Len(flat[m]) = Len(flat[m - 1]) + Len(r[m])
        <4> HIDE DEF Round
        <4> SUFFICES ASSUME NEW a \in Bytes, NEW b \in Bytes
                     PROVE  a \o b \in Bytes /\ Len(a \o b) = Len(a) + Len(b)
          BY <3>1, <3>2, <2>1
        <4> QED OBVIOUS
      <3>4. (m - 1) * C + C = m * C
        BY <1>1
      <3>5. Long(m)
        BY <3>1, <3>3, <3>4, <2>1
      <3> QED BY <3>5
    <2> QED BY <2>2, <2>3
  <1>8. 0..n \subseteq good
    <2> HIDE DEF good
    <2>1. n \in Nat
      BY <1>1
    <2> QED BY <2>1, <1>6, <1>7, Induction
  <1>9. Long(n)
    <2> HIDE DEF Long
    <2>1. n \in 0..n /\ n # 0
      BY <1>1
    <2> QED BY <2>1, <1>8
  <1> QED BY <1>2, <1>9

-----------------------------------------------------------------------------
(* What the extraction knows besides its properties: nothing is extracted  *)
(* before it is done, and a capture has no binary.                         *)
ExtractInv ==
  /\ binary \in Seq(Byte)
  /\ streams \in [Device -> Pieces]
  /\ (binary # <<>> \/ Extracted) => phase = "done"

(* The run that a device's download is. *)
LEMMA DownloadOfARun ==
  ASSUME NEW d \in Device, streams \in [Device -> Pieces], HasRun(d)
  PROVE  IsDownload(d, candidate(d))
  <1> DEFINE sent == streams[d]
             r == longest_run(sent)
             C == CHUNK_SIZE
             n == Len(sent)
  <1>1. sent \in Pieces /\ r # <<>>
    BY DEF HasRun
  <1>2. /\ r \in Pieces /\ IsWholeRun(sent, r)
        /\ \A i \in 1..n : \A j \in i..n : IsRun(sent, i, j) => j - i + 1 <= Len(r)
    BY <1>1, LongestRun
  <1>3. candidate(d) = FlattenSeq(r)
    BY DEF candidate
  <1>4. n \in Nat /\ DOMAIN sent = 1..n /\ C \in Nat \ {0}
    BY <1>1, SizeAssumption DEF Pieces
  <1> HIDE DEF r, sent, C, n
  <1>5. PICK i \in 1..n, j \in 1..n :
          i <= j /\ r = SubSeq(sent, i, j) /\ IsRun(sent, i, j) /\ IsWhole(sent, i, j)
    BY <1>1, <1>2 DEF IsWholeRun, n
  <1>6. Len(r) = (j - i) + 1 /\ \A k \in 1..Len(r) : Len(r[k]) = C
    <2>1. i - 1 \in Nat /\ i - 1 <= j /\ j \in Nat /\ j <= Len(sent) /\ (i - 1) + 1 = i
      BY <1>4, <1>5 DEF n
    <2>2. Len(r) = j - (i - 1) /\ \A k \in 1..(j - (i - 1)) : r[k] = sent[(i - 1) + k]
      BY <2>1, <1>1, <1>5, SomePieces
    <2>3. \A k \in 1..Len(r) : (i - 1) + k \in i..j /\ r[k] = sent[(i - 1) + k]
      BY <2>1, <2>2
    <2> QED BY <1>5, <2>1, <2>2, <2>3 DEF IsRun, C
  <1>7. Len(candidate(d)) = Len(r) * C
    BY <1>1, <1>2, <1>3, <1>6, FlattenedUnits DEF C
  <1>8. \A a \in 1..n : \A b \in a..n :
          IsRun(sent, a, b) => (b - a + 1) * C <= Len(candidate(d))
    <2> SUFFICES ASSUME NEW a \in 1..n, NEW b \in a..n, IsRun(sent, a, b)
                 PROVE  (b - a + 1) * C <= Len(candidate(d))
      OBVIOUS
    <2>1. b - a + 1 \in Nat /\ b - a + 1 <= Len(r) /\ Len(r) \in Nat
      BY <1>2, <1>4 DEF Pieces
    <2>2. ASSUME NEW x \in Nat, NEW y \in Nat, x <= y PROVE x * C <= y * C
      BY <2>2, <1>4
    <2> QED BY <2>1, <2>2, <1>7
  <1>9. FlattenSeq(SubSeq(sent, i, j)) = candidate(d)
    BY <1>3, <1>5
  <1>10. i \in DOMAIN sent /\ j \in i..n
    BY <1>4, <1>5
  <1> QED BY <1>4, <1>5, <1>8, <1>9, <1>10, Zenon DEF IsDownload, IsRun, IsWhole, sent, C, n

(* The loop finds one of the longest runs, and no run only if there is none. *)
LEMMA CandidateIsLongest ==
  ASSUME NEW d \in Device, streams \in [Device -> Pieces]
  PROVE  /\ HasRun(d) => candidate(d) \in LongestSent(streams[d])
         /\ LongestSent(streams[d]) # {} => HasRun(d)
  <1> DEFINE sent == streams[d]
             r == longest_run(sent)
             n == Len(sent)
             Runs == { q \in (DOMAIN sent) \X (DOMAIN sent) :
                         /\ q[1] <= q[2]
                         /\ \A k \in q[1]..q[2] : Len(sent[k]) = CHUNK_SIZE }
             Longest == {q \in Runs : \A o \in Runs : o[2] - o[1] <= q[2] - q[1]}
  <1>1. sent \in Pieces /\ n \in Nat /\ DOMAIN sent = 1..n
    BY DEF Pieces
  <1>2. /\ r \in Pieces /\ IsWholeRun(sent, r)
        /\ \A i \in 1..n : \A j \in i..n : IsRun(sent, i, j) => j - i + 1 <= Len(r)
    BY <1>1, LongestRun
  <1>3. LongestSent(streams[d]) = {FlattenSeq(SubSeq(sent, q[1], q[2])) : q \in Longest}
    BY DEF LongestSent
  <1>4. candidate(d) = FlattenSeq(r) /\ (HasRun(d) <=> sent # <<>> /\ r # <<>>)
    BY DEF candidate, HasRun
  <1> HIDE DEF r, sent, n
  <1>5. \A q \in Runs : q[1] \in 1..n /\ q[2] \in 1..n /\ q[2] - q[1] + 1 <= Len(r)
    <2> SUFFICES ASSUME NEW q \in Runs
                 PROVE  q[1] \in 1..n /\ q[2] \in 1..n /\ q[2] - q[1] + 1 <= Len(r)
      OBVIOUS
    <2>1. q[1] \in 1..n /\ q[2] \in 1..n /\ q[1] <= q[2]
      BY <1>1 DEF n, sent
    <2>2. IsRun(sent, q[1], q[2])
      BY DEF IsRun
    <2>3. q[2] \in q[1]..n
      BY <1>1, <2>1
    <2> QED BY <1>2, <2>1, <2>2, <2>3
  <1>6. ASSUME HasRun(d) PROVE candidate(d) \in LongestSent(streams[d])
    <2>1. PICK i \in 1..n, j \in 1..n :
            i <= j /\ r = SubSeq(sent, i, j) /\ IsRun(sent, i, j)
      BY <1>2, <1>4, <1>6 DEF IsWholeRun, n
    <2>2. Len(r) = j - i + 1
      <3>1. i - 1 \in Nat /\ i - 1 <= j /\ j \in Nat /\ j <= Len(sent) /\ (i - 1) + 1 = i
        BY <1>1, <2>1 DEF n
      <3> QED BY <1>1, <2>1, <3>1, SomePieces
    <2>3. <<i, j>> \in Runs
      BY <1>1, <2>1 DEF IsRun, sent, n
    <2>4. \A q \in Runs : q[2] - q[1] <= j - i
      BY <1>1, <1>5, <2>1, <2>2
    <2>5. <<i, j>> \in Longest
      BY <2>3, <2>4
    <2> HIDE DEF Longest
    <2> QED BY <1>3, <1>4, <2>1, <2>5
  <1>7. ASSUME LongestSent(streams[d]) # {} PROVE HasRun(d)
    <2>1. PICK q \in Runs : TRUE
      BY <1>3, <1>7
    <2>2. q[1] \in 1..n /\ q[2] \in 1..n /\ q[2] - q[1] + 1 <= Len(r) /\ q[1] <= q[2]
      BY <1>5, <2>1
    <2> HIDE DEF Runs
    <2>3. Len(r) \in Nat
      BY <1>2 DEF Pieces
    <2>4. n > 0 /\ Len(r) > 0
      BY <1>1, <2>2, <2>3
    <2>5. sent # <<>> /\ r # <<>>
      BY <2>4 DEF n
    <2> QED BY <1>4, <2>5
  <1> QED BY <1>6, <1>7

(* Two downloads that went to different devices share the devices between  *)
(* them, so one that has more than half of them has the most.              *)
LEMMA MajorityIsTaken ==
  ASSUME streams \in [Device -> Pieces], NEW blob \in most_common, NEW b,
         2 * Cardinality({d \in Device : LongestSent(streams[d]) = {b}})
           > Cardinality({d \in Device : LongestSent(streams[d]) # {}})
  PROVE  blob = b
  <1> DEFINE devices == {d \in Device : HasRun(d)}
             V(c) == {d \in devices : candidate(d) = c}
             Sent == {d \in Device : LongestSent(streams[d]) = {b}}
             Plugged == {d \in Device : LongestSent(streams[d]) # {}}
  <1>1. devices = Plugged
    BY CandidateIsLongest
  <1>2. IsFiniteSet(devices) /\ Cardinality(devices) \in Nat
    BY DeviceAssumption, FS_Subset, FS_CardinalityType
  <1>3. \A c : IsFiniteSet(V(c)) /\ Cardinality(V(c)) \in Nat
    BY <1>2, FS_Subset, FS_CardinalityType
  <1>4. Sent \subseteq V(b)
    BY CandidateIsLongest
  <1>5. IsFiniteSet(Sent) /\ Cardinality(Sent) \in Nat /\ Cardinality(Sent) <= Cardinality(V(b))
    <2> HIDE DEF Sent, V
    <2> QED BY <1>3, <1>4, FS_Subset, FS_CardinalityType
  <1>6. 2 * Cardinality(Sent) > Cardinality(devices)
    BY <1>1
  <1>7. Sent # {}
    <2> HIDE DEF Sent, devices
    <2>1. Cardinality(Sent) # 0
      BY <1>2, <1>5, <1>6
    <2> QED BY <2>1, FS_EmptySet
  <1>8. Cardinality(V(b)) <= Cardinality(V(blob))
    <2>1. PICK d \in devices : candidate(d) = b
      BY <1>4, <1>7
    <2>2. \A e \in devices : Cardinality(V(candidate(e))) <= Cardinality(V(blob))
      BY DEF most_common
    <2> HIDE DEF V, devices
    <2> QED BY <2>1, <2>2
  <1>9. ASSUME blob # b PROVE FALSE
    <2>1. V(b) \cap V(blob) = {} /\ V(b) \cup V(blob) \in SUBSET devices
      BY <1>9
    <2> HIDE DEF V, devices, Sent
    <2>2. Cardinality(V(b) \cup V(blob)) <= Cardinality(devices)
      BY <1>2, <2>1, FS_Subset
    <2>3. Cardinality(V(b) \cup V(blob)) = Cardinality(V(b)) + Cardinality(V(blob))
      <3>1. Cardinality(V(b) \cup V(blob))
              = Cardinality(V(b)) + Cardinality(V(blob)) - Cardinality(V(b) \cap V(blob))
        BY <1>3, FS_Union
      <3>2. Cardinality(V(b) \cap V(blob)) = 0
        BY <2>1, FS_EmptySet
      <3> QED BY <1>3, <3>1, <3>2
    <2> QED BY <1>2, <1>3, <1>5, <1>6, <1>8, <2>2, <2>3
  <1> QED BY <1>9

(* The image of a binary. *)
LEMMA ExtractBinaryKeeps ==
  ASSUME ExtractInv, ExtractBinary
  PROVE  ExtractInv' /\ BinaryImageIsComplete' /\ (Extracted' => FromBinary')
  <1>1. PICK data \in Binary :
          /\ binary' = data
          /\ result' = IF Len(data) < 4 THEN Error ELSE extract_from_binary(data)
    BY DEF ExtractBinary
  <1>2. data \in Seq(Byte)
    BY DataAssumption
  <1>3. phase' = "done" /\ streams' = streams
    BY DEF ExtractBinary
  <1>4. ExtractInv'
    BY <1>1, <1>2, <1>3 DEF ExtractInv
  <1>5. CASE Extracted'
    <2> DEFINE starts == image_starts(data)
               start  == FirstStart(data)
               size   == FirstSize(data)
               blob   == FirstBlob(data)
    <2>1. result'.status = "image"
      BY <1>5 DEF Extracted
    <2>2. Error.status # "image"
      BY DEF Error
    <2>3. ~(Len(data) < 4) /\ result' = extract_from_binary(data)
      BY <1>1, <2>1, <2>2
    <2>4. starts # {} /\ ~(start + size > Len(data)) /\ result' = Image(blob)
      <3>1. result' = IF starts = {} THEN Error
                      ELSE IF start + size > Len(data) THEN Error ELSE Image(blob)
        BY <2>3 DEF extract_from_binary, FirstStart, FirstSize, FirstBlob
      <3> HIDE DEF starts, start, size, blob
      <3> QED BY <3>1, <2>1, <2>2, Zenon
    <2>5. binary' # <<>>
      BY <1>1, <1>2, <2>3
    <2>6. result'.blob = blob
      BY <2>4 DEF Image
    <2>7. start \in Nat /\ size \in Nat /\ Len(data) \in Nat
      BY <1>2, <2>4, ImageLength, PaddedUp DEF FirstStart, FirstSize
    <2> HIDE DEF start, size, blob
    <2>8. start + size <= Len(data)
      BY <2>4, <2>7
    <2>9. IsFirstImage(data, start, size, blob)
      BY <1>2, <2>4, <2>8, BinaryIsComplete DEF start, size, blob
    <2>10. (start + size) - CHUNK_SIZE = start + size - CHUNK_SIZE
      BY <2>7, SizeAssumption
    <2> HIDE DEF starts
    <2>11. BinaryImageIsComplete'
      <3>1. /\ start \in image_starts(binary') /\ \A s \in image_starts(binary') : start <= s
            /\ result'.blob = SubSeq(binary', start + 1, start + size) /\ Len(result'.blob) = size
        BY <1>1, <2>6, <2>9 DEF IsFirstImage, FirstBlob, start, size, blob
      <3> QED BY <1>1, <2>9, <2>10, <3>1 DEF BinaryImageIsComplete, IsFirstImage
    <2> QED BY <1>4, <2>5, <2>11 DEF FromBinary
  <1> QED BY <1>4, <1>5 DEF BinaryImageIsComplete

(* The image of a capture. *)
LEMMA EndOfCaptureKeeps ==
  ASSUME ExtractInv, EndOfCapture
  PROVE  ExtractInv' /\ CaptureImageIsOneDownload' /\ MostDownloadsDecide' /\ ~FromBinary'
  <1>1. phase = "blocks" /\ phase' = "done" /\ streams' = streams /\ binary' = binary
    BY DEF EndOfCapture
  <1>2. ExtractInv' /\ ~FromBinary /\ ~FromBinary'
    BY <1>1 DEF ExtractInv, FromBinary
  <1>3. CASE Extracted'
    <2>1. result'.status = "image" /\ Error.status # "image"
      BY <1>3 DEF Extracted, Error
    <2>2. PICK blob \in most_common : result' = Image(blob)
      BY <2>1, Zenon DEF EndOfCapture
    <2>3. result'.blob = blob
      BY <2>2 DEF Image
    <2>4. PICK d \in Device : HasRun(d) /\ candidate(d) = blob
      BY <2>2 DEF most_common
    <2>5. IsDownload(d, blob)
      BY <2>4, DownloadOfARun DEF ExtractInv
    <2>6. CaptureImageIsOneDownload'
      BY <1>1, <2>3, <2>5 DEF CaptureImageIsOneDownload, IsDownload
    <2>7. ASSUME NEW b,
                 2 * Cardinality({e \in Device : LongestSent(streams[e]) = {b}})
                   > Cardinality({e \in Device : LongestSent(streams[e]) # {}})
          PROVE  blob = b
      BY <2>2, <2>7, MajorityIsTaken DEF ExtractInv
    <2>8. \A b : {e \in {f \in Device : LongestSent(streams[f]) # {}} : LongestSent(streams[e]) = {b}}
                  = {e \in Device : LongestSent(streams[e]) = {b}}
      OBVIOUS
    <2>9. MostDownloadsDecide'
      <3>1. Extracted' /\ ~FromBinary' =>
              LET Plugged == {e \in Device : LongestSent(streams[e]) # {}}
                  Sent(c) == {e \in Plugged : LongestSent(streams[e]) = {c}}
              IN  \A e \in Plugged : \A c \in LongestSent(streams[e]) :
                    2 * Cardinality(Sent(c)) > Cardinality(Plugged) => result'.blob = c
        BY <2>3, <2>7, <2>8
      <3> QED BY <1>1, <3>1 DEF MostDownloadsDecide, FromBinary
    <2> QED BY <1>2, <2>6, <2>9
  <1> QED BY <1>2, <1>3 DEF CaptureImageIsOneDownload, MostDownloadsDecide

EInv ==
  /\ ExtractInv
  /\ BinaryImageIsComplete /\ CaptureImageIsOneDownload /\ MostDownloadsDecide

(* While there is no image, there is nothing to say of one. *)
LEMMA NothingExtracted ==
  ASSUME ~Extracted
  PROVE  BinaryImageIsComplete /\ CaptureImageIsOneDownload /\ MostDownloadsDecide
  BY DEF BinaryImageIsComplete, CaptureImageIsOneDownload, MostDownloadsDecide

LEMMA ExtractInitially ==
  ASSUME Init
  PROVE  EInv
  <1>1. ~Extracted
    BY DEF Init, Extracted
  <1>2. binary = <<>> /\ streams = [d \in Device |-> <<>>] /\ <<>> \in Pieces
    BY DEF Init, Pieces
  <1>3. ExtractInv
    BY <1>1, <1>2 DEF ExtractInv
  <1> QED BY <1>1, <1>3, NothingExtracted DEF EInv

(* A step before the end of the extraction gives no image. *)
LEMMA BlockKeeps ==
  ASSUME ExtractInv, phase \in {"start", "blocks"}, binary' = binary,
         result' = result \/ result' = Error,
         streams' \in [Device -> Pieces]
  PROVE  ExtractInv' /\ ~Extracted'
  <1>1. ~Extracted /\ binary = <<>>
    BY DEF ExtractInv
  <1>2. ~Extracted'
    BY <1>1 DEF Extracted, Error
  <1> QED BY <1>1, <1>2 DEF ExtractInv

LEMMA PacketIsKept ==
  ASSUME ExtractInv, PacketBlock
  PROVE  streams' \in [Device -> Pieces]
  <1>1. PICK d \in Device, p \in Payload : streams' = [streams EXCEPT ![d] = Append(@, p)]
    BY DEF PacketBlock
  <1>2. p \in Seq(Byte) /\ streams \in [Device -> Pieces]
    BY DataAssumption DEF ExtractInv
  <1>3. Append(streams[d], p) \in Pieces
    BY <1>2 DEF Pieces
  <1> HIDE DEF ExtractInv
  <1> QED BY <1>1, <1>2, <1>3

LEMMA ExtractStep ==
  ASSUME EInv, [Next]_vars
  PROVE  EInv'
  <1> USE DEF EInv
  <1>1. CASE Start
    <2>1. ExtractInv' /\ ~Extracted'
      BY <1>1, BlockKeeps DEF Start, ExtractInv
    <2> QED BY <2>1 DEF BinaryImageIsComplete, CaptureImageIsOneDownload, MostDownloadsDecide
  <1>2. CASE ExtractBinary
    BY <1>2, ExtractBinaryKeeps DEF CaptureImageIsOneDownload, MostDownloadsDecide
  <1>3. CASE InterfaceBlock \/ SkippedBlock \/ CorruptBlock
    <2>1. ExtractInv' /\ ~Extracted'
      BY <1>3, BlockKeeps DEF InterfaceBlock, SkippedBlock, CorruptBlock, NextBlock, ExtractInv
    <2> QED BY <2>1 DEF BinaryImageIsComplete, CaptureImageIsOneDownload, MostDownloadsDecide
  <1>4. CASE PacketBlock
    <2>1. ExtractInv' /\ ~Extracted'
      <3>1. streams' \in [Device -> Pieces]
        BY <1>4, PacketIsKept
      <3>2. phase = "blocks" /\ binary' = binary /\ result' = result
        BY <1>4 DEF PacketBlock, NextBlock
      <3> QED BY <3>1, <3>2, BlockKeeps
    <2> QED BY <2>1 DEF BinaryImageIsComplete, CaptureImageIsOneDownload, MostDownloadsDecide
  <1>5. CASE EndOfCapture
    BY <1>5, EndOfCaptureKeeps DEF BinaryImageIsComplete
  <1>6. CASE UNCHANGED vars
    <2>1. ExtractInv'
      BY <1>6 DEF vars, ExtractInv, Extracted
    <2>2. BinaryImageIsComplete'
      BY <1>6 DEF vars, BinaryImageIsComplete, Extracted, FromBinary
    <2>3. CaptureImageIsOneDownload'
      BY <1>6 DEF vars, CaptureImageIsOneDownload, IsDownload, Extracted, FromBinary
    <2>4. MostDownloadsDecide'
      BY <1>6 DEF vars, MostDownloadsDecide, Extracted, FromBinary
    <2> QED BY <2>1, <2>2, <2>3, <2>4
  <1> QED BY <1>1, <1>2, <1>3, <1>4, <1>5, <1>6, Zenon DEF Next

(* The program takes the steps of the extraction in one of its own, and    *)
(* leaves what was extracted alone in all others.                          *)
LEMMA ToolExtracts ==
  ASSUME [ToolNext]_tvars
  PROVE  [Next]_vars
  BY DEF ToolNext, tvars, main, Search, DialogHasNone, DialogHasAddress, NoAddress, DialogFails,
         Fails, Download, Unpack, NoProgramUnpacks, extract, ExtractFails, Write

(* What is extracted is what the properties say, at every step of the      *)
(* program (extract_from_binary, extract).                                 *)
THEOREM ExtractionInvariance == ToolSpec => []EInv
  <1>1. ToolInit => EInv
    BY ExtractInitially DEF ToolInit
  <1>2. EInv /\ [ToolNext]_tvars => EInv'
    BY ToolExtracts, ExtractStep
  <1> QED BY <1>1, <1>2, PTL DEF ToolSpec

(* A binary gives its first image and all of it, whatever the file holds   *)
(* and whatever the size of a unit (extract_from_binary).                  *)
THEOREM BinaryGivesItsFirstImage == ToolSpec => []BinaryImageIsComplete
  <1>1. EInv => BinaryImageIsComplete
    BY DEF EInv
  <1> QED BY <1>1, ExtractionInvariance, PTL

(* A capture gives one whole run of payloads of one unit, and a longest    *)
(* one of its device (longest_run).                                        *)
THEOREM CaptureGivesOneDownload == ToolSpec => []CaptureImageIsOneDownload
  <1>1. EInv => CaptureImageIsOneDownload
    BY DEF EInv
  <1> QED BY <1>1, ExtractionInvariance, PTL

(* A download that went whole to more than half of the addresses of a      *)
(* capture is the image, whatever the others were sent and in whatever     *)
(* order their hash values come (longest_run, extract_firmware).           *)
THEOREM CaptureGivesTheMostSent == ToolSpec => []MostDownloadsDecide
  <1>1. EInv => MostDownloadsDecide
    BY DEF EInv
  <1> QED BY <1>1, ExtractionInvariance, PTL

-----------------------------------------------------------------------------
(* The dialogs of the catalog.                                             *)

Distinct(s) == \A i, j \in 1..Len(s) : s[i] = s[j] => i = j

Entries(s) == {s[k] : k \in DOMAIN s}

IdsStep(rows, u, n) == IF Contains(u, rows[n]) THEN u ELSE Append(u, rows[n])

(* The entries of the first n rows, once each. *)
Collected(rows, u, n) == Distinct(u) /\ Entries(u) = {rows[k] : k \in 1..n}

LEMMA IdsStepKeeps ==
  ASSUME NEW rows \in Seq(UpdateId), NEW n \in 1..Len(rows), NEW u \in Seq(UpdateId),
         Collected(rows, u, n - 1)
  PROVE  IdsStep(rows, u, n) \in Seq(UpdateId) /\ Collected(rows, IdsStep(rows, u, n), n)
  <1>1. rows[n] \in UpdateId /\ Len(u) \in Nat /\ DOMAIN u = 1..Len(u)
    OBVIOUS
  <1>2. 1..n = (1..(n - 1)) \cup {n}
    OBVIOUS
  <1>3. {rows[k] : k \in 1..n} = {rows[k] : k \in 1..(n - 1)} \cup {rows[n]}
    BY <1>2
  <1>4. CASE Contains(u, rows[n])
    <2>1. rows[n] \in Entries(u)
      BY <1>1, <1>4 DEF Contains, Entries
    <2>2. Entries(u) = {rows[k] : k \in 1..n}
      BY <2>1, <1>3, Zenon DEF Collected
    <2> QED BY <1>4, <2>2 DEF Collected, IdsStep
  <1>5. CASE ~Contains(u, rows[n])
    <2> DEFINE v == Append(u, rows[n])
    <2>1. /\ v \in Seq(UpdateId) /\ Len(v) = Len(u) + 1 /\ v[Len(u) + 1] = rows[n]
          /\ \A k \in 1..Len(u) : v[k] = u[k]
      BY <1>1
    <2>2. IdsStep(rows, u, n) = v
      BY <1>5 DEF IdsStep
    <2> HIDE DEF v
    <2>3. \A k \in 1..Len(u) : v[k] # rows[n]
      BY <1>5, <2>1 DEF Contains
    <2>4. \A k \in 1..Len(v) : k \in 1..Len(u) \/ k = Len(u) + 1
      BY <1>1, <2>1
    <2>5. Distinct(v)
      <3> SUFFICES ASSUME NEW i \in 1..Len(v), NEW j \in 1..Len(v), v[i] = v[j] PROVE i = j
        BY DEF Distinct
      <3>1. CASE i \in 1..Len(u) /\ j \in 1..Len(u)
        BY <3>1, <2>1 DEF Collected, Distinct
      <3> QED BY <3>1, <2>1, <2>3, <2>4
    <2>6. Entries(v) = Entries(u) \cup {rows[n]}
      <3>1. DOMAIN v = (1..Len(u)) \cup {Len(u) + 1}
        BY <1>1, <2>1
      <3> QED BY <1>1, <2>1, <3>1 DEF Entries
    <2>7. Collected(rows, v, n)
      BY <1>3, <2>5, <2>6, Zenon DEF Collected
    <2> QED BY <2>1, <2>2, <2>7
  <1> QED BY <1>4, <1>5

(* _catalog_update_ids: every entry of the page, once. *)
LEMMA UpdateIds ==
  ASSUME NEW rows \in Seq(UpdateId)
  PROVE  /\ catalog_update_ids(rows) \in Seq(UpdateId)
         /\ Collected(rows, catalog_update_ids(rows), Len(rows))
  <1> DEFINE n == Len(rows)
             S == Seq(UpdateId)
             Round(f, m) == IF m = 0 THEN <<>>
                            ELSE IF Contains(f[m - 1], rows[m]) THEN f[m - 1]
                            ELSE Append(f[m - 1], rows[m])
             Is(f) == f = [m \in 0..Len(rows) |-> Round(f, m)]
             ids == CHOOSE f : Is(f)
             good == {m \in 0..n : ids[m] \in S /\ Collected(rows, ids[m], m)}
  <1>1. n \in Nat /\ <<>> \in S /\ \A m \in 1..n : rows[m] \in UpdateId
    OBVIOUS
  <1>2. ASSUME NEW u \in S, NEW m \in 1..n PROVE IdsStep(rows, u, m) \in S
    BY <1>1 DEF IdsStep
  <1>3. catalog_update_ids(rows) = ids[n]
    BY Zenon DEF catalog_update_ids
  <1>4. \A f : \A m \in 0..n : m # 0 => Round(f, m) = IdsStep(rows, f[m - 1], m)
    BY Zenon DEF IdsStep
  <1>5. \A f : Round(f, 0) = <<>>
    BY Zenon
  <1> HIDE DEF S
  <1>6. \E f : Is(f)
    <2> DEFINE turn == [q \in (1..n) \X S |-> IdsStep(rows, q[2], q[1])]
    <2>1. turn \in [(1..n) \X S -> S]
      BY <1>2
    <2>2. PICK f : IsLoop(f, n, S, <<>>, turn)
      <3> HIDE DEF turn
      <3> QED BY <2>1, <1>1, LoopExists
    <2>3. ASSUME NEW m \in 1..n PROVE f[m] = IdsStep(rows, f[m - 1], m)
      <3>1. f[m - 1] \in S /\ f[m] = turn[<<m, f[m - 1]>>]
        <4> HIDE DEF turn, n
        <4>1. m - 1 \in 0..n
          BY <1>1
        <4> QED BY <2>2, <4>1 DEF IsLoop
      <3> QED BY <3>1
    <2>4. ASSUME NEW m \in 0..n PROVE f[m] = Round(f, m)
      <3> HIDE DEF Round
      <3>1. CASE m = 0
        BY <3>1, <1>5, <2>2 DEF IsLoop
      <3>2. CASE m # 0
        <4>1. m \in 1..n
          BY <3>2
        <4> QED BY <4>1, <3>2, <2>3, <1>4
      <3> QED BY <3>1, <3>2
    <2>5. f = [m \in 0..Len(rows) |-> Round(f, m)]
      <3> HIDE DEF Round
      <3> QED BY <2>2, <2>4 DEF IsLoop
    <2> QED BY <2>5, Zenon
  <1>7. Is(ids)
    BY <1>6
  <1> HIDE DEF ids
  <1>8. ids[0] = <<>> /\ \A m \in 1..n : ids[m] = IdsStep(rows, ids[m - 1], m)
    <2> HIDE DEF Round
    <2>1. \A m \in 0..n : ids[m] = Round(ids, m)
      BY <1>7
    <2>2. \A m \in 1..n : m # 0 /\ m \in 0..n
      OBVIOUS
    <2> QED BY <1>1, <1>4, <1>5, <2>1, <2>2
  <1>9. 0 \in good
    <2>1. Collected(rows, <<>>, 0)
      BY DEF Collected, Distinct, Entries
    <2> QED BY <1>1, <1>8, <2>1
  <1>10. ASSUME NEW m \in 1..n, m - 1 \in good PROVE m \in good
    <2>1. ids[m - 1] \in S /\ Collected(rows, ids[m - 1], m - 1)
      BY <1>10
    <2>2. ids[m] \in S /\ Collected(rows, ids[m], m)
      BY <2>1, <1>8, IdsStepKeeps DEF S
    <2> QED BY <2>2
  <1>11. 0..n \subseteq good
    <2> HIDE DEF good
    <2> QED BY <1>1, <1>9, <1>10, Induction
  <1>12. n \in 0..n
    BY <1>1
  <1> QED BY <1>3, <1>11, <1>12 DEF S

(* What the loop over the dialogs knows: update_ids is the page without    *)
(* repetitions, and those that were tried have no address.                 *)
DialogInv ==
  step = "dialog" =>
    /\ update_ids \in Seq(UpdateId) /\ Distinct(update_ids) /\ Entries(update_ids) = page
    /\ tried \in 0..Len(Candidates)
    /\ \A k \in 1..tried : Candidates[k] \notin has_cabinet

LEMMA CandidatesArePrefix ==
  ASSUME update_ids \in Seq(UpdateId)
  PROVE  /\ Candidates \in Seq(UpdateId)
         /\ Len(Candidates) = IF Len(update_ids) < MAX_DIALOGS THEN Len(update_ids) ELSE MAX_DIALOGS
         /\ \A k \in 1..Len(Candidates) : k \in 1..Len(update_ids) /\ Candidates[k] = update_ids[k]
  <1> DEFINE m == IF Len(update_ids) < MAX_DIALOGS THEN Len(update_ids) ELSE MAX_DIALOGS
  <1>1. m \in Nat /\ m <= Len(update_ids) /\ Len(update_ids) \in Nat
    BY ToolAssumption
  <1>2. Candidates = SubSeq(update_ids, 1, m)
    BY DEF Candidates
  <1> HIDE DEF m
  <1>3. /\ SubSeq(update_ids, 0 + 1, m) \in Seq(UpdateId)
        /\ Len(SubSeq(update_ids, 0 + 1, m)) = m - 0
        /\ \A k \in 1..(m - 0) : SubSeq(update_ids, 0 + 1, m)[k] = update_ids[0 + k]
    BY <1>1, Piece
  <1>4. 0 + 1 = 1 /\ m - 0 = m /\ \A k \in 1..m : 0 + k = k /\ k \in 1..Len(update_ids)
    BY <1>1
  <1> QED BY <1>2, <1>3, <1>4 DEF m

LEMMA DialogStep ==
  ASSUME DialogInv, [ToolNext]_tvars
  PROVE  DialogInv'
  <1>1. CASE Search
    <2>1. PICK n \in 1..MaxRows : \E rows \in [1..n -> UpdateId] :
            update_ids' = catalog_update_ids(rows) /\ page' = {rows[k] : k \in 1..n}
      BY <1>1 DEF Search
    <2>2. PICK rows \in [1..n -> UpdateId] :
            update_ids' = catalog_update_ids(rows) /\ page' = {rows[k] : k \in 1..n}
      BY <2>1
    <2>7. rows \in Seq(UpdateId) /\ Len(rows) = n
      BY ToolAssumption
    <2>3. /\ update_ids' \in Seq(UpdateId) /\ Distinct(update_ids')
          /\ Entries(update_ids') = page'
      BY <2>2, <2>7, UpdateIds DEF Collected
    <2>4. tried' = 0
      BY <1>1 DEF Search
    <2>5. Len(Candidates') \in Nat
      BY <2>3, ToolAssumption DEF Candidates
    <2> HIDE DEF Distinct, Entries
    <2>6. tried' \in 0..Len(Candidates') /\ \A k \in 1..tried' : FALSE
      BY <2>4, <2>5
    <2> QED BY <2>3, <2>6 DEF DialogInv
  <1>2. CASE DialogHasNone
    <2>1. /\ step = "dialog" /\ tried < Len(Candidates) /\ tried' = tried + 1
          /\ Candidates[tried + 1] \notin has_cabinet
          /\ UNCHANGED <<step, update_ids, page, has_cabinet>>
      BY <1>2 DEF DialogHasNone
    <2>2. /\ update_ids \in Seq(UpdateId) /\ Distinct(update_ids) /\ Entries(update_ids) = page
          /\ tried \in 0..Len(Candidates)
          /\ \A k \in 1..tried : Candidates[k] \notin has_cabinet
      BY <2>1 DEF DialogInv
    <2>3. Candidates' = Candidates /\ Len(Candidates) \in Nat
      BY <2>1, <2>2, CandidatesArePrefix DEF Candidates
    <2>4. tried' \in 0..Len(Candidates) /\ \A k \in 1..tried' : k \in 1..tried \/ k = tried + 1
      BY <2>1, <2>2, <2>3
    <2>5. \A k \in 1..tried' : Candidates[k] \notin has_cabinet
      BY <2>1, <2>2, <2>4
    <2> QED BY <2>1, <2>2, <2>3, <2>4, <2>5 DEF DialogInv, Distinct, Entries
  <1>3. CASE \/ main \/ DialogHasAddress \/ NoAddress \/ Download \/ Unpack \/ NoProgramUnpacks
             \/ Fails("search") \/ DialogFails \/ Fails("cabinet")
             \/ extract \/ ExtractFails \/ Write
    <2>1. step' # "dialog" \/ (step' = step /\ step # "dialog")
      BY <1>3 DEF main, DialogHasAddress, NoAddress, Download, Unpack, NoProgramUnpacks,
                  Fails, DialogFails, extract, ExtractFails, Write, Exit, tool
    <2> QED BY <2>1 DEF DialogInv
  <1>4. CASE UNCHANGED tvars
    BY <1>4 DEF tvars, tool, DialogInv, Candidates
  <1> QED BY <1>1, <1>2, <1>3, <1>4, Zenon DEF ToolNext

(* The number of dialogs that were asked. *)
LEMMA AskedAreManyOrAll ==
  ASSUME update_ids \in Seq(UpdateId), Distinct(update_ids), Entries(update_ids) = page
  PROVE  Asked = page \/ Cardinality(Asked) >= MAX_DIALOGS
  <1> DEFINE c == Candidates
             m == Len(c)
             asked == {c[n] : n \in DOMAIN c}
  <1>1. /\ c \in Seq(UpdateId)
        /\ m = IF Len(update_ids) < MAX_DIALOGS THEN Len(update_ids) ELSE MAX_DIALOGS
        /\ \A k \in 1..m : k \in 1..Len(update_ids) /\ c[k] = update_ids[k]
    BY CandidatesArePrefix
  <1>2. DOMAIN c = 1..m /\ m \in Nat /\ c \in [1..m -> asked]
    BY <1>1
  <1> HIDE DEF c
  <1>3. CASE Len(update_ids) < MAX_DIALOGS
    <2>1. DOMAIN c = DOMAIN update_ids /\ \A k \in DOMAIN c : c[k] = update_ids[k]
      BY <1>1, <1>2, <1>3
    <2>2. asked = Entries(update_ids)
      BY <2>1 DEF Entries
    <2> QED BY <2>2 DEF c, Asked
  <1>4. CASE ~(Len(update_ids) < MAX_DIALOGS)
    <2>1. \A a, b \in DOMAIN c : c[a] = c[b] => a = b
      BY <1>1, <1>2 DEF Distinct
    <2>2. \A t \in asked : \E k \in 1..m : c[k] = t
      BY <1>2
    <2>3. c \in Bijection(1..m, asked)
      <3> HIDE DEF asked, m
      <3> QED BY <1>2, <2>1, <2>2, Zenon DEF Bijection, Injection, Surjection, IsInjective
    <2>4. Cardinality(asked) = m
      <3> HIDE DEF asked, m
      <3> QED BY <1>2, <2>3, FS_CountingElements, Zenon DEF ExistsBijection
    <2>5. m = MAX_DIALOGS
      BY <1>1, <1>4
    <2> QED BY <2>4, <2>5, ToolAssumption DEF c, Asked
  <1> QED BY <1>3, <1>4

(* The download of the driver ends without an address only after every     *)
(* dialog that the program may ask was asked, of different entries         *)
(* (_catalog_update_ids, download_driver_cab).                             *)
THEOREM DialogsAreAsked == ToolSpec => GivesUpOnlyWithoutACabinet
  <1> DEFINE Whole == NoAddress => /\ Asked \cap has_cabinet = {}
                                   /\ Asked = page \/ Cardinality(Asked) >= MAX_DIALOGS
  <1>1. ToolInit => DialogInv
    BY DEF ToolInit, DialogInv
  <1>2. DialogInv /\ [ToolNext]_tvars => DialogInv'
    BY DialogStep
  <1>3. DialogInv => Whole
    <2> SUFFICES ASSUME DialogInv, NoAddress
                 PROVE  /\ Asked \cap has_cabinet = {}
                        /\ Asked = page \/ Cardinality(Asked) >= MAX_DIALOGS
      OBVIOUS
    <2>1. step = "dialog" /\ tried = Len(Candidates)
      BY DEF NoAddress, Fails
    <2>2. /\ update_ids \in Seq(UpdateId) /\ Distinct(update_ids) /\ Entries(update_ids) = page
          /\ \A k \in 1..Len(Candidates) : Candidates[k] \notin has_cabinet
      BY <2>1 DEF DialogInv
    <2>3. DOMAIN Candidates = 1..Len(Candidates)
      BY <2>2, CandidatesArePrefix
    <2>4. Asked \cap has_cabinet = {}
      BY <2>2, <2>3 DEF Asked
    <2> QED BY <2>2, <2>4, AskedAreManyOrAll
  <1>4. DialogInv /\ [ToolNext]_tvars => [Whole]_tvars
    BY <1>3
  <1>5. ToolSpec => [][Whole]_tvars
    <2> HIDE DEF Whole
    <2> QED BY <1>1, <1>2, <1>4, PTL DEF ToolSpec
  <1> QED BY <1>5 DEF GivesUpOnlyWithoutACabinet
=============================================================================
