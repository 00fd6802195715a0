-------------------------- MODULE Ft9201Features --------------------------
(***************************************************************************)
(* The two ends of the matcher: the keypoints of a frame                   *)
(* (ft9201_features_new), and the score of two frames from the keypoints   *)
(* and descriptors that they have (ft9201_match_pair).  Real numbers are   *)
(* exact: a mean stands in units of the sum of its weights, and the motion *)
(* of two pairs is a complex number whose length is never divided out.     *)
(* Left out: the division by the local deviation, and the descriptor of a  *)
(* keypoint, which is any number here; their distance is its square.       *)
(***************************************************************************)
EXTENDS Integers, SequencesExt

CONSTANTS
  Work,              \* the frames and the pairs of Ft9201Features to look at
  BoxRadius,         \* of the local mean
  Narrow, Wide,      \* the weights of the two Gaussians, in order
  KP_MIN_CONTRAST, KP_MAX, Step, Border,
  RANSAC_TOL_PX, MinLength

ASSUME FeatureAssumptions ==
  /\ BoxRadius \in Nat /\ Step \in Nat \ {0} /\ Border \in Nat /\ Border >= Step
  /\ KP_MAX \in Nat \ {0} /\ KP_MIN_CONTRAST \in Nat \ {0}
  /\ RANSAC_TOL_PX \in Nat \ {0} /\ MinLength \in Nat \ {0}

(* There are 2 * r + 1 weights, the same on both sides of the middle.      *)
ASSUME KernelAssumption ==
  \A k \in {Narrow, Wide} :
    /\ k \in Seq(Nat) /\ Len(k) % 2 = 1
    /\ \A i \in 1..Len(k) : k[i] = k[Len(k) + 1 - i]

Pixels(w, h) == (0..(w - 1)) \X (0..(h - 1))

(* A descriptor has unit length in the code: no distance is as large as    *)
(* G_MAXFLOAT.                                                             *)
Descriptor == 0..999
Keypoint   == [x : Int, y : Int, desc : Descriptor]

ASSUME WorkAssumption ==
  \A w \in Work :
    /\ w.kind = "pair" => w.a \in Seq(Keypoint) /\ w.b \in Seq(Keypoint)
    /\ w.kind = "frame" => /\ w.w \in Nat \ {0} /\ w.h \in Nat \ {0}
                           /\ w.img \in [Pixels(w.w, w.h) -> Nat]

VARIABLES
  work,      \* [kind |-> "frame", w, h, img] or [kind |-> "pair", a, b]
  result     \* <<>>, or <<what was computed from it>>

vars == <<work, result>>

KP_UPSCALE == 2

CLAMP(v, low, high) == IF v < low THEN low ELSE IF v > high THEN high ELSE v
Square(v) == v * v

(* s[1] + ... + s[n] *)
Total(s, n) ==
  LET sum[i \in 0..n] == IF i = 0 THEN 0 ELSE sum[i - 1] + s[i]
  IN  sum[n]

(* The 2 * r + 1 values around x, those of the edges held. *)
Held(line, n, x, r) == [i \in 1..(2 * r + 1) |-> line[CLAMP(x - r + i - 1, 0, n - 1)]]

Lines(img, w, h, filter(_, _)) ==
  LET row == [y \in 0..(h - 1) |-> filter([x \in 0..(w - 1) |-> img[<<x, y>>]], w)]
  IN  [p \in Pixels(w, h) |-> row[p[2]][p[1]]]

Columns(img, w, h, filter(_, _)) ==
  LET column == [x \in 0..(w - 1) |-> filter([y \in 0..(h - 1) |-> img[<<x, y>>]], h)]
  IN  [p \in Pixels(w, h) |-> column[p[1]][p[2]]]

-----------------------------------------------------------------------------
(* A frame becomes keypoints.                                              *)

(* Mutant: the pixel that leaves the window is that of the next one. *)
running_sum_late(line, n) ==
  LET run[x \in 0..(n - 1)] ==
        IF x = 0
        THEN Total(Held(line, n, 0, BoxRadius), 2 * BoxRadius + 1)
        ELSE run[x - 1] + line[CLAMP(x + BoxRadius, 0, n - 1)]
                        - line[CLAMP(x - BoxRadius, 0, n - 1)]
  IN  run

running_sum(line, n) ==
  LET run[x \in 0..(n - 1)] ==
        IF x = 0
        THEN Total(Held(line, n, 0, BoxRadius), 2 * BoxRadius + 1)
        ELSE run[x - 1] + line[CLAMP(x + BoxRadius, 0, n - 1)]
                        - line[CLAMP(x - 1 - BoxRadius, 0, n - 1)]
  IN  run

ft9201_box(img, w, h) ==
  Columns(Lines(img, w, h, running_sum), w, h, running_sum)

weighted_sum(k, line, n) ==
  [x \in 0..(n - 1) |->
     LET around == Held(line, n, x, Len(k) \div 2)
     IN  Total([i \in 1..Len(k) |-> k[i] * around[i]], Len(k))]

ft9201_gauss(img, w, h, k) ==
  LET Filter(line, n) == weighted_sum(k, line, n)
  IN  Columns(Lines(img, w, h, Filter), w, h, Filter)

ft9201_upscale(img, w, h) ==
  [p \in Pixels(w * KP_UPSCALE, h * KP_UPSCALE) |->
     img[<<p[1] \div KP_UPSCALE, p[2] \div KP_UPSCALE>>]]

Weight(k) == Square(Total(k, Len(k)))

difference_of_gaussians(up, uw, uh) ==
  LET g1 == ft9201_gauss(up, uw, uh, Narrow)
      g2 == ft9201_gauss(up, uw, uh, Wide)
  IN  [p \in Pixels(uw, uh) |-> g1[p] * Weight(Wide) - g2[p] * Weight(Narrow)]

Around(p) == {<<p[1] + dx, p[2] + dy>> : dx \in (-Step)..Step, dy \in (-Step)..Step}
             \ {p}

is_extremum(dog, p) ==
  /\ dog[p] >= KP_MIN_CONTRAST \/ -dog[p] >= KP_MIN_CONTRAST
  /\ \/ \A o \in Around(p) : dog[o] < dog[p]
     \/ \A o \in Around(p) : dog[o] > dog[p]

(* Mutant: the search begins one column late. *)
searched_late(uw, uh) ==
  ((Border + 1)..(uw - Border - 1)) \X (Border..(uh - Border - 1))

searched(uw, uh) == (Border..(uw - Border - 1)) \X (Border..(uh - Border - 1))

(* Line by line, until the array is full. *)
keypoints(img, w, h) ==
  LET uw  == w * KP_UPSCALE
      uh  == h * KP_UPSCALE
      dog == difference_of_gaussians(ft9201_upscale(img, w, h), uw, uh)
      found[n \in 0..(uw * uh)] ==
        IF n = 0 THEN <<>>
        ELSE LET kp == found[n - 1]
                 p  == <<(n - 1) % uw, (n - 1) \div uw>>
             IN  IF Len(kp) < KP_MAX /\ p \in searched(uw, uh) /\ is_extremum(dog, p)
                 THEN Append(kp, p) ELSE kp
  IN  found[uw * uh]

ft9201_features_new ==
  /\ work.kind = "frame"
  /\ result = <<>>
  /\ result' = << [ box |-> ft9201_box(work.img, work.w, work.h),
                    kp  |-> keypoints(work.img, work.w, work.h) ] >>
  /\ UNCHANGED work

-----------------------------------------------------------------------------
(* Two frames get a score.  A keypoint is [x, y, desc].                    *)

G_MAXFLOAT == 1000000

ft9201_desc_dist2(k, l) == Square(k.desc - l.desc)

FarAway == [d1 |-> G_MAXFLOAT, d2 |-> G_MAXFLOAT, j |-> 1]

(* Mutant: only the best so far becomes the second best. *)
nearest_displaced_only(k, b) ==
  LET after[n \in 0..Len(b)] ==
        IF n = 0 THEN FarAway
        ELSE LET m == after[n - 1]
                 d == ft9201_desc_dist2(k, b[n])
             IN  IF d < m.d1 THEN [d1 |-> d, d2 |-> m.d1, j |-> n] ELSE m
  IN  after[Len(b)]

(* The two best distances to k, and the first keypoint with the best. *)
nearest(k, b) ==
  LET after[n \in 0..Len(b)] ==
        IF n = 0 THEN FarAway
        ELSE LET m == after[n - 1]
                 d == ft9201_desc_dist2(k, b[n])
             IN  IF d < m.d1 THEN [d1 |-> d, d2 |-> m.d1, j |-> n]
                 ELSE IF d < m.d2 THEN [m EXCEPT !.d2 = d] ELSE m
  IN  after[Len(b)]

(* The square of MATCH_RATIO is 16/25. *)
accepted(m) == m.d2 > 0 /\ 25 * m.d1 < 16 * m.d2

pairs(a, b) ==
  LET found[n \in 0..Len(a)] ==
        IF n = 0 THEN <<>>
        ELSE LET m == nearest(a[n], b)
             IN  IF accepted(m) THEN Append(found[n - 1], [a |-> a[n], b |-> b[m.j]])
                 ELSE found[n - 1]
  IN  found[Len(a)]

Minus(k, l) == [x |-> k.x - l.x, y |-> k.y - l.y]
Length2(z)  == Square(z.x) + Square(z.y)

(* The product of z and the conjugate of v: its angle is that from v to z. *)
Turn(z, v)   == [x |-> z.x * v.x + z.y * v.y, y |-> z.y * v.x - z.x * v.y]
Turned(z, c) == [x |-> z.x * c.x - z.y * c.y, y |-> z.x * c.y + z.y * c.x]

(* s * sqrt(n) <= t *)
RootBelow(s, n, t) ==
  \/ s <= 0 /\ t >= 0
  \/ s > 0 /\ t >= 0 /\ Square(s) * n <= Square(t)
  \/ s <= 0 /\ t < 0 /\ Square(s) * n >= Square(t)

(* Mutant: the motion turns back and not forward. *)
motion_backward(p, q) == Turn(Minus(q.b, p.b), Minus(q.a, p.a))

(* The motion that p and q define turns by the angle of this number. *)
motion(p, q) == Turn(Minus(q.a, p.a), Minus(q.b, p.b))

(* Both distances are long enough, and do not differ by more than the      *)
(* tolerance: |sqrt m - sqrt n| <= T.                                      *)
keeps_distance(p, q) ==
  LET alen2 == Length2(Minus(q.a, p.a))
      blen2 == Length2(Minus(q.b, p.b))
      rest  == alen2 + blen2 - Square(RANSAC_TOL_PX)
  IN  /\ alen2 >= Square(MinLength) /\ blen2 >= Square(MinLength)
      /\ rest <= 0 \/ Square(rest) <= 4 * alen2 * blen2

(* Mutant: the movement is computed without the turn. *)
is_inlier_not_turned(c, p, r) ==
  LET z == [x |-> r.b.x, y |-> r.b.y]
      v == [x |-> r.a.x - p.a.x + p.b.x, y |-> r.a.y - p.a.y + p.b.y]
      rest  == Length2(z) + Length2(v) - Square(RANSAC_TOL_PX)
      moved == Turned(z, c)
  IN  RootBelow(rest, Length2(c), 2 * (moved.x * v.x + moved.y * v.y))

(* |u * (r.b - p.b) - (r.a - p.a)| <= T with u = c / |c|. *)
is_inlier(c, p, r) ==
  LET z == Minus(r.b, p.b)
      v == Minus(r.a, p.a)
      rest  == Length2(z) + Length2(v) - Square(RANSAC_TOL_PX)
      moved == Turned(z, c)
  IN  RootBelow(rest, Length2(c), 2 * (moved.x * v.x + moved.y * v.y))

inliers(all, p, q) ==
  Cardinality({n \in DOMAIN all : is_inlier(motion(p, q), p, all[n])})

hypotheses(all) ==
  {h \in (DOMAIN all) \X (DOMAIN all) : h[1] < h[2] /\ keeps_distance(all[h[1]], all[h[2]])}

(* The score is a fraction: the inliers of the best motion, of so many.    *)
(* Two keypoints of a may have the same partner, so it may be above 1.     *)
match_pair(a, b) ==
  LET all   == pairs(a, b)
      sizes == {inliers(all, all[h[1]], all[h[2]]) : h \in hypotheses(all)}
  IN  [ inliers |-> IF Len(a) < 4 \/ Len(b) < 4 \/ Len(all) < 3 THEN 0
                    ELSE Max({0} \cup sizes),
        of |-> IF Len(a) < Len(b) THEN Len(a) ELSE Len(b) ]

ft9201_match_pair ==
  /\ work.kind = "pair"
  /\ result = <<>>
  /\ result' = <<match_pair(work.a, work.b)>>
  /\ UNCHANGED work

-----------------------------------------------------------------------------
Init == work \in Work /\ result = <<>>

Next == ft9201_features_new \/ ft9201_match_pair

Spec == Init /\ [][Next]_vars

-----------------------------------------------------------------------------
HasKeypoints == work.kind = "frame" /\ result # <<>>
HasScore     == work.kind = "pair" /\ result # <<>>

(* The sum that runs along a line and adds and removes one pixel at each   *)
(* step is, at each pixel and at each edge of the frame, the sum over the  *)
(* window around it with the values of the edge held (ft9201_box).         *)
BoxIsWindowSum ==
  HasKeypoints =>
    LET size == 2 * BoxRadius + 1
        Value(x, y) == work.img[<<CLAMP(x, 0, work.w - 1), CLAMP(y, 0, work.h - 1)>>]
    IN  \A p \in Pixels(work.w, work.h) :
          result[1].box[p] =
            Total([j \in 1..size |->
              Total([i \in 1..size |->
                Value(p[1] - BoxRadius + i - 1, p[2] - BoxRadius + j - 1)], size)], size)

(* A finger that lies on the sensor at a right angle gives the same        *)
(* keypoints at that angle: no step of the detection prefers a direction   *)
(* or a side of the frame.  A full array breaks this, since the search     *)
(* stops at the lower lines (ft9201_features_new).                         *)
TurnedFrameHasTurnedKeypoints ==
  HasKeypoints /\ Len(result[1].kp) < KP_MAX =>
    LET kp  == result[1].kp
        img == [p \in Pixels(work.h, work.w) |-> work.img[<<p[2], work.h - 1 - p[1]>>]]
        last == work.h * KP_UPSCALE - 1
        turned == {<<last - kp[n][2], kp[n][1]>> : n \in DOMAIN kp}
        kp2 == keypoints(img, work.h, work.w)
    IN  {kp2[n] : n \in DOMAIN kp2} = turned

MovedPoint(k) == [x |-> 3 - k.y, y |-> k.x - 2, desc |-> k.desc]
MovedFrame(b) == [n \in DOMAIN b |-> MovedPoint(b[n])]

(* A second press of the same skin, moved and turned by a right angle,     *)
(* gets the score of the first (ft9201_match_pair).                        *)
ScoreSurvivesMotion ==
  HasScore => match_pair(work.a, MovedFrame(work.b)) = result[1]

(* A motion is confirmed at least by the two pairs that define it, so the  *)
(* turn and the movement that are computed from them fit them.             *)
EveryMotionFitsItsPairs ==
  HasScore =>
    LET all == pairs(work.a, work.b)
        enough == Len(work.a) >= 4 /\ Len(work.b) >= 4 /\ Len(all) >= 3
    IN  enough /\ hypotheses(all) # {} => result[1].inliers >= 2

(* Ridge texture that occurs twice in the new frame gives no pair, in      *)
(* whatever order its keypoints come: the second best distance is then the *)
(* best one, and the ratio test of Lowe refuses it.                        *)
RepeatedTextureScoresNothing ==
  HasScore /\ (\A n \in DOMAIN work.b : \E m \in DOMAIN work.b :
                 m # n /\ work.b[m].desc = work.b[n].desc)
    => result[1].inliers = 0

============================================================================
