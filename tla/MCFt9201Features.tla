------------------------- MODULE MCFt9201Features -------------------------
(* All frames of 3 x 3 and of 2 x 4 pixels in black and white, and the     *)
(* pairs of a few shapes of three to five keypoints with all descriptors.  *)
EXTENDS Ft9201Features

MCNarrow == <<1, 2, 1>>
MCWide   == <<1, 1, 1, 1, 1>>

Frames == UNION {{[kind |-> "frame", w |-> size[1], h |-> size[2], img |-> img] :
                    img \in [Pixels(size[1], size[2]) -> {0, 1}]} :
                  size \in {<<3, 3>>, <<2, 4>>}}

Shapes == { << <<0, 0>>, <<6, 0>>, <<0, 6>>, <<6, 5>> >>,
            << <<0, 0>>, <<2, 4>>, <<6, 6>>, <<5, 1>> >>,
            << <<0, 0>>, <<2, 0>>, <<6, 1>>, <<0, 6>>, <<6, 6>> >>,
            << <<0, 1>>, <<0, 5>>, <<4, 5>> >> }

Features == UNION {{[n \in DOMAIN s |-> [x |-> s[n][1], y |-> s[n][2], desc |-> d[n]]] :
                      d \in [DOMAIN s -> {0, 4, 9, 15}]} : s \in Shapes}

(* One order of the descriptors is enough for one of the two frames. *)
Sorted == {f \in Features : \A n \in 2..Len(f) : f[n - 1].desc <= f[n].desc}

MCWork == Frames \cup [kind : {"pair"}, a : Sorted, b : Features]
===========================================================================
