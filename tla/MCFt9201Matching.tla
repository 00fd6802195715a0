------------------------- MODULE MCFt9201Matching -------------------------
(* Frames of two pixels, of two values: a pair of frames agrees in none,   *)
(* one or both.  The environments and the foreign prints come out at each  *)
(* test of the parser, and on both sides of the limits.                    *)
EXTENDS Ft9201Matching

MCDimensions == { <<1, 2>>, <<2, 1>> }

(* One agreeing pixel gives exactly the default threshold. *)
MCMatchPair(frame, probe) ==
  CASE Cardinality({k \in DOMAIN probe : frame[k] = probe[k]}) = 0 -> 0
    [] Cardinality({k \in DOMAIN probe : frame[k] = probe[k]}) = 1 -> 8
    [] OTHER -> 60

MCText == [ set |-> TRUE, empty |-> FALSE, space |-> FALSE, range |-> FALSE,
            rest |-> FALSE, finite |-> TRUE, parsed |-> 0 ]

MCEnvironment ==
  { [MCText EXCEPT !.set = FALSE, !.parsed = 8],
    [MCText EXCEPT !.parsed = 9],
    [MCText EXCEPT !.parsed = 0],
    [MCText EXCEPT !.parsed = 101],
    [MCText EXCEPT !.space = TRUE, !.parsed = 61] }

MCForeignPrint ==
  { [isFormat |-> FALSE, w |-> 0, h |-> 0, blob |-> <<>>],
    StoredPrint(0, 2, <<0, 1>>),
    StoredPrint(1, 2, <<>>),
    StoredPrint(1, 2, <<0, 1, 1>>),
    StoredPrint(1, 1, <<0, 1>>),
    StoredPrint(2, 1, <<0, 1>>),
    StoredPrint(1, 2, <<0, 0, 0, 1, 1, 1>>),
    StoredPrint(1, 2, <<0, 1, 0, 0, 1, 1>>),
    StoredPrint(1, 2, <<0, 1, 1, 1, 0, 0>>) }
===========================================================================
