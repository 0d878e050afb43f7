--------------------------- MODULE MC_ChordLayout ---------------------------
(***************************************************************************)
(* Instance of ChordLayout for TLC: every 2x2 matrix of weights 0..2,     *)
(* every symmetric 3x3 matrix of 0/1 weights (the shape the lineage view   *)
(* builds), every 1x1 and the empty matrix.  Ties, self-weights, all-zero  *)
(* and asymmetric rows all occur.                                          *)
(***************************************************************************)
EXTENDS ChordLayout

MCMatrices ==
    LET Sq(n, W) == [0..(n - 1) -> [0..(n - 1) -> W]]
        Symmetric(x) == \A i, j \in DOMAIN x : x[i][j] = x[j][i]
    IN  Sq(0, {0}) \cup Sq(1, 0..2) \cup Sq(2, 0..2)
          \cup {x \in Sq(3, 0..1) : Symmetric(x)}

\* For the refinement check, whose every step evaluates a relayout: the
\* empty matrix, every 2x2 0/1 matrix (ties, zero rows, a zero total)
\* and the 3x3 matrices of the lineage shape (one cube, one table).
MCRefineMatrices ==
    LET Sq(n, W) == [0..(n - 1) -> [0..(n - 1) -> W]]
    IN  Sq(0, {0}) \cup Sq(1, 0..2) \cup Sq(2, 0..2)
          \cup {[a \in 0..2 |-> [b \in 0..2 |-> IF {a, b} = {0, 2} THEN w ELSE 0]] : w \in 1..2}

MCSorts      == {Null, "ascending", "descending"}
MCChordSorts == {"ascending", "descending"}
=============================================================================
