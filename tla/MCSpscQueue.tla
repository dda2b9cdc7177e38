---------------------------- MODULE MCSpscQueue -----------------------------
(* SpscQueue for TLC. *)
EXTENDS SpscQueue

B == INSTANCE Bitwise

\* For a power of two, masking with Capacity - 1 is the remainder modulo
\* Capacity, including for an index difference that was brought above zero.
ASSUME MaskIsRemainder ==
    \A c \in {2, 4, 8, 16} : \A x \in 0..(3 * c) : B!&(x, c - 1) = x % c
=============================================================================
