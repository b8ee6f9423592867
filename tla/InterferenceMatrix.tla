------------------------- MODULE InterferenceMatrix -------------------------
(***************************************************************************)
(* The triangular bit matrix of src/backend/SpillCode.c.  A matrix is the  *)
(* set of the bit positions that are 1.                                    *)
(***************************************************************************)
LOCAL INSTANCE Naturals

Larger(a, b)  == IF a > b THEN a ELSE b
Smaller(a, b) == IF a > b THEN b ELSE a

\* SpillCode_MatrixIndex, whose case of equal arguments marks a constrained
\* register.
MatrixIndex(first, second) ==
    IF first = second
    THEN (first * first) \div 2
    ELSE (Larger(first, second) * Larger(first, second)) \div 2
           + Smaller(first, second)

\* matrix_bit_count of SpillCode_ConstructInterference.
MatrixBitCount(n) == (n * n) \div 2

\* SpillCode_Interferes: a register never interferes with itself.
InterferesIn(matrix, first, second) ==
    first # second /\ MatrixIndex(first, second) \in matrix

\* The bits that SpillCode_SetInterference sets for a set of pairs.
EdgeBits(pairs) == { MatrixIndex(p[1], p[2]) : p \in { q \in pairs : q[1] # q[2] } }
=============================================================================
