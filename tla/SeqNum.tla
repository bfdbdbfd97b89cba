------------------------------- MODULE SeqNum -------------------------------
(***************************************************************************)
(* Sequence numbers (src/src/protocol/core/seq_num.rs): integers modulo    *)
(* 2 * Half, compared by the shorter way round.  In the program Half is    *)
(* 2^27, a sequence number has 28 bits.                                    *)
(***************************************************************************)
EXTENDS Integers

CONSTANT Half

ASSUME SeqNumAssumption == Half \in Nat \ {0}

Modulus == 2 * Half
SeqNums == 0..(Modulus - 1)

\* SeqNum::new keeps the low bits.
NewSn(value) == value % Modulus
\* Mutant: the mask is forgotten.
Next_Sn_NoMask(sn) == sn + 1
Next_Sn(sn) == (sn + 1) % Modulus

\* wrapping_sub & MASK, then the bit above MASK >> 1.
Gap(a, b) == (b - a) % Modulus
Cmp(a, b) ==
    IF a = b THEN "equal" ELSE IF Gap(a, b) < Half THEN "less" ELSE "greater"
=============================================================================
