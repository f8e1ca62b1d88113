-------------------------- MODULE WrappingIntegers --------------------------
(***************************************************************************)
(* Sequence numbers on the wire (wrapping_integers.hh/.cc): wrap() maps an *)
(* absolute 64-bit sequence number to a 32-bit one relative to the initial *)
(* sequence number, unwrap() finds the absolute number closest to a        *)
(* checkpoint.  FACTOR stands for 2^32 and FACTOR * FACTOR for 2^64, so    *)
(* both widths are kept.                                                   *)
(***************************************************************************)
EXTENDS Integers

CONSTANT FACTOR

ASSUME FactorAssumption == FACTOR \in Nat \ {0} /\ FACTOR > 1

Wrapping == 0 .. FACTOR - 1

U64(x) == x % (FACTOR * FACTOR)

wrap(n, isn) == (isn + (n % FACTOR)) % FACTOR

\* Mutant: the candidate one wrap below is not considered.
unwrapNeverBelow(n, isn, checkpoint) ==
  LET abs_n == U64((checkpoint \div FACTOR) * FACTOR + ((n - isn) % FACTOR))
  IN  IF abs_n < checkpoint /\ U64(abs_n + FACTOR) - checkpoint < checkpoint - abs_n
      THEN U64(abs_n + FACTOR) ELSE abs_n

\* Mutant: the candidate one wrap above is not considered.
unwrapNeverAbove(n, isn, checkpoint) ==
  LET abs_n == U64((checkpoint \div FACTOR) * FACTOR + ((n - isn) % FACTOR))
  IN  IF abs_n > checkpoint /\ abs_n >= FACTOR /\ checkpoint - (abs_n - FACTOR) < abs_n - checkpoint
      THEN abs_n - FACTOR ELSE abs_n

unwrap(n, isn, checkpoint) ==
  LET n_minus_isn == (n - isn) % FACTOR
      abs_n == U64((checkpoint \div FACTOR) * FACTOR + n_minus_isn)
      dist(x) == IF x > checkpoint THEN x - checkpoint ELSE checkpoint - x
      below == U64(abs_n - FACTOR)
      above == U64(abs_n + FACTOR)
  IN  IF abs_n > checkpoint /\ dist(below) < dist(abs_n) THEN below
      ELSE IF abs_n < checkpoint /\ dist(above) < dist(abs_n) THEN above
      ELSE abs_n
=============================================================================
