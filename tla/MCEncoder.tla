------------------------------ MODULE MCEncoder ------------------------------
EXTENDS Encoder

(* With bytes of 4 bits: a bool, a signed range around 0 with values below  *)
(* and above it, a range of one value, an unsigned range wider than a byte, *)
(* floats in steps that a mantissa of 5 bits rounds, from 0, around it and  *)
(* above it, one with the default bits, and a block for each overload.      *)
Number(overload, size, least, lo, hi, bits, values) ==
  [overload |-> overload, size |-> size, least |-> least, lo |-> lo, hi |-> hi,
   bits |-> bits, values |-> values]

MCFields ==
  {Number("signed", 1, 0, 0, 1, 0, {0, 1}),
   Number("signed", 2, -128, -2, 3, 0, {-3, -2, 2, 4}),
   Number("signed", 1, 0, 3, 3, 0, {3}),
   Number("unsigned", 2, 0, 2, 25, 0, {1, 2, 20, 27}),
   Number("float", 2, -128, 0, 10, 3, {4, 11}),
   Number("float", 2, -128, -9, 9, 2, {-10, -4, 7}),
   Number("float", 2, -128, 2, 7, 3, {3, 5, 6}),
   Number("float", 2, -128, 0, 10, IntBits, {4}),
   Number("c08", 2, 0, 0, 0, 0, {{}, {0, 5, 7}}),
   Number("u08", 1, 0, 0, 0, 0, {{1, 2}})}

=============================================================================
