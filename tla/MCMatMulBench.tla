--------------------------- MODULE MCMatMulBench ---------------------------
(* MatMulBench for TLC: elements of two bits, so that the sum of two       *)
(* products can exceed the width of a result, as it can in the code:       *)
(* 3*3 + 3*3 = 18 > 15 here, 255*255 + 255*255 > 65535 there.              *)
EXTENDS MatMulBench

Of(a, b, c, d) == [i_ \in Index |-> [j_ \in Index |->
                      CASE i_ = 0 /\ j_ = 0 -> a [] i_ = 0 /\ j_ = 1 -> b
                        [] i_ = 1 /\ j_ = 0 -> c [] OTHER -> d]]

\* The largest elements, two unsymmetric matrices, and one that is zero in a row.
SmallInputs == {Of(3, 3, 3, 3), Of(0, 1, 2, 3), Of(1, 0, 3, 2), Of(0, 0, 1, 2)}
=============================================================================
