----------------------------- MODULE MatMul2x2 -----------------------------
(* The 2x2 matrix multiplier: the device model of tlm/matMul_2x2.h as its  *)
(* registers see it.  An element has ElemMod values (2^8 in the code), and *)
(* a result, of twice the width, ElemMod^2 of them (2^16); a 32-bit        *)
(* register holds a whole matrix of elements, or one row of results.       *)
EXTENDS Integers

CONSTANT ElemMod                    \* the number of values of a u8
ASSUME ElemModAssumption == ElemMod \in Nat \ {0}

Index == 0 .. 1
Elem == 0 .. ElemMod - 1
ResMod == ElemMod * ElemMod         \* the number of values of a u16
WordMod == ResMod * ResMod          \* the number of values of a u32
Matrix == [Index -> [Index -> Elem]]
Row == [Index -> 0 .. ResMod - 1]
ZeroMatrix == [i \in Index |-> [j \in Index |-> 0]]
ZeroRow == [j \in Index |-> 0]

\* The registers, by their offset from MEM_BASE.
Offsets == {"MATA", "MATB", "RES_LO", "RES_HI"}

VARIABLES matA, matB, res
device == <<matA, matB, res>>

DeviceInit == matA = ZeroMatrix /\ matB = ZeroMatrix /\ res = [i \in Index |-> ZeroRow]

\* The loop nest over i, j, k: each product is an int, each += truncates to 16 bits.
Multiply(a, b, r) ==
    [i \in Index |-> [j \in Index |->
        LET first == (r[i][j] + a[i][0] * b[0][j]) % ResMod
        IN  (first + a[i][1] * b[1][j]) % ResMod]]

\* A form that adds to the previous results.
WriteAccumulates(offset, word) ==
    /\ matA' = IF offset = "MATA" THEN word ELSE matA
    /\ matB' = IF offset = "MATB" THEN word ELSE matB
    /\ res' = Multiply(matA', matB', res)

\* A form that computes the results for writes to the first matrix only.
WriteFirstOnly(offset, word) ==
    /\ matA' = IF offset = "MATA" THEN word ELSE matA
    /\ matB' = IF offset = "MATB" THEN word ELSE matB
    /\ res' = IF offset = "MATA" THEN Multiply(matA', matB', [i \in Index |-> ZeroRow]) ELSE res

\* b_transact for a write: clear the results, store the matrix that the offset
\* names (a write to another offset is ignored), multiply again.
Write(offset, word) ==
    /\ matA' = IF offset = "MATA" THEN word ELSE matA
    /\ matB' = IF offset = "MATB" THEN word ELSE matB
    /\ res' = Multiply(matA', matB', [i \in Index |-> ZeroRow])

\* b_transact for a read; other offsets leave the initiator's buffer as it is.
Read(offset, buffer) == CASE offset = "RES_LO" -> res[0]
                          [] offset = "RES_HI" -> res[1]
                          [] OTHER -> buffer

\* A row of results as the 32-bit number the initiator sees.
AsWord(row) == row[0] + ResMod * row[1]

-----------------------------------------------------------------------------
\* The product over the integers, the reference for the device's arithmetic.
Exact(a, b) == [i \in Index |-> [j \in Index |-> a[i][0] * b[0][j] + a[i][1] * b[1][j]]]

\* What the result registers should hold for the operands a and b.
Product(a, b) == [i \in Index |-> [j \in Index |-> Exact(a, b)[i][j] % ResMod]]
=============================================================================
