------------------------- MODULE MatMulBench_proofs -------------------------
(* That the programs read back the product of their arguments, for every   *)
(* width of the elements, all matrices, and any iteration and loop counts. *)
EXTENDS MatMulBench, TLAPS

-----------------------------------------------------------------------------
(* The remainder of a sum may be taken piecemeal: what the += of the loop  *)
(* nest relies on.                                                         *)
LEMMA Multiples ==
  ASSUME NEW R \in Nat \ {0}, NEW d \in Int
  PROVE  R * d \in Int /\ (d >= 1 => R * d >= R) /\ (d <= -1 => R * d <= -R)
  BY SMT

LEMMA Division ==
  ASSUME NEW R \in Nat \ {0}, NEW x \in Int
  PROVE  x = (R * (x \div R)) + (x % R) /\ x \div R \in Int /\ x % R \in 0 .. R - 1
  BY SMT

LEMMA RemainderIsUnique ==
  ASSUME NEW R \in Nat \ {0}, NEW p \in Int, NEW q \in Int,
         NEW r \in 0 .. R - 1, NEW s \in 0 .. R - 1,
         (R * p) + r = (R * q) + s
  PROVE  r = s
  <1>1. R * (p - q) = (R * p) - (R * q)  BY SMT
  <1>2. R * p \in Int /\ R * q \in Int  BY SMT
  <1>3. R * (p - q) = s - r  BY <1>1, <1>2
  <1>4. p - q \in Int /\ ~(p - q >= 1) /\ ~(p - q <= -1)  BY <1>3, Multiples
  <1>5. p = q  BY <1>4
  <1> QED  BY <1>2, <1>5

LEMMA RemainderOfSum ==
  ASSUME NEW R \in Nat \ {0}, NEW x \in Int, NEW y \in Int
  PROVE  ((x % R) + y) % R = (x + y) % R
  <1> DEFINE z == (x % R) + y
             p == x \div R
             q == z \div R
             u == (x + y) \div R
             r == z % R
             s == (x + y) % R
  <1>1. x = (R * p) + (x % R) /\ p \in Int /\ x % R \in Int  BY Division
  <1>2. z \in Int  BY <1>1
  <1>3. z = (R * q) + r /\ q \in Int /\ r \in 0 .. R - 1  BY <1>2, Division
  <1>4. x + y = (R * u) + s /\ u \in Int /\ s \in 0 .. R - 1  BY Division
  <1>5. x + y = (R * p) + z  BY <1>1
  <1>6. (R * p) + (R * q) = R * (p + q)  BY <1>1, <1>3, SMT
  <1> HIDE DEF z, p, q, u, r, s
  <1>7. R * p \in Int /\ R * q \in Int /\ R * u \in Int
    BY <1>1, <1>3, <1>4, SMT
  <1>8. (R * (p + q)) + r = (R * u) + s  BY <1>3, <1>4, <1>5, <1>6, <1>7
  <1>9. p + q \in Int  BY <1>1, <1>3
  <1>10. r = s  BY <1>3, <1>4, <1>8, <1>9, RemainderIsUnique
  <1> QED  BY <1>10 DEF r, s, z

-----------------------------------------------------------------------------
LEMMA Widths == ElemMod \in Nat \ {0} /\ ResMod \in Nat \ {0} /\ 0 \in Elem /\ 0 \in 0 .. ResMod - 1
  BY ElemModAssumption, SMT DEF ResMod, Elem

LEMMA ZeroTypes == ZeroMatrix \in Matrix /\ ZeroRow \in Row
  BY Widths DEF ZeroMatrix, ZeroRow, Matrix, Row, Index

LEMMA Entry ==
  ASSUME NEW x \in Int, NEW y \in Int
  PROVE  /\ (((0 + x) % ResMod) + y) % ResMod = (x + y) % ResMod
         /\ (x + y) % ResMod \in 0 .. ResMod - 1
  <1>1. 0 + x = x /\ x + y \in Int  OBVIOUS
  <1>2. ((x % ResMod) + y) % ResMod = (x + y) % ResMod  BY Widths, RemainderOfSum
  <1>3. (x + y) % ResMod \in 0 .. ResMod - 1  BY <1>1, Widths, Division
  <1> QED  BY <1>1, <1>2, <1>3

(* The device's arithmetic, which truncates after each product, yields the  *)
(* product modulo the width of a result.                                    *)
LEMMA MultiplyIsProduct ==
  ASSUME NEW a \in Matrix, NEW b \in Matrix
  PROVE  /\ Multiply(a, b, [k \in Index |-> ZeroRow]) = Product(a, b)
         /\ Product(a, b) \in [Index -> Row]
  <1> DEFINE Piecemeal(k, j) == (((0 + a[k][0] * b[0][j]) % ResMod) + a[k][1] * b[1][j]) % ResMod
             AtOnce(k, j) == (a[k][0] * b[0][j] + a[k][1] * b[1][j]) % ResMod
  <1>1. ASSUME NEW k \in Index, NEW j \in Index
        PROVE  Piecemeal(k, j) = AtOnce(k, j) /\ AtOnce(k, j) \in 0 .. ResMod - 1
    <2>1. a[k][0] \in Int /\ a[k][1] \in Int /\ b[0][j] \in Int /\ b[1][j] \in Int
      BY Widths DEF Matrix, Index, Elem
    <2>2. a[k][0] * b[0][j] \in Int /\ a[k][1] * b[1][j] \in Int
      BY <2>1, SMT
    <2> QED  BY <2>2, Entry
  <1>2. /\ Multiply(a, b, [k \in Index |-> ZeroRow])
            = [k \in Index |-> [j \in Index |-> Piecemeal(k, j)]]
        /\ Product(a, b) = [k \in Index |-> [j \in Index |-> AtOnce(k, j)]]
    BY DEF Multiply, Product, Exact, ZeroRow
  <1> HIDE DEF Piecemeal, AtOnce
  <1>3. [k \in Index |-> [j \in Index |-> Piecemeal(k, j)]]
            = [k \in Index |-> [j \in Index |-> AtOnce(k, j)]]
    BY <1>1
  <1>4. [k \in Index |-> [j \in Index |-> AtOnce(k, j)]] \in [Index -> Row]
    BY <1>1 DEF Row
  <1> QED  BY <1>2, <1>3, <1>4

LEMMA WriteTypes ==
  ASSUME matA \in Matrix, matB \in Matrix, NEW offset, NEW word \in Matrix, Write(offset, word)
  PROVE  matA' \in Matrix /\ matB' \in Matrix /\ res' = Product(matA', matB') /\ res' \in [Index -> Row]
  <1>1. matA' \in Matrix /\ matB' \in Matrix  BY DEF Write
  <1>2. res' = Multiply(matA', matB', [k \in Index |-> ZeroRow])  BY DEF Write
  <1> QED  BY <1>1, <1>2, MultiplyIsProduct

-----------------------------------------------------------------------------
ArgTypes ==
  /\ build \in {"standalone", "shim", "testbench"}
  /\ givenA \in Matrix /\ givenB \in Matrix
  /\ asked \in 0 .. MaxIters /\ loops \in Nat \ {0}

Body == {"write_b", "read_lo", "read_hi"}

\* Where the loops of main and of the shim stand.
LoopInv ==
  /\ pc = "init" => iters = 0 /\ i = 0 /\ status = 0
  /\ pc \in Body => i < iters
  /\ pc = "shim_next" => build = "shim"
  /\ build = "shim" /\ pc \in Body \cup {"main", "loop", "shim_next"} => llx < loops

\* After a usage error main has nothing to iterate over.
ErrorInv ==
  status = 1 => iters = 0 /\ pc \in {"snap_start", "main", "loop", "shim_next", "deinit", "exit"}

BothRead == lRes = Product(opA, opB)[0] /\ hRes = Product(opA, opB)[1]

\* What a pass of the loop in main has written and read so far.
PassInv ==
  /\ iters > 0 => opA = givenA /\ opB = givenB
  /\ iters = 0 => lRes = ZeroRow /\ hRes = ZeroRow
  /\ pc = "write_b" => matA = opA
  /\ pc \in {"read_lo", "read_hi"} => res = Product(opA, opB)
  /\ pc = "read_hi" => lRes = Product(opA, opB)[0]
  /\ pc = "loop" /\ i > 0 => BothRead
  /\ pc \in {"shim_next", "deinit"} /\ iters > 0 => BothRead

IInv == TypeOK /\ ArgTypes /\ LoopInv /\ ErrorInv /\ PassInv

LEMMA Initially == Init => IInv
  <1> SUFFICES ASSUME Init PROVE IInv  OBVIOUS
  <1>1. ArgTypes  BY BuildsAssumption, InputsAssumption, BoundsAssumption DEF Init, ArgTypes
  <1>2. matA \in Matrix /\ matB \in Matrix
    BY InputsAssumption, ZeroTypes DEF Init
  <1>3. res \in [Index -> Row]  BY <1>2, MultiplyIsProduct DEF Init
  <1>4. TypeOK
    BY <1>1, <1>2, <1>3, ZeroTypes, BoundsAssumption DEF Init, TypeOK, ArgTypes
  <1> QED  BY <1>1, <1>4 DEF Init, IInv, LoopInv, ErrorInv, PassInv, Body

LEMMA InitKeeps ==
  ASSUME IInv, Usage \/ Parse \/ ClearA \/ ClearB \/ Drain
  PROVE  IInv'
  <1> USE DEF IInv, args, program, device
  <1>1. ArgTypes'
    BY DEF ArgTypes, Usage, Parse, ClearA, ClearB, Drain
  <1>2. CASE Usage
    <2>1. TypeOK'  BY <1>2 DEF Usage, TypeOK
    <2> QED  BY <1>1, <1>2, <2>1 DEF Usage, LoopInv, ErrorInv, PassInv, BothRead, Body
  <1>3. CASE Parse
    <2>1. TypeOK'
      BY <1>3, BoundsAssumption DEF Parse, TypeOK, ArgTypes, LoopInv
    <2>2. LoopInv' /\ ErrorInv'  BY <1>3 DEF Parse, LoopInv, ErrorInv, Body, TypeOK, ArgTypes
    <2>3. PassInv'  BY <1>3 DEF Parse, PassInv, LoopInv
    <2> QED  BY <1>1, <2>1, <2>2, <2>3
  <1>4. CASE ClearA \/ ClearB
    <2>1. matA' \in Matrix /\ matB' \in Matrix /\ res' \in [Index -> Row]
      BY <1>4, ZeroTypes, WriteTypes DEF ClearA, ClearB, TypeOK
    <2>2. TypeOK'  BY <1>4, <2>1 DEF ClearA, ClearB, TypeOK
    <2> QED
      BY <1>1, <1>4, <2>2 DEF ClearA, ClearB, Goto, LoopInv, ErrorInv, PassInv, BothRead, Body
  <1>5. CASE Drain
    <2>1. TypeOK'  BY <1>5 DEF Drain, TypeOK
    <2>2. pc = "drain" /\ pc' \in {"drain", "snap_start", "main"} /\ (pc' = "main" => build # "shim")
      BY <1>5 DEF Drain
    <2> QED
      BY <1>1, <1>5, <2>1, <2>2 DEF Drain, LoopInv, ErrorInv, PassInv, BothRead, Body
  <1> QED  BY <1>2, <1>3, <1>4, <1>5

LEMMA MainKeeps ==
  ASSUME IInv, StartMain \/ LoopA \/ LoopB \/ LoopLo \/ LoopHi \/ LoopEnd
  PROVE  IInv'
  <1> USE DEF IInv, args, program, device
  <1>1. ArgTypes'
    BY DEF ArgTypes, StartMain, LoopA, LoopB, LoopLo, LoopHi, LoopEnd
  <1>2. CASE StartMain
    <2>1. TypeOK'  BY <1>2, BoundsAssumption DEF StartMain, TypeOK
    <2> QED  BY <1>1, <1>2, <2>1 DEF StartMain, Goto, LoopInv, ErrorInv, PassInv, BothRead, Body
  <1>3. CASE LoopA
    <2>1. matA' \in Matrix /\ matB' \in Matrix /\ res' \in [Index -> Row]
      BY <1>3, WriteTypes DEF LoopA, TypeOK
    <2>2. TypeOK'  BY <1>3, <2>1 DEF LoopA, TypeOK
    <2>3. matA' = opA  BY <1>3 DEF LoopA, Write
    <2>4. i < iters /\ iters > 0  BY <1>3, BoundsAssumption DEF LoopA, TypeOK
    <2> QED
      BY <1>1, <1>3, <2>2, <2>3, <2>4 DEF LoopA, Goto, LoopInv, ErrorInv, PassInv, BothRead, Body
  <1>4. CASE LoopB
    <2>1. /\ matA' \in Matrix /\ matB' \in Matrix /\ res' \in [Index -> Row]
          /\ res' = Product(matA', matB')
      BY <1>4, WriteTypes DEF LoopB, TypeOK
    <2>2. TypeOK'  BY <1>4, <2>1 DEF LoopB, TypeOK
    <2>3. matA' = opA /\ matB' = opB  BY <1>4 DEF LoopB, Write, Goto, PassInv
    <2>4. res' = Product(opA, opB)  BY <2>1, <2>3
    <2> QED
      BY <1>1, <1>4, <2>2, <2>4 DEF LoopB, Goto, LoopInv, ErrorInv, PassInv, BothRead, Body
  <1>5. CASE LoopLo
    <2>1. lRes' = res[0] /\ lRes' \in Row  BY <1>5 DEF LoopLo, Read, TypeOK, Index
    <2>2. TypeOK'  BY <1>5, <2>1 DEF LoopLo, TypeOK
    <2>3. iters # 0  BY <1>5, BoundsAssumption DEF LoopLo, Goto, LoopInv, Body, TypeOK
    <2> QED
      BY <1>1, <1>5, <2>1, <2>2, <2>3 DEF LoopLo, Goto, LoopInv, ErrorInv, PassInv, BothRead, Body
  <1>6. CASE LoopHi
    <2>1. hRes' = res[1] /\ hRes' \in Row  BY <1>6 DEF LoopHi, Read, TypeOK, Index
    <2>2. i < iters  BY <1>6 DEF LoopHi, Goto, LoopInv, Body
    <2>3. TypeOK' /\ iters # 0  BY <1>6, <2>1, <2>2, BoundsAssumption DEF LoopHi, TypeOK
    <2> QED
      BY <1>1, <1>6, <2>1, <2>3 DEF LoopHi, Goto, LoopInv, ErrorInv, PassInv, BothRead, Body
  <1>7. CASE LoopEnd
    <2>1. TypeOK'  BY <1>7 DEF LoopEnd, TypeOK
    <2>2. iters > 0 => i > 0  BY <1>7, BoundsAssumption DEF LoopEnd, TypeOK
    <2> QED
      BY <1>1, <1>7, <2>1, <2>2 DEF LoopEnd, LoopInv, ErrorInv, PassInv, BothRead, Body
  <1> QED  BY <1>2, <1>3, <1>4, <1>5, <1>6, <1>7

LEMMA ShimKeeps ==
  ASSUME IInv, SnapStart \/ ShimNext \/ Deinit
  PROVE  IInv'
  <1> USE DEF IInv, args, program, device
  <1>1. ArgTypes'  BY DEF ArgTypes, SnapStart, ShimNext, Deinit
  <1>2. TypeOK'
    BY DEF SnapStart, ShimNext, Deinit, TypeOK, ArgTypes, LoopInv, Body
  <1>3. LoopInv' /\ ErrorInv'
    BY DEF SnapStart, ShimNext, Deinit, Goto, LoopInv, ErrorInv, Body, TypeOK, ArgTypes
  <1>4. PassInv'
    BY DEF SnapStart, ShimNext, Deinit, Goto, PassInv, BothRead
  <1> QED  BY <1>1, <1>2, <1>3, <1>4

LEMMA Inductive == IInv /\ [Next]_vars => IInv'
  <1> SUFFICES ASSUME IInv, [Next]_vars PROVE IInv'  OBVIOUS
  <1>1. CASE UNCHANGED vars
    BY <1>1 DEF vars, args, program, device, IInv, TypeOK, ArgTypes, LoopInv, ErrorInv, PassInv,
                BothRead, Body
  <1> QED  BY <1>1, InitKeeps, MainKeeps, ShimKeeps DEF Next

LEMMA Invariance == Spec => []IInv
  BY Initially, Inductive, PTL DEF Spec

\* Registers, operands, results and loop variables keep their types; the
\* arithmetic of the device stays within the width of a result.
THEOREM BenchTypeOK == Spec => []TypeOK
  <1>1. IInv => TypeOK  BY DEF IInv
  <1> QED  BY <1>1, Invariance, PTL

\* main prints the product of its arguments modulo the width of a result,
\* whatever an earlier program left in the device.
THEOREM BenchResults == Spec => []ResultsAreProduct
  <1>1. IInv => ResultsAreProduct
    BY BoundsAssumption DEF IInv, ResultsAreProduct, PassInv, BothRead, TypeOK
  <1> QED  BY <1>1, Invariance, PTL

\* A program that refused its arguments writes nothing to the device, though
\* the shim calls bm_main all the same.
THEOREM BenchUsageError == Spec => UsageErrorIsHarmless
  <1>1. IInv /\ [Next]_vars => [status = 1 => UNCHANGED device]_vars
    <2> SUFFICES ASSUME IInv, Next, status = 1 PROVE UNCHANGED device  OBVIOUS
    <2>1. iters = 0 /\ i \in Nat /\ pc \in {"snap_start", "main", "loop", "shim_next", "deinit", "exit"}
      BY BoundsAssumption DEF IInv, ErrorInv, TypeOK
    <2>2. ~ClearA /\ ~ClearB /\ ~LoopA /\ ~LoopB
      BY <2>1 DEF ClearA, ClearB, LoopA, LoopB, Goto
    <2> QED
      BY <2>2 DEF Next, Usage, Parse, Drain, StartMain, LoopLo, LoopHi, LoopEnd, SnapStart,
                  ShimNext, Deinit, device
  <1> QED  BY <1>1, Invariance, PTL DEF Spec, UsageErrorIsHarmless
=============================================================================
