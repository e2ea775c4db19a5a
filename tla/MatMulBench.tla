---------------------------- MODULE MatMulBench ----------------------------
(* The programs that drive the multiplier, with the device they drive:     *)
(*   "standalone"  prazor-tests/matMul.c with its own main                 *)
(*   "shim"        the same file under utils/energyshim.c, whose main      *)
(*                 calls bm_init, bm_main and bm_deinit                    *)
(*   "testbench"   tlm/matMul.cpp, the SystemC test bench                  *)
(* The device may hold the operands of an earlier run when init starts.    *)
EXTENDS MatMul2x2

CONSTANTS
    Builds,     \* which of the three programs are run
    Inputs,     \* the matrices that the arguments and earlier runs use
    MaxIters,   \* bound on the iteration count that is asked for
    MaxLoops    \* bound on the shim's loop count (its argument l=)

ASSUME BuildsAssumption == Builds \subseteq {"standalone", "shim", "testbench"}
ASSUME InputsAssumption == Inputs \subseteq Matrix
ASSUME BoundsAssumption == MaxIters \in Nat /\ MaxLoops \in Nat \ {0}

VARIABLES
    build,      \* the program that is run
    argc,       \* number of arguments, the program's name included
    asked,      \* strtoul(argv[3])
    givenA, givenB, \* strtoul(argv[1]), strtoul(argv[2])
    opA, opB,   \* the program's matA and matB
    iters,      \* the program's iters
    lRes, hRes, \* the results read back
    i,          \* the loop variable of main
    llx,        \* the loop variable of the shim's main
    loops,      \* g_es_loops
    status,     \* what init returned
    pc

args == <<build, argc, asked, givenA, givenB, loops>>
program == <<opA, opB, iters, lRes, hRes>>
vars == <<device, args, program, i, llx, status, pc>>

Goto(from, to) == pc = from /\ pc' = to

-----------------------------------------------------------------------------
\* The test bench makes a device of its own; the others find the one that the
\* platform runs, as the last program left it.
Init == /\ build \in Builds
        /\ matA \in IF build = "testbench" THEN {ZeroMatrix} ELSE Inputs \cup {ZeroMatrix}
        /\ matB \in IF build = "testbench" THEN {ZeroMatrix} ELSE Inputs \cup {ZeroMatrix}
        /\ res = Product(matA, matB)
        /\ argc \in 1 .. 6
        /\ asked \in 0 .. MaxIters
        /\ loops \in IF build = "shim" THEN 1 .. MaxLoops ELSE {1}
        /\ givenA \in Inputs /\ givenB \in Inputs
        /\ opA = ZeroMatrix /\ opB = ZeroMatrix
        /\ iters = 0
        /\ lRes = ZeroRow /\ hRes = ZeroRow
        /\ i = 0 /\ llx = 0
        /\ status = 0
        /\ pc = "init"

\* A form that reads the iteration count before it counts the arguments.
UsageLate == /\ pc = "init"
             /\ argc < 3 \/ argc > 5
             /\ status' = 1
             /\ iters' = asked
             /\ pc' = IF build = "shim" THEN "snap_start" ELSE "exit"
             /\ UNCHANGED <<device, args, opA, opB, lRes, hRes, i, llx>>

\* init, sc_main: refuse a wrong number of arguments.
Usage == /\ pc = "init"
         /\ argc < 3 \/ argc > 5
         /\ status' = 1
         /\ pc' = IF build = "shim" THEN "snap_start" ELSE "exit"
         /\ UNCHANGED <<device, args, program, i, llx>>

\* init, sc_main: the iteration count is read for exactly four arguments.
\* (map_page yields MEM_BASE itself here, so the test that follows it passes.)
Parse == /\ pc = "init"
         /\ argc \in 3 .. 5
         /\ iters' = IF argc = 4 THEN asked ELSE 1
         /\ opA' = givenA /\ opB' = givenB
         /\ pc' = IF build = "testbench" THEN "main" ELSE "clear_a"
         /\ UNCHANGED <<device, args, lRes, hRes, i, llx, status>>

\* init writes zero to both operands and reads until the results are zero.
ClearA == /\ Goto("clear_a", "clear_b")
          /\ Write("MATA", ZeroMatrix)
          /\ UNCHANGED <<args, program, i, llx, status>>

ClearB == /\ Goto("clear_b", "drain")
          /\ Write("MATB", ZeroMatrix)
          /\ UNCHANGED <<args, program, i, llx, status>>

\* The u32 sum of the two result registers.
Leftovers == (AsWord(Read("RES_LO", ZeroRow)) + AsWord(Read("RES_HI", ZeroRow))) % WordMod

Drain == /\ pc = "drain"
         /\ pc' = CASE Leftovers # 0 -> "drain"
                    [] Leftovers = 0 /\ build = "shim" -> "snap_start"
                    [] OTHER -> "main"
         /\ UNCHANGED <<device, args, program, i, llx, status>>

-----------------------------------------------------------------------------
\* main / bm_main: one pass of the loop writes both operands and reads both
\* result registers.
StartMain == /\ Goto("main", "loop")
             /\ i' = 0
             /\ UNCHANGED <<device, args, program, llx, status>>

\* A form whose loop runs once too often.
LoopAOnceMore == /\ Goto("loop", "write_b")
                 /\ i <= iters
                 /\ Write("MATA", opA)
                 /\ UNCHANGED <<args, program, i, llx, status>>

LoopA == /\ Goto("loop", "write_b")
         /\ i < iters
         /\ Write("MATA", opA)
         /\ UNCHANGED <<args, program, i, llx, status>>

LoopB == /\ Goto("write_b", "read_lo")
         /\ Write("MATB", opB)
         /\ UNCHANGED <<args, program, i, llx, status>>

LoopLo == /\ Goto("read_lo", "read_hi")
          /\ lRes' = Read("RES_LO", lRes)
          /\ UNCHANGED <<device, args, opA, opB, iters, hRes, i, llx, status>>

LoopHi == /\ Goto("read_hi", "loop")
          /\ hRes' = Read("RES_HI", hRes)
          /\ i' = i + 1
          /\ UNCHANGED <<device, args, opA, opB, iters, lRes, llx, status>>

LoopEnd == /\ pc = "loop"
           /\ i >= iters
           /\ pc' = IF build = "shim" THEN "shim_next" ELSE "deinit"
           /\ UNCHANGED <<device, args, program, i, llx, status>>

-----------------------------------------------------------------------------
\* The shim's main goes on whatever bm_init returned, runs bm_main loops times
\* and takes the second snapshot.
SnapStart == /\ Goto("snap_start", "main")
             /\ llx' = 0
             /\ UNCHANGED <<device, args, program, i, status>>

ShimNext == /\ pc = "shim_next"
            /\ llx' = llx + 1
            /\ pc' = IF llx + 1 < loops THEN "main" ELSE "deinit"
            /\ UNCHANGED <<device, args, program, i, status>>

\* deinit prints the results.  (The test bench prints a variable "res" that
\* its source does not declare; its results are lRes and hRes too.)
Deinit == /\ Goto("deinit", "exit")
          /\ UNCHANGED <<device, args, program, i, llx, status>>

Next == \/ Usage \/ Parse \/ ClearA \/ ClearB \/ Drain
        \/ StartMain \/ LoopA \/ LoopB \/ LoopLo \/ LoopHi \/ LoopEnd
        \/ SnapStart \/ ShimNext \/ Deinit

Spec == Init /\ [][Next]_vars

\* The program keeps executing.
FairSpec == Spec /\ WF_vars(Next)

-----------------------------------------------------------------------------
\* The registers and the program's variables keep their types.
TypeOK == /\ matA \in Matrix /\ matB \in Matrix
          /\ res \in [Index -> Row]
          /\ opA \in Matrix /\ opB \in Matrix
          /\ lRes \in Row /\ hRes \in Row
          /\ iters \in 0 .. MaxIters \cup {1}
          /\ i \in 0 .. iters
          /\ llx \in 0 .. loops

\* What the program has read back at its end is the product of its arguments, entry by entry
\* modulo 2^16, however often it multiplies and whatever an earlier program
\* left in the device; when nothing was multiplied it is zero.
ResultsAreProduct ==
    pc = "deinit" => <<lRes, hRes>> = IF iters > 0
                                      THEN <<Product(givenA, givenB)[0], Product(givenA, givenB)[1]>>
                                      ELSE <<ZeroRow, ZeroRow>>

\* The loop in init that waits for the last results to clear, which has no
\* other way out, ends, and so does every program.
Terminates == <>(pc = "exit")

\* After a usage error the program leaves the device alone, even where the
\* shim ignores what init returned and runs its loops.
UsageErrorIsHarmless == [][status = 1 => UNCHANGED device]_vars
=============================================================================
