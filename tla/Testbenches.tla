---------------------------- MODULE Testbenches ----------------------------
(***************************************************************************)
(* What CPU/cpu_tb.v means to prove, by the clock edges that its test      *)
(* cases give the CPU; what the list of instructions says of ADD and JZ,   *)
(* by cases of the same kind; and what CPU/alu_tb.v expects of shifts.     *)
(* Each test of the CPU begins when it is switched on and ends at the      *)
(* moment it is judged.                                                    *)
(*                                                                         *)
(* A $stop on line 91 of cpu_tb.v holds an interactive run after the first *)
(* case, and $fatal ends it at the first failure; here all are recorded.   *)
(* alu_tb.v never puts its operands on the ALU (the arguments of its task  *)
(* hide the registers that drive it) and so judges nothing; here they are. *)
(***************************************************************************)
EXTENDS Cpu

\* The arithmetic, on words of 16 bits; its registers are not looked at.
ALU ==
  INSTANCE Datapath WITH
    WordBits <- 16, NumRegs <- 8, Drives <- {}, aluOut <- X, control <- X

VARIABLES
  test,   \* the test under way
  edges,  \* the edges given in it so far
  failed  \* the tests that have failed

Edge(reset, word) == [reset |-> reset, word |-> word]

Instruction(opcode, reg, rest) == opcode * 4096 + reg * 512 + rest

\* task test_case: two edges with the instruction on mem_read_data, and for a
\* LOAD or a STORE a third with the data.
TestCase(word) == <<Edge(FALSE, word), Edge(FALSE, word)>>

TestCaseMemory(word, data) == Append(TestCase(word), Edge(FALSE, data))

PowerOn == <<Edge(TRUE, 0)>>

\* Cases 1 and 2, up to what the second observes before its third edge; case 3; an
\* ADD of two registers just loaded; and a JZ after two registers that differ have
\* been compared. The word after the last instruction lets it take effect.
Tests ==
  << [script |-> PowerOn \o TestCase(Instruction(0, 1, 90))      \* LDI R1, 0x05A
                         \o TestCase(Instruction(11, 1, 100)),   \* STORE R1, [100]
      shows |-> "LDI"],
     [script |-> PowerOn \o TestCaseMemory(Instruction(10, 2, 100), 90),  \* LOAD R2, [100]
      shows |-> "LOAD"],
     [script |-> PowerOn \o TestCase(Instruction(0, 1, 2))       \* LDI R1, 2
                         \o TestCase(Instruction(0, 2, 3))       \* LDI R2, 3
                         \o TestCase(Instruction(2, 3, 80))      \* ADD R3, R1, R2
                         \o TestCase(Instruction(15, 0, 0)),     \* HALT
      shows |-> "ADD"],
     [script |-> PowerOn \o TestCase(Instruction(0, 1, 90))      \* LDI R1, 0x05A
                         \o TestCase(Instruction(12, 1, 128))    \* CMP R1, R2
                         \o TestCase(Instruction(14, 0, 7))      \* JZ 7
                         \o TestCase(Instruction(15, 0, 0)),     \* HALT
      shows |-> "JZ"],
     [script |-> <<>>, shows |-> "shifts"] >>

\* The shifts of alu_tb.v, with what it expects of each.
Shifts ==
  { [op |-> "SHL", a |-> 1, b |-> 0, out |-> 2],
    [op |-> "SHL", a |-> 32769, b |-> 0, out |-> 2],
    [op |-> "SHR", a |-> 32768, b |-> 0, out |-> 16384],
    [op |-> "SHR", a |-> 3, b |-> 0, out |-> 1] }

\* cpu_tb.v:93 "STORE R1, [100] proves that LDI wrote 0x05A to R1.": the bus shows it.
StoreShowsLdi == MemWriteEnable = 1 /\ MemAddress = 100 /\ MemWriteData = 90

\* cpu_tb.v:103 "STORE R2, [101] proves that LOAD wrote 0x05A to R2.": R2 has it.
LoadWritesRegister == regs[2] = 90

\* CPU/README.md:12 "ADD rd r1 r2"
AddAdds == regs[3] = 5

\* CPU/README.md:22-23 lists "JMP addr" and "JZ addr": where nothing compared is zero
\* or equal, JZ is no JMP.
JzIsNoJmp == pcReg # 7

\* alu_tb.v:73-78: a shift by 0 shifts by one.
ShiftsAsExpected == \A t \in Shifts : ALU!Alu(t.op, t.a, t.b, X) = t.out

Passed ==
  CASE Tests[test].shows = "LDI" -> StoreShowsLdi
    [] Tests[test].shows = "LOAD" -> LoadWritesRegister
    [] Tests[test].shows = "ADD" -> AddAdds
    [] Tests[test].shows = "JZ" -> JzIsNoJmp
    [] Tests[test].shows = "shifts" -> ShiftsAsExpected

TestInit == Init /\ test = 1 /\ edges = 0 /\ failed = {}

GiveEdge ==
  /\ test \in DOMAIN Tests /\ edges < Len(Tests[test].script)
  /\ edges' = edges + 1
  /\ LET edge == Tests[test].script[edges'] IN Clock(edge.reset, edge.word)
  /\ UNCHANGED <<test, failed>>

\* The test is judged, and the CPU switched off and on again for the next one.
Judge ==
  /\ test \in DOMAIN Tests /\ edges = Len(Tests[test].script)
  /\ failed' = IF Passed THEN failed ELSE failed \union {Tests[test].shows}
  /\ test' = test + 1
  /\ edges' = 0
  /\ fsm' = "FETCH" /\ ir' = 0 /\ pcReg' = 0
  /\ regs' = [r \in Reg |-> 0]
  /\ written' = [count |-> 0, address |-> X]

TestSpec == TestInit /\ [][GiveEdge \/ Judge]_<<vars, test, edges, failed>>

-----------------------------------------------------------------------------
\* The instructions do what the testbenches and the list of instructions say of them:
\* when all tests have been made, none has failed (cpu_tb.v:87-106, alu_tb.v:73-78,
\* CPU/README.md:9-24).
InstructionsAsDocumented == test > Len(Tests) => failed = {}

=============================================================================
