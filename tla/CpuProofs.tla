------------------------------ MODULE CpuProofs ------------------------------
(***************************************************************************)
(* For every width of the program counter and everything memory may drive, *)
(* the CPU of Cpu.tla has the properties that Cpu.cfg checks with a few    *)
(* words, except the one about fairness.                                   *)
(***************************************************************************)
EXTENDS Cpu, TLAPS

\* The decoder's fields fit the nets they are put on (decoder.v:14-53).
LEMMA Fields ==
  ASSUME NEW w \in Word \union {X}
  PROVE  /\ Dst(w) \in Reg
         /\ Immediate(w) \in Word
         /\ Address(w) \in Word
<1>1. CASE w = X
  <2>1. Opcode(w) = X
    BY <1>1 DEF Opcode
  <2>2. Opcode(w) \notin {"ADD", "SUB", "SHR", "SHL", "MUL", "AND", "OR", "XOR", "LOAD",
                          "STORE", "MOV", "LDI", "JMP", "JZ"}
    BY <2>1, UnknownAssumption
  <2> QED
    BY <2>2 DEF Dst, Immediate, Address, ThreeRegisterOps, Reg, Word
<1>2. CASE w \in Word
  <2>1. (w \div 512) % 8 \in 0 .. 7
    BY <1>2 DEF Word
  <2>2. w % 512 \in 0 .. 511
    BY <1>2 DEF Word
  <2> QED
    BY <2>1, <2>2 DEF Dst, Immediate, Address, Reg, Word
<1> QED
  BY <1>1, <1>2

\* Writing what an instruction writes once more changes nothing
\* (control_unit.v:93, register_file.v:24-92).
LEMMA WriteTwice ==
  ASSUME NEW w \in Word \union {X}, NEW file \in [Reg -> Word \union {X}]
  PROVE  /\ RegsAfter(w, file) \in [Reg -> Word \union {X}]
         /\ RegsAfter(w, RegsAfter(w, file)) = RegsAfter(w, file)
<1>1. WriteData(w) \in Word \union {X}
  BY Fields DEF WriteData
<1>2. Dst(w) \in Reg
  BY Fields
<1>3. CASE IsRegisterWriteOp(Opcode(w))
  BY <1>1, <1>2, <1>3 DEF RegsAfter
<1>4. CASE ~IsRegisterWriteOp(Opcode(w))
  BY <1>4 DEF RegsAfter
<1> QED
  BY <1>3, <1>4

\* The counter stays a word, or unknown (program_counter.v:4-32).
LEMMA CounterRange ==
  ASSUME NEW w \in Word \union {X}, NEW n \in Word \union {X}
  PROVE  PcAfter(w, n) \in Word \union {X}
<1>1. CASE n = X
  BY <1>1, Fields DEF PcAfter
<1>2. CASE n \in Word /\ n # X
  <2>1. (n + 1) % PcLimit \in Word
    BY <1>2, CpuAssumption DEF Word
  <2>2. 0 \in Word
    BY DEF Word
  <2> QED
    BY <1>2, <2>1, <2>2, Fields DEF PcAfter
<1> QED
  BY <1>1, <1>2

\* The state machine stays in its four states (control_fsm.v:13-33).
LEMMA StateRange ==
  ASSUME NEW state \in {"FETCH", "EXECUTE", "MEMORY", "HALT"}, NEW op, NEW reset \in BOOLEAN
  PROVE  FsmAfter(state, op, reset) \in {"FETCH", "EXECUTE", "MEMORY", "HALT"}
BY DEF FsmAfter, AfterExecute

\* A clock edge takes a typed state to a typed state (cpu.v:25-52).
LEMMA EdgeTyped == TypeOK /\ [Next]_vars => TypeOK'
<1> SUFFICES ASSUME TypeOK, [Next]_vars PROVE TypeOK'
  OBVIOUS
<1>1. CASE Next
  <2>1. PICK reset \in BOOLEAN, word \in Bus : Clock(reset, word)
    BY <1>1 DEF Next
  <2>2. fsm' \in {"FETCH", "EXECUTE", "MEMORY", "HALT"}
    BY <2>1, StateRange DEF Clock, TypeOK
  <2>3. ir' \in Word \union {X}
    BY <2>1, CpuAssumption DEF Clock, TypeOK, Word
  <2>4. pcReg' \in Word \union {X}
    BY <2>1, CounterRange DEF Clock, TypeOK, Word
  <2>5. regs' \in [Reg -> Word \union {X}]
    BY <2>1, WriteTwice DEF Clock, TypeOK, Word
  <2>6. MemAddress \in Word \union {X}
    BY Fields DEF MemAddress, TypeOK
  <2>7. written' \in [count : {0, 1}, address : Word \union {X}]
    BY <2>1, <2>6 DEF Clock, WrittenAfter, TypeOK
  <2> QED
    BY <2>2, <2>3, <2>4, <2>5, <2>7 DEF TypeOK
<1>2. CASE UNCHANGED vars
  BY <1>2 DEF vars, TypeOK
<1> QED
  BY <1>1, <1>2

\* The registers of the CPU always hold words or what nothing has driven, and its
\* control is in one of its states.
THEOREM TypeCorrect == Spec => []TypeOK
<1>1. Init => TypeOK
  BY DEF Init, TypeOK, Word, Reg
<1> QED
  BY <1>1, EdgeTyped, PTL DEF Spec

-----------------------------------------------------------------------------
(* The CPU implements the machine of InstructionSet.tla.                   *)

\* The machine decodes words as the CPU does.
LEMMA SameDecoder ==
  /\ Machine!ThreeRegisterOps = ThreeRegisterOps
  /\ Machine!Reg = Reg
  /\ \A w : /\ Machine!Opcode(w) = Opcode(w)
            /\ Machine!Dst(w) = Dst(w)
            /\ Machine!Immediate(w) = Immediate(w)
            /\ Machine!Address(w) = Address(w)
BY DEF Machine!ThreeRegisterOps, ThreeRegisterOps, Machine!Reg, Reg, Machine!Opcode, Opcode,
       Machine!Opcodes, Opcodes, Machine!Dst, Dst, Machine!Immediate, Immediate,
       Machine!Address, Address

\* The write enable is up while a STORE is in the instruction register and the state
\* machine in EXECUTE, with its address on the bus (control_unit.v:95-101).
LEMMA WritePulse ==
  WrittenAfter = IF fsm = "EXECUTE" THEN Machine!Stored(ir, written) ELSE written
<1>1. Machine!Opcode(ir) = Opcode(ir) /\ Machine!Address(ir) = Address(ir)
  BY SameDecoder
<1>2. MemWriteEnable = 1 <=> fsm = "EXECUTE" /\ Opcode(ir) = "STORE"
  BY UnknownAssumption DEF MemWriteEnable
<1>3. fsm = "EXECUTE" => MemAddress = Address(ir)
  BY DEF MemAddress
<1> QED
  BY <1>1, <1>2, <1>3 DEF WrittenAfter, Machine!Stored

\* A cycle of the register file does to it what issuing the instruction does
\* (control_unit.v:73-93, datapath.v:21).
LEMMA EffectIsWrite ==
  ASSUME NEW w \in Word \union {X}, NEW file
  PROVE  Machine!Effect(w, file) = RegsAfter(w, file)
<1>1. CASE Opcode(w) = "LDI"
  BY <1>1, SameDecoder DEF Machine!Effect, RegsAfter, IsRegisterWriteOp, WriteData, ThreeRegisterOps
<1>2. CASE Opcode(w) \in ThreeRegisterOps \union {"MOV", "STORE"}
  BY <1>2, SameDecoder DEF Machine!Effect, RegsAfter, IsRegisterWriteOp, WriteData, ThreeRegisterOps
<1>3. CASE Opcode(w) \notin ThreeRegisterOps \union {"MOV", "STORE", "LDI"}
  BY <1>3, SameDecoder DEF Machine!Effect, RegsAfter, IsRegisterWriteOp
<1> QED
  BY <1>1, <1>2, <1>3

\* What a reset leaves, an LDI R0, 0 in the instruction register, writes zero to a
\* register that is zero.
LEMMA ResetEffect ==
  RegsAfter(0, [r \in Reg |-> 0]) = [r \in Reg |-> 0]
<1>1. Opcode(0) = "LDI"
  BY UnknownAssumption DEF Opcode, Opcodes
<1>2. Dst(0) = 0 /\ Immediate(0) = 0
  BY <1>1 DEF Dst, Immediate
<1> QED
  BY <1>1, <1>2 DEF RegsAfter, WriteData

\* The two ways of advancing the counter agree (program_counter.v:13-30).
LEMMA FollowIsPcAfter ==
  ASSUME NEW w, NEW n
  PROVE  Machine!Follow(w, n) = PcAfter(w, n)
BY SameDecoder DEF Machine!Follow, PcAfter

\* A clock edge issues a word, resets the machine, or is a cycle that it does not
\* see (cpu.v:25-52).
LEMMA EdgeSimulates ==
  ASSUME TypeOK, NEW reset \in BOOLEAN, NEW word \in Bus, Clock(reset, word)
  PROVE  [Machine!Next]_(Machine!vars)
<1>1. word \in Word \union {X} /\ 0 \in Word
  BY CpuAssumption DEF Word
<1>2. ir \in Word \union {X} /\ regs \in [Reg -> Word \union {X}]
  BY DEF TypeOK
<1>3. CASE reset
  <2>1. ir' = 0 /\ pcReg' = 0 /\ regs' = [r \in Reg |-> 0]
    BY <1>3 DEF Clock
  <2>2. RegsAfter(ir, regs)' = [r \in Reg |-> 0]
    BY <2>1, ResetEffect
  <2>3. Halted' => ~Halted /\ Opcode(ir) = "HALT"
    BY <1>3 DEF Clock, FsmAfter, AfterExecute, Halted, TypeOK
  <2>4. /\ written' \in {written, Machine!Stored(ir, written)}
        /\ Halted => written' = written
    BY WritePulse DEF Clock, Halted
  <2>5. Machine!Reset
    BY <2>1, <2>2, <2>3, <2>4, SameDecoder DEF Machine!Reset, Machine!ZeroRegs, Halted
  <2> QED
    BY <2>5 DEF Machine!Next
<1>4. CASE ~reset /\ fsm = "EXECUTE"
  <2>1. ir' = word /\ pcReg' = PcAfter(ir, pcReg) /\ regs' = RegsAfter(ir, regs)
    BY <1>4 DEF Clock
  <2>2. RegsAfter(ir, regs)' = Machine!Effect(word, RegsAfter(ir, regs))
    BY <2>1, <1>1, EffectIsWrite
  <2>3. ~Halted /\ Halted' = (Opcode(ir) = "HALT")
    BY <1>4, UnknownAssumption DEF Clock, FsmAfter, AfterExecute, Halted
  <2>4. written' = Machine!Stored(ir, written)
    BY <1>4, WritePulse DEF Clock
  <2>5. Machine!Issue(word)
    BY <2>1, <2>2, <2>3, <2>4, FollowIsPcAfter, SameDecoder DEF Machine!Issue
  <2> QED
    BY <2>5 DEF Machine!Next
<1>5. CASE ~reset /\ fsm # "EXECUTE"
  <2>1. ir' = ir /\ pcReg' = pcReg /\ regs' = RegsAfter(ir, regs)
    BY <1>5 DEF Clock
  <2>2. RegsAfter(ir, regs)' = RegsAfter(ir, regs)
    BY <2>1, <1>2, WriteTwice
  <2>3. Halted' = Halted
    BY <1>5 DEF Clock, FsmAfter, Halted, TypeOK
  <2>4. written' = written
    BY <1>5, WritePulse DEF Clock
  <2> QED
    BY <2>1, <2>2, <2>3, <2>4 DEF Machine!vars
<1> QED
  BY <1>3, <1>4, <1>5

\* Cycle by cycle the CPU carries out the instructions of the abstract machine: the
\* state machine that lags an instruction behind, the repeated register writes and
\* resets at any moment add no effect and lose none, and every STORE is one write.
THEOREM Refinement == Spec => ImplementsInstructionSet
<1>1. Init => Machine!Init
  <2> SUFFICES ASSUME Init PROVE Machine!Init
    OBVIOUS
  <2>1. RegsAfter(ir, regs) = [r \in Reg |-> 0]
    BY ResetEffect DEF Init
  <2> QED
    BY <2>1, SameDecoder DEF Init, Machine!Init, Machine!ZeroRegs, Halted
<1>2. TypeOK /\ [Next]_vars => [Machine!Next]_(Machine!vars)
  <2> SUFFICES ASSUME TypeOK, [Next]_vars PROVE [Machine!Next]_(Machine!vars)
    OBVIOUS
  <2>1. CASE Next
    <3>1. PICK reset \in BOOLEAN, word \in Bus : Clock(reset, word)
      BY <2>1 DEF Next
    <3> QED
      BY <3>1, EdgeSimulates
  <2>2. CASE UNCHANGED vars
    BY <2>2 DEF vars, Machine!vars, Halted
  <2> QED
    BY <2>1, <2>2
<1> QED
  BY <1>1, <1>2, TypeCorrect, PTL DEF Spec, ImplementsInstructionSet, Machine!Spec

=============================================================================
