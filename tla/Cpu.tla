-------------------------------- MODULE Cpu --------------------------------
(***************************************************************************)
(* CPU/cpu.v: the control unit and the datapath, one rising clock edge a   *)
(* step, between which the combinational part has settled. What memory     *)
(* drives on mem_read_data and the reset line are inputs.                  *)
(*                                                                         *)
(* Two nets have no driver: data_out of the program counter, so that no    *)
(* address is known in FETCH, and alu_op, so that whatever the ALU gives   *)
(* is unknown.                                                             *)
(***************************************************************************)
EXTENDS InstructionWord

CONSTANTS
  PcLimit,  \* the program counter counts modulo PcLimit (2^16 in the code)
  Bus       \* the words that the memory side may drive

ASSUME CpuAssumption ==
  /\ PcLimit \in Nat \ {0} /\ PcLimit <= 65536
  /\ Bus \subseteq Word \union {X}

VARIABLES
  fsm,    \* control_fsm: state
  ir,     \* control_unit: the instruction register
  pcReg,  \* program_counter: register_out
  regs,   \* register_file: data_out
  written \* what memory has seen of it: its writes, counted modulo 2, and the
          \* address of the last

vars == <<fsm, ir, pcReg, regs, written>>

-----------------------------------------------------------------------------
(* The outputs, as they are between two edges.                             *)

Halted == fsm = "HALT"

MemAddress == IF fsm = "FETCH" THEN X ELSE Address(ir)

\* Mutated form of MemWriteEnable: the state is not looked at.
MemWriteEnableAlways == IF Opcode(ir) = "STORE" THEN 1 ELSE 0

\* In EXECUTE it is as unknown as the opcode.
MemWriteEnable ==
  CASE fsm = "EXECUTE" /\ Opcode(ir) = "STORE" -> 1
    [] fsm = "EXECUTE" /\ Opcode(ir) = X -> X
    [] OTHER -> 0

\* write_reg_data, the register that the decoder's dst_reg selects
MemWriteData == regs[Dst(ir)]

-----------------------------------------------------------------------------
(* What the edge makes of each register.                                   *)

\* Mutated form of AfterExecute: CMP is missing from the list of opcodes.
AfterExecuteNoCmp(op) ==
  CASE op \in {"LOAD", "STORE"} -> "MEMORY"
    [] op = "HALT" -> "HALT"
    [] op \in {X, "CMP"} -> "EXECUTE"
    [] OTHER -> "FETCH"

\* The case has no default: an unknown opcode leaves the state as it is.
AfterExecute(op) ==
  CASE op \in {"LOAD", "STORE"} -> "MEMORY"
    [] op = "HALT" -> "HALT"
    [] op = X -> "EXECUTE"
    [] OTHER -> "FETCH"

\* control_fsm; reset is looked at in HALT only.
FsmAfter(state, op, reset) ==
  CASE state = "FETCH" -> "EXECUTE"
    [] state = "EXECUTE" -> AfterExecute(op)
    [] state = "HALT" /\ ~reset -> "HALT"
    [] OTHER -> "FETCH"

\* program_counter: an unknown opcode leaves it open whether the jump address,
\* decoded as 0, or the next count is written.
PcAfter(w, n) ==
  CASE Opcode(w) \in {"JMP", "JZ"} -> Address(w)
    [] Opcode(w) \notin {"JMP", "JZ"} /\ n = X -> X
    [] Opcode(w) = X /\ n # X -> IF (n + 1) % PcLimit = 0 THEN 0 ELSE X
    [] OTHER -> (n + 1) % PcLimit

\* is_register_write_op: STORE is one, LOAD is none. Icarus Verilog, which built
\* cpu-sim, gives an unknown result for an unknown opcode, and an unknown enable
\* writes nothing.
IsRegisterWriteOp(op) == op \in ThreeRegisterOps \union {"MOV", "STORE", "LDI"}

\* datapath_16bit: the immediate of an LDI, or the ALU's unknown output.
WriteData(w) == IF Opcode(w) = "LDI" THEN Immediate(w) ELSE X

\* The write enable does not depend on the state: the edge of every cycle that an
\* instruction spends in the instruction register writes.
RegsAfter(w, file) ==
  IF IsRegisterWriteOp(Opcode(w)) THEN [file EXCEPT ![Dst(w)] = WriteData(w)] ELSE file

\* memory takes what is on the bus at the edge; an unknown enable writes nothing.
WrittenAfter ==
  IF MemWriteEnable = 1 THEN [count |-> 1 - written.count, address |-> MemAddress]
  ELSE written

-----------------------------------------------------------------------------
\* The registers are initialised by their declarations.
Init ==
  /\ fsm = "FETCH"
  /\ ir = 0
  /\ pcReg = 0
  /\ regs = [r \in Reg |-> 0]
  /\ written = [count |-> 0, address |-> X]

\* The rising edge of clk, with word on mem_read_data. The state machine goes by
\* the instruction register as it was, the previous instruction in EXECUTE.
Clock(reset, word) ==
  /\ fsm' = FsmAfter(fsm, Opcode(ir), reset)
  /\ ir' = CASE reset -> 0
             [] ~reset /\ fsm = "EXECUTE" -> word
             [] OTHER -> ir
  /\ pcReg' = CASE reset -> 0
                [] ~reset /\ fsm = "EXECUTE" -> PcAfter(ir, pcReg)
                [] OTHER -> pcReg
  /\ regs' = IF reset THEN [r \in Reg |-> 0] ELSE RegsAfter(ir, regs)
  /\ written' = WrittenAfter

Next == \E reset \in BOOLEAN, word \in Bus : Clock(reset, word)

Spec == Init /\ [][Next]_vars

\* The clock keeps running. It is seen to in every state but HALT, which may hold
\* until a reset that need not come, and EXECUTE of an unknown word, which holds
\* as long as memory supplies no other.
FairSpec ==
  Spec /\ WF_vars(Next /\ fsm # "HALT" /\ ~(fsm = "EXECUTE" /\ ir = X))

-----------------------------------------------------------------------------
TypeOK ==
  /\ fsm \in {"FETCH", "EXECUTE", "MEMORY", "HALT"}
  /\ ir \in Word \union {X}
  /\ pcReg \in Word \union {X}
  /\ regs \in [Reg -> Word \union {X}]
  /\ written \in [count : {0, 1}, address : Word \union {X}]

\* The control leaves every instruction, whatever mixture of resets and words it
\* is fed: only a memory that supplies nothing but unknown words from some time
\* on keeps it in EXECUTE for ever (control_fsm.v:13-33, which has no default).
WedgedOnlyByUnknown ==
  \/ []<>(fsm \in {"FETCH", "HALT"})
  \/ <>[](fsm = "EXECUTE" /\ ir = X)

\* The pipeline of cycles carries out the instructions one by one: that the
\* registers are written in every cycle, and the state machine runs an
\* instruction behind, adds no effect and loses none. Each STORE that is carried
\* out, back to back or with a reset in between, is one write of memory, at its
\* address and in its turn (control_unit.v:39-101, control_fsm.v:13-33).
Machine ==
  INSTANCE InstructionSet WITH
    issued <- ir,
    regs <- RegsAfter(ir, regs),
    pc <- pcReg,
    halted <- Halted,
    written <- written

ImplementsInstructionSet == Machine!Spec

=============================================================================
