--------------------------- MODULE InstructionWord ---------------------------
(***************************************************************************)
(* CPU/isa.vh and CPU/decoder.v: what the 16 bits of an instruction are    *)
(* split into. A word is a number, or X when its bits are unknown.         *)
(***************************************************************************)
EXTENDS Integers, Sequences

CONSTANT X  \* the value of what nothing drives, or has driven yet

Word == {n \in Nat : n < 65536}
Reg == 0 .. 7

Opcodes ==
  <<"LDI", "MOV", "ADD", "SUB", "AND", "OR", "XOR", "SHL", "SHR", "MUL",
    "LOAD", "STORE", "CMP", "JMP", "JZ", "HALT">>

\* The unknown value is no number and no opcode's name.
ASSUME UnknownAssumption ==
  /\ X \notin Int
  /\ X \notin {"LDI", "MOV", "ADD", "SUB", "AND", "OR", "XOR", "SHL", "SHR", "MUL",
               "LOAD", "STORE", "CMP", "JMP", "JZ", "HALT"}

ThreeRegisterOps == {"ADD", "SUB", "SHR", "SHL", "MUL", "AND", "OR", "XOR"}

\* instruction_data[15:12]
Opcode(w) == IF w = X THEN X ELSE Opcodes[w \div 4096 + 1]

\* dst_reg, instruction_data[11:9] where the format has it, or 0.
Dst(w) ==
  IF Opcode(w) \in ThreeRegisterOps \union {"LOAD", "STORE", "MOV", "LDI"}
    THEN (w \div 512) % 8 ELSE 0

\* immediate, instruction_data[8:0] of an LDI.
Immediate(w) == IF Opcode(w) = "LDI" THEN w % 512 ELSE 0

\* address: nine bits, of the twelve that a jump has too.
Address(w) == IF Opcode(w) \in {"LOAD", "STORE", "JMP", "JZ"} THEN w % 512 ELSE 0

=============================================================================
