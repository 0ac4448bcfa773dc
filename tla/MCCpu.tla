------------------------------- MODULE MCCpu -------------------------------
(* Cpu fed with any sequence of a few words, one for each way in which the *)
(* control treats an opcode, and with resets at any time.                  *)
EXTENDS Cpu

Encode(opcode, operands) == opcode * 4096 + operands

\* The operands of LDI, LOAD, STORE and of an instruction on registers.
WithRegister(reg, rest) == reg * 512 + rest

MCBus ==
  { Encode(0, WithRegister(1, 5)),     \* LDI R1, 5
    Encode(0, WithRegister(2, 511)),   \* LDI R2, 511
    Encode(1, WithRegister(2, 64)),    \* MOV R2, R1
    Encode(2, WithRegister(1, 136)),   \* ADD R1, R2, R1
    Encode(10, WithRegister(2, 9)),    \* LOAD R2, [9]
    Encode(11, WithRegister(1, 9)),    \* STORE R1, [9]
    Encode(11, WithRegister(2, 8)),    \* STORE R2, [8]
    Encode(12, WithRegister(1, 128)),  \* CMP R1, R2
    Encode(13, 2),                     \* JMP 2
    Encode(14, 3),                     \* JZ 3
    Encode(15, 0),                     \* HALT
    X }

=============================================================================
