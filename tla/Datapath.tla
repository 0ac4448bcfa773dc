------------------------------ MODULE Datapath ------------------------------
(***************************************************************************)
(* CPU/datapath.v with the register file, the ALU and the ripple-carry     *)
(* adder below it, one clock cycle a step: the control inputs are driven,  *)
(* the combinational part settles, the clock rises, and it settles again.  *)
(* Words are numbers of WordBits bits (16 in the code).                    *)
(***************************************************************************)
EXTENDS Integers

CONSTANTS
  WordBits,   \* the width of a word
  NumRegs,    \* the registers of the file
  Drives      \* the control inputs of a cycle, see DrivesAssumption

ASSUME DatapathAssumption ==
  /\ WordBits \in Nat \ {0}
  /\ NumRegs \in Nat \ {0}

Word == 0 .. 2^WordBits - 1
Reg == 0 .. NumRegs - 1

\* alu_ops.vh; MUL and CMP have a code, and no case in the ALU.
AluOp == {"ADD", "SUB", "AND", "OR", "XOR", "SHL", "SHR", "MUL", "CMP"}
Latched == {"MUL", "CMP"}

Control ==
  [reset : BOOLEAN, writeEnable : BOOLEAN, fromImmediate : BOOLEAN, op : AluOp,
   immediate : Word, a : Reg, b : Reg, dst : Reg]

ASSUME DrivesAssumption == Drives \subseteq Control

-----------------------------------------------------------------------------
(* adder.v                                                                 *)

Bit(w, i) == (w \div 2^i) % 2

\* The numbers that the low bits of b make, for every count of them.
LowBits(b) ==
  LET value[i \in 0 .. WordBits] ==
        IF i = 0 THEN 0 ELSE value[i - 1] + b[i - 1] * 2^(i - 1)
  IN  value

\* The word whose bit i is b[i].
FromBits(b) == LowBits(b)[WordBits]

XorBit(x, y) == (x + y) % 2
AndBit(x, y) == x * y
OrBit(x, y) == x + y - x * y

\* Mutated form of FullCarry: the second half adder's carry is lost.
FullCarryHalf(x, y, c) == AndBit(x, y)

\* full_adder: the carries of its two half adders, combined by an xor gate.
FullCarry(x, y, c) == XorBit(AndBit(x, y), AndBit(XorBit(x, y), c))

FullSum(x, y, c) == XorBit(XorBit(x, y), c)

\* The carry into each bit: bit i takes that of bit i - 1.
Carries(a, b) ==
  LET carry[i \in 0 .. WordBits] ==
        IF i = 0 THEN 0 ELSE FullCarry(Bit(a, i - 1), Bit(b, i - 1), carry[i - 1])
  IN  carry

\* adder_16bit; the last carry is dropped.
Adder(a, b) ==
  FromBits([i \in 0 .. WordBits - 1 |-> FullSum(Bit(a, i), Bit(b, i), Carries(a, b)[i])])

\* ~b
Complement(b) == FromBits([i \in 0 .. WordBits - 1 |-> 1 - Bit(b, i)])

\* subtracter_16bit: a plus the two's complement of b.
Subtracter(a, b) == Adder(a, Adder(Complement(b), 1))

PerBit(Op(_, _), a, b) ==
  FromBits([i \in 0 .. WordBits - 1 |-> Op(Bit(a, i), Bit(b, i))])

ShiftLeft(a, b) ==
  FromBits([i \in 0 .. WordBits - 1 |-> IF i >= b THEN Bit(a, i - b) ELSE 0])

ShiftRight(a, b) ==
  FromBits([i \in 0 .. WordBits - 1 |-> IF i + b < WordBits THEN Bit(a, i + b) ELSE 0])

\* alu_16bit. The case has no default, so that out is a latch: on MUL and CMP
\* it keeps what it held.
Alu(op, a, b, held) ==
  CASE op = "ADD" -> Adder(a, b)
    [] op = "SUB" -> Subtracter(a, b)
    [] op = "AND" -> PerBit(AndBit, a, b)
    [] op = "OR" -> PerBit(OrBit, a, b)
    [] op = "XOR" -> PerBit(XorBit, a, b)
    [] op = "SHL" -> ShiftLeft(a, b)
    [] op = "SHR" -> ShiftRight(a, b)
    [] OTHER -> held

-----------------------------------------------------------------------------
VARIABLES
  regs,    \* register_file: data_out of its registers
  aluOut,  \* alu_out, settled
  control  \* the control inputs as they were last driven

vars == <<regs, aluOut, control>>

\* What the testbench's first cycle, a reset with ADD on the ALU, leaves.
Init ==
  /\ regs = [r \in Reg |-> 0]
  /\ aluOut = 0
  /\ control = [reset |-> TRUE, writeEnable |-> FALSE, fromImmediate |-> FALSE,
                op |-> "ADD", immediate |-> 0, a |-> 0, b |-> 0, dst |-> 0]

\* Mutated form of NextRegs: a disabled write is written all the same.
NextRegsAlways(c, data) ==
  IF c.reset THEN [r \in Reg |-> 0] ELSE [regs EXCEPT ![c.dst] = data]

\* The eight registers at the edge: reset beats a write, and only the register
\* that write_addr selects is enabled.
NextRegs(c, data) ==
  CASE c.reset -> [r \in Reg |-> 0]
    [] ~c.reset /\ c.writeEnable -> [regs EXCEPT ![c.dst] = data]
    [] OTHER -> regs

\* One cycle: the edge writes what has settled before it, and the ALU sees the
\* new registers after it.
Cycle(c) ==
  LET settled == Alu(c.op, regs[c.a], regs[c.b], aluOut)
      data == IF c.fromImmediate THEN c.immediate ELSE settled
  IN  /\ control' = c
      /\ regs' = NextRegs(c, data)
      /\ aluOut' = Alu(c.op, regs'[c.a], regs'[c.b], settled)

Next == \E c \in Drives : Cycle(c)

Spec == Init /\ [][Next]_vars

-----------------------------------------------------------------------------
TypeOK ==
  /\ regs \in [Reg -> Word]
  /\ aluOut \in Word
  /\ control \in Control

Ones(w) == {i \in 0 .. WordBits - 1 : Bit(w, i) = 1}

\* What out must be for the operation, in numbers modulo 2^WordBits or as the
\* set of its one bits; held is what it was before. On MUL and CMP it stays that.
Means(op, a, b, held, out) ==
  CASE op = "ADD" -> out = (a + b) % 2^WordBits
    [] op = "SUB" -> out = (a - b) % 2^WordBits
    [] op = "SHL" -> out = (a * 2^b) % 2^WordBits
    [] op = "SHR" -> out = a \div 2^b
    [] op = "AND" -> Ones(out) = Ones(a) \intersect Ones(b)
    [] op = "OR" -> Ones(out) = Ones(a) \union Ones(b)
    [] op = "XOR" -> Ones(out) = (Ones(a) \union Ones(b)) \ (Ones(a) \intersect Ones(b))
    [] OTHER -> out = held

\* The gates compute arithmetic: the ripple-carry adder wraps, subtraction by
\* two's complement wraps below zero, a shift by the width or more gives zero
\* (adder.v:56-77, alu.v:30-62). A shift by 0 leaves the word as it is, where
\* alu_tb.v:73-78 expects a shift by one: see Testbenches. Of MUL and CMP nothing is
\* said here.
AluComputes ==
  Means(control.op, regs[control.a], regs[control.b], aluOut, aluOut)

\* A cycle writes at most the selected register, from the operands as they were
\* before the edge even when it is one of them, and nothing without the write
\* enable (register_file.v:20-28, register.v:14-17, datapath.v:21-41). MUL and CMP
\* write what the cycle before has left on the ALU, whatever their operands are, and
\* leave it there (alu.v:31-39).
RegisterWrites ==
  [][LET c == control'
     IN  /\ \A r \in Reg \ {c.dst} : c.reset \/ regs'[r] = regs[r]
         /\ c.reset => regs'[c.dst] = 0
         /\ ~c.reset /\ ~c.writeEnable => regs' = regs
         /\ ~c.reset /\ c.writeEnable =>
              IF c.fromImmediate THEN regs'[c.dst] = c.immediate
              ELSE Means(c.op, regs[c.a], regs[c.b], aluOut, regs'[c.dst])
         /\ c.op \in Latched => aluOut' = aluOut]_vars

=============================================================================
