--------------------------- MODULE InstructionSet ---------------------------
(***************************************************************************)
(* The machine that the instructions of CPU/ run on, as its control unit   *)
(* makes them behave, without the cycles they take. An instruction takes   *)
(* effect in two parts: on the registers when it is issued, on memory and  *)
(* on the control flow when the next word is. The word after a HALT is     *)
(* still issued. It is not the machine that CPU/README.md and cpu_tb.v     *)
(* mean: Testbenches has the differences.                                  *)
(***************************************************************************)
EXTENDS InstructionWord

CONSTANTS
  PcLimit,  \* the program counter counts modulo PcLimit (2^16 in the code)
  Bus       \* the words that the memory side may supply

VARIABLES
  issued,  \* the last word issued
  regs,
  pc,
  halted,
  written  \* the writes memory has taken, counted modulo 2, and where the last went

vars == <<issued, regs, pc, halted, written>>

ZeroRegs == [r \in Reg |-> 0]

(***************************************************************************)
(* What a word does to the registers. The ALU's operation is driven by     *)
(* nothing, so whatever goes through the ALU ends up unknown. A STORE      *)
(* writes its source register. A LOAD writes none, though cpu_tb.v:103     *)
(* means to prove that it does.                                            *)
(***************************************************************************)
Effect(w, file) ==
  CASE Opcode(w) = "LDI" -> [file EXCEPT ![Dst(w)] = Immediate(w)]
    [] Opcode(w) \in ThreeRegisterOps \union {"MOV", "STORE"} ->
         [file EXCEPT ![Dst(w)] = X]
    [] OTHER -> file

\* Where a word leaves the program counter. JZ tests nothing: there is no flag, and
\* CMP keeps no result. With an unknown opcode the counter's multiplexer merges the
\* jump address 0 with the next count, and only the bits that agree are known.
Follow(w, n) ==
  CASE Opcode(w) \in {"JMP", "JZ"} -> Address(w)
    [] Opcode(w) \notin {"JMP", "JZ"} /\ n = X -> X
    [] Opcode(w) = X /\ n # X -> IF (n + 1) % PcLimit = 0 THEN 0 ELSE X
    [] OTHER -> (n + 1) % PcLimit

\* A STORE is one write, to the address it names.
Stored(w, log) ==
  IF Opcode(w) = "STORE" THEN [count |-> 1 - log.count, address |-> Address(w)] ELSE log

Init ==
  /\ issued = 0
  /\ regs = ZeroRegs
  /\ pc = 0
  /\ halted = FALSE
  /\ written = [count |-> 0, address |-> X]

Issue(w) ==
  /\ ~halted
  /\ issued' = w
  /\ regs' = Effect(w, regs)
  /\ pc' = Follow(issued, pc)
  /\ halted' = (Opcode(issued) = "HALT")
  /\ written' = Stored(issued, written)

\* A reset clears all but an execution of HALT, or of a STORE, that it comes too
\* late for.
Reset ==
  /\ issued' = 0
  /\ regs' = ZeroRegs
  /\ pc' = 0
  /\ \/ halted' = FALSE
     \/ ~halted /\ Opcode(issued) = "HALT" /\ halted' = TRUE
  /\ \/ written' = written
     \/ ~halted /\ written' = Stored(issued, written)

Next == Reset \/ \E w \in Bus : Issue(w)

Spec == Init /\ [][Next]_vars

=============================================================================
