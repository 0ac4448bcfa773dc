----------------------------- MODULE MCDatapath -----------------------------
(* Datapath driven as datapath_tb.v drives it: resets, immediate writes, and *)
(* every operation on every choice of registers, enabled or not.           *)
EXTENDS Datapath

Drive(reset, enable, fromImmediate, op, immediate, a, b, dst) ==
  [reset |-> reset, writeEnable |-> enable, fromImmediate |-> fromImmediate,
   op |-> op, immediate |-> immediate, a |-> a, b |-> b, dst |-> dst]

MCDrives ==
  {Drive(TRUE, e, FALSE, "ADD", 0, 0, 1, 1) : e \in BOOLEAN}
  \union {Drive(FALSE, TRUE, TRUE, op, i, 0, 1, d) :
            op \in {"ADD", "MUL"}, i \in {0, 3, 5}, d \in Reg}
  \union {Drive(FALSE, TRUE, FALSE, op, 0, a, b, d) :
            op \in AluOp, a \in Reg, b \in Reg, d \in Reg}
  \union {Drive(FALSE, FALSE, FALSE, op, 0, 1, b, 0) : op \in AluOp, b \in Reg}

=============================================================================
