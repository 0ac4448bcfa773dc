-------------------------------- MODULE Chip --------------------------------
(***************************************************************************)
(* CPU/chip.v: the CPU and the memory of ram.v on one clock. The nets      *)
(* between them are declared without a range and carry one bit, so that no *)
(* word and no address gets across whole, and the CPU's data input is a    *)
(* net of its own that nothing drives.                                     *)
(***************************************************************************)
EXTENDS Cpu

CONSTANT Cell  \* the addresses, 0..511 in the code

VARIABLE cells  \* memory: register_out

\* A value of several bits behind a one-bit net: the other bits float.
OneBit(value) == X

\* memory: read_data, which is what an unknown address selects, unknown
ReadData(address) == IF address = X THEN X ELSE cells[address]

\* memory: an enable, or an address, that is not known writes nowhere.
Written(enable, address, data) ==
  IF enable = 1 /\ address \in Cell THEN [cells EXCEPT ![address] = data] ELSE cells

ChipInit == Init /\ cells = [a \in Cell |-> 0]

\* in_cpu_mem_data, implicitly declared; read_data goes to cpu_in_mem_data.
CpuInMemData == X

ChipClock(reset) ==
  /\ Clock(reset, CpuInMemData)
  /\ cells' = Written(MemWriteEnable, OneBit(MemAddress), OneBit(MemWriteData))

ChipNext == \E reset \in BOOLEAN : ChipClock(reset)

ChipSpec == ChipInit /\ [][ChipNext]_<<vars, cells>>

\* CPU/README.md:3, "Supports 9 bits for addressing memory ... word size is 16 bits":
\* the word that is loaded into the instruction register, unless reset clears it, is
\* the whole word of the memory that the program counter has come to.
ExecutesItsProgram ==
  [][ir' # ir => ir' = 0 \/ (pcReg # X /\ ir' = ReadData(pcReg % 512))]_<<vars, cells>>
=============================================================================
