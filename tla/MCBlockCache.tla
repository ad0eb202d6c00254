---------------------------- MODULE MCBlockCache -----------------------------
(***************************************************************************)
(* A guest machine small enough for TLC to run every program of PMem's     *)
(* size: two registers, two cache sets and an instruction set that has one *)
(* instruction of each class, with the operands that make it interesting.  *)
(***************************************************************************)
EXTENDS BlockCache, Sequences

MCPMem == 4 .. 7
MCCSRs == {"mstatus", "mtvec", "mepc", "mcause"}

I(op, rd, rs1, rs2, imm, c) ==
  [op |-> op, rd |-> rd, rs1 |-> rs1, rs2 |-> rs2, imm |-> imm, csr |-> c]

(* The word w + 1 of the table is instruction word w.                      *)
Table ==
  << I("invalid", 0, 0, 0, 0, "unknown"),
     I("alu",     1, 1, 0, 7, "unknown"),      \* addi x1, x1, 7
     I("alu",     0, 1, 0, 1, "unknown"),      \* addi x0, x1, 1
     I("store",   0, 0, 1, 6, "unknown"),      \* sw   x1, 6(x0)
     I("load",    1, 1, 0, WordMod - 1, "unknown"),  \* lw   x1, -1(x1)
     I("jal",     1, 0, 0, WordMod - 2, "unknown"),  \* jal  x1, -2
     I("jalr",    1, 1, 0, 0, "unknown"),      \* jalr x1, 0(x1)
     I("branch",  0, 1, 0, 2, "unknown"),      \* beq  x1, x0, +2
     I("csr",     1, 1, 0, 0, "mtvec"),        \* csrrw x1, mtvec, x1
     I("csr",     0, 0, 0, 0, "unknown"),      \* a CSR NEMU does not have
     I("ecall",   0, 0, 0, 0, "unknown"),
     I("mret",    0, 0, 0, 0, "unknown"),
     I("ebreak",  0, 0, 0, 0, "unknown") >>

MCFields(w) == Table[w + 1]
MCAlu(i, pc, a, b) == Plus(a, i.imm)
MCTaken(i, a, b) == a = b
MCCsrOp(i, old, src1) == src1
==============================================================================
