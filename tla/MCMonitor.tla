------------------------------ MODULE MCMonitor -------------------------------
(***************************************************************************)
(* The monitor over every three-word program of a small instruction set.   *)
(***************************************************************************)
EXTENDS Monitor, Sequences

MCPMem == 4 .. 6
MCCSRs == {"mstatus", "mtvec", "mepc", "mcause"}
MCSiArgs == {-1, 0, 1, 2}

I(op, rd, rs1, rs2, imm, c) ==
  [op |-> op, rd |-> rd, rs1 |-> rs1, rs2 |-> rs2, imm |-> imm, csr |-> c]

Table ==
  << I("invalid", 0, 0, 0, 0, "unknown"),
     I("alu",     1, 1, 0, 5, "unknown"),      \* addi x1, x1, 5
     I("alu",     0, 1, 0, 1, "unknown"),      \* addi x0, x1, 1
     I("store",   0, 0, 1, 5, "unknown"),      \* sw   x1, 5(x0)
     I("load",    1, 1, 0, 5, "unknown"),      \* lw   x1, 5(x1)
     I("jal",     0, 0, 0, WordMod - 1, "unknown"),  \* j -1
     I("jalr",    1, 1, 0, 0, "unknown"),      \* jalr x1, 0(x1)
     I("branch",  0, 1, 0, 2, "unknown"),      \* beq  x1, x0, +2
     I("csr",     1, 1, 0, 0, "mstatus"),      \* csrrw x1, mstatus, x1
     I("ecall",   0, 0, 0, 0, "unknown"),
     I("mret",    0, 0, 0, 0, "unknown"),
     I("ebreak",  0, 0, 0, 0, "unknown") >>

MCFields(w) == Table[w + 1]
MCAlu(i, pc, a, b) == Plus(a, i.imm)
MCTaken(i, a, b) == a = b
MCCsrOp(i, old, src1) == src1
==============================================================================
