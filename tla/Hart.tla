-------------------------------- MODULE Hart ---------------------------------
(***************************************************************************)
(* What NEMU promises a guest program: a RISC-V hart that executes one     *)
(* instruction at a time, straight from memory.  There is no cache, no     *)
(* basic block and no dummy register.  docs/blog.typ says of BlockCache    *)
(* that "caching is transparent to the program"; BlockCache is checked to  *)
(* implement this module.                                                  *)
(*                                                                         *)
(* Three freedoms are explicit, each one a constant or a variable:         *)
(*  - words[a], the words address a has held since reset.  An instruction  *)
(*    fetch may return any of them, as on a RISC-V hart whose program      *)
(*    executes no fence.i (NEMU decodes fence.i as invalid).  For a        *)
(*    program that never stores over its code words[a] = {mem[a]} and the  *)
(*    fetch is exact; loads and stores always see mem.                     *)
(*  - Lookahead, how far ahead of the pc the host may decode.  Running off *)
(*    the end of pmem kills the host as soon as the end is that near.      *)
(*  - PreciseInvalid, whether an invalid instruction stops the hart at     *)
(*    once.  If it is FALSE nothing is promised after the first one.       *)
(***************************************************************************)
EXTENDS Isa

CONSTANTS Lookahead, PreciseInvalid

VARIABLES
  pc, gpr, csr, mem, words,
  nemu_state,     \* the run state the monitor sees
  host            \* "ok", or "panic" once the NEMU process has died

vars == <<pc, gpr, csr, mem, words, nemu_state, host>>

(* Register writes: a write to x0 is discarded.                            *)
WriteReg(rd, v) ==
  gpr' = IF rd = 0 THEN gpr ELSE [gpr EXCEPT ![rd] = v]

Init ==
  /\ pc = RESET_VECTOR
  /\ gpr = [r \in 0 .. NReg - 1 |-> 0]
  /\ csr = ResetCsr
  /\ mem \in [PMem -> Word]
  /\ words = [a \in PMem |-> {mem[a]}]
  /\ nemu_state = Halt("RUNNING", 0, 0)
  /\ host = "ok"

------------------------------------------------------------------------------
(* The instructions.  Each is a conjunct of Step, which has the fetch.     *)

ExecAlu(i) ==
  /\ i.op = "alu"
  /\ WriteReg(i.rd, Alu(i, pc, gpr[i.rs1], gpr[i.rs2]))
  /\ pc' = Plus(pc, 1)
  /\ UNCHANGED <<csr, mem, words, nemu_state, host>>

ExecLoad(i) ==
  LET a == Plus(gpr[i.rs1], i.imm) IN
  /\ i.op = "load"
  /\ IF a \in PMem
       THEN /\ WriteReg(i.rd, mem[a])
            /\ pc' = Plus(pc, 1)
            /\ UNCHANGED host
       ELSE host' = "panic" /\ UNCHANGED <<gpr, pc>>
  /\ UNCHANGED <<csr, mem, words, nemu_state>>

ExecStore(i) ==
  LET a == Plus(gpr[i.rs1], i.imm)
      v == gpr[i.rs2]
  IN
  /\ i.op = "store"
  /\ IF a \in PMem
       THEN /\ mem' = [mem EXCEPT ![a] = v]
            /\ words' = [words EXCEPT ![a] = @ \union {v}]
            /\ pc' = Plus(pc, 1)
            /\ UNCHANGED host
       ELSE host' = "panic" /\ UNCHANGED <<mem, words, pc>>
  /\ UNCHANGED <<gpr, csr, nemu_state>>

(* jal, jalr and the branches: the target is computed from the registers   *)
(* as they were before the link register is written.                       *)
ExecTransfer(i) ==
  /\ \/ /\ i.op = "jal"
        /\ pc' = Plus(pc, i.imm)
        /\ WriteReg(i.rd, Plus(pc, 1))
     \/ /\ i.op = "jalr"
        /\ pc' = Plus(gpr[i.rs1], i.imm)
        /\ WriteReg(i.rd, Plus(pc, 1))
     \/ /\ i.op = "branch"
        /\ pc' = IF Taken(i, gpr[i.rs1], gpr[i.rs2])
                   THEN Plus(pc, i.imm) ELSE Plus(pc, 1)
        /\ UNCHANGED gpr
  /\ UNCHANGED <<csr, mem, words, nemu_state, host>>

ExecCsr(i) ==
  /\ i.op = "csr"
  /\ IF i.csr \in CSRs
       THEN /\ WriteReg(i.rd, csr[i.csr])
            /\ csr' = [csr EXCEPT ![i.csr] = CsrOp(i, @, gpr[i.rs1])]
            /\ pc' = Plus(pc, 1)
            /\ UNCHANGED host
       ELSE host' = "panic" /\ UNCHANGED <<gpr, csr, pc>>
  /\ UNCHANGED <<mem, words, nemu_state>>

ExecTrap(i) ==
  /\ \/ /\ i.op = "ecall"
        /\ csr' = [csr EXCEPT !["mcause"] = 11, !["mepc"] = pc]
        /\ pc' = csr["mtvec"]
     \/ /\ i.op = "mret"
        /\ pc' = csr["mepc"]
        /\ UNCHANGED csr
  /\ UNCHANGED <<gpr, mem, words, nemu_state, host>>

(* ebreak is NEMU's exit: the run ends GOOD or BAD by the value of a0.     *)
ExecEbreak(i) ==
  /\ i.op = "ebreak"
  /\ nemu_state' = Halt("END", pc, gpr[A0])
  /\ pc' = Plus(pc, 1)
  /\ UNCHANGED <<gpr, csr, mem, words, host>>

(* An invalid instruction aborts the run; reporting it reads the next word *)
(* too, which may itself lie outside pmem.                                 *)
ExecInvalid(i) ==
  /\ i.op = "invalid"
  /\ IF Plus(pc, 1) \in PMem
       THEN /\ nemu_state' = Halt("ABORT", pc, -1)
            /\ pc' = Plus(pc, 1)
            /\ UNCHANGED host
       ELSE host' = "panic" /\ UNCHANGED <<nemu_state, pc>>
  /\ UNCHANGED <<gpr, csr, mem, words>>

Execute(i) ==
  \/ ExecAlu(i) \/ ExecLoad(i) \/ ExecStore(i) \/ ExecTransfer(i)
  \/ ExecCsr(i) \/ ExecTrap(i) \/ ExecEbreak(i) \/ ExecInvalid(i)

------------------------------------------------------------------------------
Running == host = "ok" /\ nemu_state.state = "RUNNING"

Step == Running /\ pc \in PMem /\ \E w \in words[pc] : Execute(Fields(w))

(* Straight-line code reaches the end of pmem within the decode window:    *)
(* the host dies, at the latest when the pc itself has left pmem.          *)
Doomed(a) ==
  \E k \in 0 .. Lookahead - 1 :
     /\ AddrAt(a, k) \notin PMem
     /\ \A j \in 0 .. k - 1 : /\ AddrAt(a, j) \in PMem
                              /\ ~ Terminates(Fields(mem[AddrAt(a, j)]).op)

RunOff ==
  /\ Running
  /\ Doomed(pc)
  /\ host' = "panic"
  /\ UNCHANGED <<pc, gpr, csr, mem, words, nemu_state>>

(* After an imprecise invalid instruction nothing is promised.             *)
Unspecified ==
  ~ PreciseInvalid /\ nemu_state.state = "ABORT"

Next == Step \/ RunOff \/ Unspecified

Spec == Init /\ [][Next]_vars
==============================================================================
