--------------------------------- MODULE Isa ---------------------------------
(***************************************************************************)
(* What the architectural machine (Hart) and NEMU's interpreter            *)
(* (BlockCache) share: guest words, the guest's memory map, and what a     *)
(* fetched word means.                                                     *)
(*                                                                         *)
(* Addresses and pcs are counted in 4-byte words (NEMU's pc divided by 4): *)
(* RV32IM without compressed instructions keeps every pc word-aligned.     *)
(* A word is a guest register value, an address and an instruction word at *)
(* once, so a guest program may store any register over any instruction.   *)
(*                                                                         *)
(* The arithmetic of the ALU, the branch conditions and the CSR            *)
(* read-modify-write are CONSTANT operators: what is proved here holds for *)
(* every choice of them, and a run picks a small concrete machine.         *)
(***************************************************************************)
EXTENDS Integers

CONSTANTS
  WordMod,        \* 2^32 in NEMU: words are 0 .. WordMod - 1
  PMem,           \* the addresses that in_pmem accepts
  NReg,           \* architectural registers (32)
  A0,             \* the register that holds the exit code (x10)
  RESET_VECTOR,   \* the pc after restart()
  MSTATUS,        \* the value restart() gives mstatus (0x1800)
  CSRs,           \* the CSRs check_csr_idx knows
  Fields(_),      \* the fields decode() extracts from an instruction word
  Alu(_, _, _, _),\* (instruction, pc, rs1, rs2) -> value written to rd
  Taken(_, _, _), \* (branch, rs1, rs2) -> is the branch taken
  CsrOp(_, _, _)  \* (instruction, old CSR, rs1) -> new CSR

Word == 0 .. WordMod - 1

(* Addition as uint32_t does it. *)
Plus(a, b) == (a + b) % WordMod

AddrAt(pc, k) == Plus(pc, k)

(* The classes of instructions.  lui, auipc, addi .. remu are one class,   *)
(* "alu"; the six branches are "branch"; lb .. lhu are "load", sb .. sw    *)
(* are "store"; csrrw and csrrs are "csr".                                 *)
AluOps  == {"alu"}
Ops == AluOps \union {"jal", "jalr", "branch", "load", "store", "csr",
                      "ebreak", "ecall", "mret", "invalid"}

Inst == [op : Ops, rd : 0 .. NReg - 1, rs1 : 0 .. NReg - 1,
         rs2 : 0 .. NReg - 1, imm : Word, csr : CSRs \union {"unknown"}]

(* is_terminate: the opcodes after which a basic block ends.               *)
Terminates(op) == op \in {"jal", "jalr", "branch", "ecall", "ebreak", "mret"}

NemuStates == {"RUNNING", "STOP", "END", "ABORT", "QUIT"}

(* struct NEMUState: state, halt_pc, halt_ret.                             *)
NemuState == [state : NemuStates, halt_pc : Word, halt_ret : Word \union {-1}]

Halt(state, pc, ret) == [state |-> state, halt_pc |-> pc, halt_ret |-> ret]

(* The registers as restart() leaves them.                                 *)
ResetCsr == [c \in CSRs |-> IF c = "mstatus" THEN MSTATUS ELSE 0]

ASSUME WordAssumption ==
  /\ WordMod \in Nat \ {0}
  /\ PMem \subseteq Word
  /\ 0 \notin PMem              \* MBASE is 0x80000000
  /\ RESET_VECTOR \in PMem
  /\ MSTATUS \in Word

ASSUME RegAssumption ==
  /\ NReg \in Nat \ {0, 1}
  /\ A0 \in 1 .. NReg - 1
  /\ {"mstatus", "mtvec", "mepc", "mcause"} \subseteq CSRs
  /\ 11 \in Word                \* the cause ecall raises

ASSUME DecodeAssumption ==
  \A w \in Word : Fields(w) \in Inst

ASSUME SemanticsAssumption ==
  \A w, a, b, c \in Word :
     LET i == Fields(w) IN
     /\ Alu(i, a, b, c) \in Word
     /\ Taken(i, a, b) \in BOOLEAN
     /\ CsrOp(i, a, b) \in Word
==============================================================================
