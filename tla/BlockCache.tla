------------------------------ MODULE BlockCache ------------------------------
(***************************************************************************)
(* NEMU's interpreter: nemu/src/isa/riscv32/inst.c.                        *)
(*                                                                         *)
(* isa_exec_once looks the pc up in a direct-mapped cache of decoded basic *)
(* blocks, decodes a block on a miss, and jumps to its first handler.      *)
(* Each op_ label executes one decoded instruction; DISPATCH goes on to    *)
(* the next one of the block, and the instructions that may leave          *)
(* sequential control flow set next_pc and go to block_dispatch, which     *)
(* looks up, perhaps refills, and enters the next block without returning. *)
(* Only there is nemu_state polled.                                        *)
(*                                                                         *)
(* One action per handler; label says where control is:                    *)
(*   "idle"      outside isa_exec_once                                     *)
(*   "exec"      at the handler of insts[p] of block basicblock            *)
(*   "dispatch"  at block_dispatch, with next_pc set                       *)
(***************************************************************************)
EXTENDS Isa

CONSTANTS
  NSets,           \* entries of basicblock_cache (1024)
  MAX_INST_LENGTH, \* most instructions of a block (32)
  RT_CHECK         \* the build option that range-checks register indices

ASSUME CacheAssumption ==
  /\ NSets \in Nat \ {0}
  /\ MAX_INST_LENGTH \in Nat \ {0}
  /\ RT_CHECK \in BOOLEAN
  /\ RESET_VECTOR % NSets = 0      \* 0x80000000, PC_RESET_OFFSET 0

VARIABLES
  gpr, csr, cpu_pc,         \* cpu: gpr[NReg] is the dummy register
  mem,                      \* pmem
  basicblock_cache,
  basicblock, p, next_pc,   \* the locals of basicblock_cache_execute
  label,
  nemu_state,
  host,                     \* "ok", or how the NEMU process died
  ahead,                    \* g_nr_guest_inst minus the instructions executed
  words                     \* history: the words each address has held

cpu_vars == <<gpr, csr>>
block_vars == <<basicblock_cache, basicblock, ahead>>
mem_vars == <<mem, words>>
vars == <<gpr, csr, cpu_pc, mem, basicblock_cache, basicblock, p, next_pc,
          label, nemu_state, host, ahead, words>>

Sink == NReg

(* struct Inst, with the pc and the operands decode_operand fills in.  A   *)
(* destination of x0 is redirected to the dummy register.  The handler     *)
(* address code is op itself: the table behind it is filled before the     *)
(* first decode.  Slots never decoded are zero, and their code NULL.       *)
CachedOps == Ops \union {"end", "null"}
Decoded ==
  [op : CachedOps, pc : Word, rd : 1 .. Sink, rs1 : 0 .. NReg - 1,
   rs2 : 0 .. NReg - 1, imm : Word, csr : CSRs \union {"unknown"}, word : Word]

(* Variant: x0 writes are not redirected.                                  *)
DecodeKeepsX0(pc, w) ==
  LET f == Fields(w) IN
  [op |-> f.op, pc |-> pc, rd |-> f.rd, rs1 |-> f.rs1, rs2 |-> f.rs2,
   imm |-> f.imm, csr |-> f.csr, word |-> w]

Decode(pc, w) ==
  LET f == Fields(w) IN
  [op |-> f.op, pc |-> pc, rd |-> IF f.rd = 0 THEN Sink ELSE f.rd,
   rs1 |-> f.rs1, rs2 |-> f.rs2, imm |-> f.imm, csr |-> f.csr, word |-> w]

Blank(op, pc) ==
  [op |-> op, pc |-> pc, rd |-> Sink, rs1 |-> 0, rs2 |-> 0, imm |-> 0,
   csr |-> "unknown", word |-> 0]

(* struct BasicBlock; entry tells a filled block from a zeroed one.        *)
Block == [pc : Word, count : 0 .. MAX_INST_LENGTH, entry : CachedOps,
          insts : [0 .. MAX_INST_LENGTH -> Decoded]]

ZeroBlock == [pc |-> 0, count |-> 0, entry |-> "null",
              insts |-> [k \in 0 .. MAX_INST_LENGTH |-> Blank("null", 0)]]

IndexOf(pc) == pc % NSets

(* Variant: any filled entry hits, whatever its tag.                       *)
IsHitCacheAnyTag(pc) == basicblock_cache[IndexOf(pc)].entry # "null"

IsHitCache(pc) == basicblock_cache[IndexOf(pc)].pc = pc

Cur == basicblock_cache[basicblock].insts[p]

------------------------------------------------------------------------------
(* basicblock_cache_refill: n words are decoded, the n-th one being the    *)
(* first that ends the loop: it terminates the block, it fills the last    *)
(* slot, or fetching it leaves pmem (which kills the host).                *)
DecodeLoop(pc, n) ==
  /\ \A k \in 0 .. n - 2 : /\ AddrAt(pc, k) \in PMem
                           /\ ~ Terminates(Fields(mem[AddrAt(pc, k)]).op)
  /\ (n < MAX_INST_LENGTH /\ AddrAt(pc, n - 1) \in PMem) =>
        Terminates(Fields(mem[AddrAt(pc, n - 1)]).op)

DecodedAt(pc, k) == Decode(AddrAt(pc, k), mem[AddrAt(pc, k)])

(* The block after the loop.  Slots the loop did not reach keep what they  *)
(* held; a full block that does not terminate gets an OP_END after it.     *)
RefilledNoEnd(old, pc, n) ==     \* variant: no OP_END after a full block
  [pc |-> pc, count |-> n, entry |-> DecodedAt(pc, 0).op,
   insts |-> [k \in 0 .. MAX_INST_LENGTH |->
      IF k < n THEN DecodedAt(pc, k) ELSE old.insts[k]]]

RefilledShort(old, pc, n) ==     \* variant: count is the last index
  [RefilledNoEnd(old, pc, n) EXCEPT !.count = n - 1]

Refilled(old, pc, n) ==
  [pc |-> pc, count |-> n, entry |-> DecodedAt(pc, 0).op,
   insts |-> [k \in 0 .. MAX_INST_LENGTH |->
      CASE k < n -> DecodedAt(pc, k)
        [] /\ k = n /\ n = MAX_INST_LENGTH
           /\ ~ Terminates(DecodedAt(pc, n - 1).op) ->
              Blank("end", AddrAt(pc, MAX_INST_LENGTH))
        [] OTHER -> old.insts[k]]]

(* The code that isa_exec_once and block_dispatch share: look pc up, refill *)
(* on a miss, enter the block.  Entering a block never filled jumps to a   *)
(* NULL entry.                                                             *)
EnterBlock(pc) ==
  LET i == IndexOf(pc)
      enter(b) == /\ ahead' = ahead + b.count
                  /\ basicblock' = i
                  /\ p' = 0
                  /\ label' = "exec"
                  /\ host' = IF b.entry = "null" THEN "segv" ELSE "ok"
  IN
  IF IsHitCache(pc)
    THEN enter(basicblock_cache[i]) /\ UNCHANGED basicblock_cache
    ELSE \E n \in 1 .. MAX_INST_LENGTH :
           /\ DecodeLoop(pc, n)
           /\ IF AddrAt(pc, n - 1) \in PMem
                THEN LET b == Refilled(basicblock_cache[i], pc, n) IN
                     /\ basicblock_cache' = [basicblock_cache EXCEPT ![i] = b]
                     /\ enter(b)
                ELSE /\ host' = "panic"
                     /\ UNCHANGED <<basicblock_cache, basicblock, p, label, ahead>>

(* isa_exec_once(cpu.pc), called while the machine runs.                   *)
ExecOnce ==
  /\ host = "ok" /\ label = "idle" /\ nemu_state.state = "RUNNING"
  /\ EnterBlock(cpu_pc)
  /\ UNCHANGED <<cpu_vars, cpu_pc, mem_vars, next_pc, nemu_state>>

(* block_dispatch: publish the pc, return if the machine has stopped.      *)
BlockDispatchNoPoll ==           \* variant: nemu_state is not looked at
  /\ host = "ok" /\ label = "dispatch"
  /\ cpu_pc' = next_pc
  /\ EnterBlock(next_pc)
  /\ UNCHANGED <<cpu_vars, mem_vars, next_pc, nemu_state>>

BlockDispatchReturns ==          \* variant: back to cpu_exec after every block
  /\ host = "ok" /\ label = "dispatch"
  /\ cpu_pc' = next_pc
  /\ label' = "idle"
  /\ UNCHANGED <<cpu_vars, mem_vars, next_pc, nemu_state, block_vars, p, host>>

BlockDispatch ==
  /\ host = "ok" /\ label = "dispatch"
  /\ cpu_pc' = next_pc
  /\ IF nemu_state.state = "RUNNING"
       THEN EnterBlock(next_pc)
       ELSE label' = "idle" /\ UNCHANGED <<block_vars, p, host>>
  /\ UNCHANGED <<cpu_vars, mem_vars, next_pc, nemu_state>>

------------------------------------------------------------------------------
(* The handlers.                                                           *)
At(op) == host = "ok" /\ label = "exec" /\ Cur.op = op

(* R(rd) = v.  With RT_CHECK the index of the dummy register is refused.   *)
SetR(rd, v) ==
  /\ gpr' = [gpr EXCEPT ![rd] = v]
  /\ host' = IF RT_CHECK /\ rd >= NReg THEN "assert" ELSE "ok"

DISPATCH ==
  /\ p' = p + 1
  /\ ahead' = ahead - 1
  /\ UNCHANGED <<cpu_pc, basicblock_cache, basicblock, next_pc, label>>

GotoDispatch(target) ==
  /\ next_pc' = target
  /\ label' = "dispatch"
  /\ ahead' = ahead - 1
  /\ UNCHANGED <<cpu_pc, basicblock_cache, basicblock, p>>

(* out_of_bound, or the Assert of check_csr_idx: the process aborts.       *)
Die ==
  /\ host' = "panic"
  /\ UNCHANGED <<cpu_pc, block_vars, p, next_pc, label>>

OpAlu ==
  /\ At("alu")
  /\ SetR(Cur.rd, Alu(Fields(Cur.word), Cur.pc, gpr[Cur.rs1], gpr[Cur.rs2]))
  /\ DISPATCH
  /\ UNCHANGED <<csr, mem_vars, nemu_state>>

OpLoad ==
  LET a == Plus(gpr[Cur.rs1], Cur.imm) IN
  /\ At("load")
  /\ IF a \in PMem THEN SetR(Cur.rd, mem[a]) /\ DISPATCH
                   ELSE Die /\ UNCHANGED gpr
  /\ UNCHANGED <<csr, mem_vars, nemu_state>>

(* Stores write pmem and leave the cache alone.                            *)
OpStore ==
  LET a == Plus(gpr[Cur.rs1], Cur.imm)
      v == gpr[Cur.rs2]
  IN
  /\ At("store")
  /\ IF a \in PMem
       THEN /\ mem' = [mem EXCEPT ![a] = v]
            /\ words' = [words EXCEPT ![a] = @ \union {v}]
            /\ DISPATCH
            /\ UNCHANGED host
       ELSE Die /\ UNCHANGED mem_vars
  /\ UNCHANGED <<cpu_vars, nemu_state>>

OpJal ==
  /\ At("jal")
  /\ SetR(Cur.rd, Plus(Cur.pc, 1))
  /\ GotoDispatch(Plus(Cur.pc, Cur.imm))
  /\ UNCHANGED <<csr, mem_vars, nemu_state>>

(* dnpc is read before rd is written, which may be the same register.      *)
OpJalr ==
  LET dnpc == Plus(gpr[Cur.rs1], Cur.imm) IN
  /\ At("jalr")
  /\ SetR(Cur.rd, Plus(Cur.pc, 1))
  /\ GotoDispatch(dnpc)
  /\ UNCHANGED <<csr, mem_vars, nemu_state>>

OpBranch ==
  /\ At("branch")
  /\ GotoDispatch(IF Taken(Fields(Cur.word), gpr[Cur.rs1], gpr[Cur.rs2])
                    THEN Plus(Cur.pc, Cur.imm) ELSE Plus(Cur.pc, 1))
  /\ UNCHANGED <<cpu_vars, mem_vars, nemu_state, host>>

OpCsr ==
  LET src1 == gpr[Cur.rs1] IN
  /\ At("csr")
  /\ IF Cur.csr \in CSRs
       THEN /\ SetR(Cur.rd, csr[Cur.csr])
            /\ csr' = [csr EXCEPT ![Cur.csr] = CsrOp(Fields(Cur.word), @, src1)]
            /\ DISPATCH
       ELSE Die /\ UNCHANGED cpu_vars
  /\ UNCHANGED <<mem_vars, nemu_state>>

(* isa_raise_intr(11, pc), then through mtvec.                             *)
OpEcall ==
  /\ At("ecall")
  /\ csr' = [csr EXCEPT !["mcause"] = 11, !["mepc"] = Cur.pc]
  /\ GotoDispatch(csr["mtvec"])
  /\ UNCHANGED <<gpr, mem_vars, nemu_state, host>>

OpMret ==
  /\ At("mret")
  /\ GotoDispatch(csr["mepc"])
  /\ UNCHANGED <<cpu_vars, mem_vars, nemu_state, host>>

(* NEMUTRAP.                                                               *)
OpEbreakFallsThrough ==          \* variant: DISPATCH after the trap
  /\ At("ebreak")
  /\ nemu_state' = Halt("END", Cur.pc, gpr[A0])
  /\ DISPATCH
  /\ UNCHANGED <<cpu_vars, mem_vars, host>>

OpEbreak ==
  /\ At("ebreak")
  /\ nemu_state' = Halt("END", Cur.pc, gpr[A0])
  /\ GotoDispatch(Plus(Cur.pc, 1))
  /\ UNCHANGED <<cpu_vars, mem_vars, host>>

(* INV reads two words to report them, sets ABORT, and DISPATCH goes on.   *)
OpInvalid ==
  /\ At("invalid")
  /\ IF Plus(Cur.pc, 1) \in PMem
       THEN /\ nemu_state' = Halt("ABORT", Cur.pc, -1)
            /\ DISPATCH
            /\ UNCHANGED host
       ELSE Die /\ UNCHANGED nemu_state
  /\ UNCHANGED <<cpu_vars, mem_vars>>

(* The end marker of a full block: no guest instruction.                   *)
OpEndCounted ==                  \* variant: counted as an instruction
  /\ At("end")
  /\ GotoDispatch(Cur.pc)
  /\ UNCHANGED <<cpu_vars, mem_vars, nemu_state, host>>

OpEnd ==
  /\ At("end")
  /\ next_pc' = Cur.pc
  /\ label' = "dispatch"
  /\ UNCHANGED <<cpu_vars, cpu_pc, mem_vars, block_vars, p, nemu_state, host>>

------------------------------------------------------------------------------
(* What init_mem, init_isa's restart() and load_img leave: zeroed registers *)
(* and any program.                                                        *)
RestartOffset ==                 \* variant: a reset vector off the base
  /\ gpr = [r \in 0 .. Sink |-> 0]
  /\ csr = ResetCsr
  /\ cpu_pc = RESET_VECTOR + 1
  /\ mem \in [PMem -> Word]
  /\ words = [a \in PMem |-> {mem[a]}]
  /\ basicblock_cache = [i \in 0 .. NSets - 1 |-> ZeroBlock]
  /\ basicblock = 0 /\ p = 0 /\ next_pc = 0
  /\ label = "idle" /\ host = "ok" /\ ahead = 0

Restart ==
  /\ gpr = [r \in 0 .. Sink |-> 0]
  /\ csr = ResetCsr
  /\ cpu_pc = RESET_VECTOR
  /\ mem \in [PMem -> Word]
  /\ words = [a \in PMem |-> {mem[a]}]
  /\ basicblock_cache = [i \in 0 .. NSets - 1 |-> ZeroBlock]
  /\ basicblock = 0 /\ p = 0 /\ next_pc = 0
  /\ label = "idle" /\ host = "ok" /\ ahead = 0

(* The interpreter as the first cpu_exec finds it; Monitor has the rest.   *)
Init == Restart /\ nemu_state = Halt("RUNNING", 0, 0)

Next ==
  \/ ExecOnce \/ BlockDispatch
  \/ OpAlu \/ OpLoad \/ OpStore \/ OpJal \/ OpJalr \/ OpBranch \/ OpCsr
  \/ OpEcall \/ OpMret \/ OpEbreak \/ OpInvalid \/ OpEnd

Spec == Init /\ [][Next]_vars

(* The interpreter is one thread of the host, which schedules it.          *)
FairSpec == Spec /\ WF_vars(Next)

------------------------------------------------------------------------------
(* Every variable holds a value of its C type.                             *)
TypeOK ==
  /\ gpr \in [0 .. Sink -> Word]
  /\ csr \in [CSRs -> Word]
  /\ cpu_pc \in Word /\ next_pc \in Word
  /\ mem \in [PMem -> Word]
  /\ words \in [PMem -> SUBSET Word]
  /\ basicblock_cache \in [0 .. NSets - 1 -> Block]
  /\ basicblock \in 0 .. NSets - 1
  /\ p \in 0 .. MAX_INST_LENGTH
  /\ label \in {"idle", "exec", "dispatch"}
  /\ nemu_state \in NemuState
  /\ host \in {"ok", "panic", "segv", "assert"}
  /\ ahead \in 0 .. MAX_INST_LENGTH

(* Every filled cache entry is the basic block that starts at its tag: it  *)
(* sits in the set its tag selects; its instructions have consecutive pcs, *)
(* each decoded from a word that was really at that pc; only the last one  *)
(* may leave sequential flow, and a block in which none does is full and   *)
(* followed by an OP_END that carries the next pc (basicblock_cache_refill).*)
FullBlock(b) ==
  /\ b.count = MAX_INST_LENGTH
  /\ b.insts[MAX_INST_LENGTH].op = "end"
  /\ b.insts[MAX_INST_LENGTH].pc = AddrAt(b.pc, MAX_INST_LENGTH)

WellFormed(b) ==
  /\ b.count \in 1 .. MAX_INST_LENGTH
  /\ b.entry = b.insts[0].op
  /\ \A k \in 0 .. b.count - 1 :
       LET a == AddrAt(b.pc, k) IN
       /\ a \in PMem
       /\ b.insts[k] = Decode(a, b.insts[k].word)
       /\ b.insts[k].word \in words[a]
       /\ k < b.count - 1 => ~ Terminates(b.insts[k].op)
  /\ Terminates(b.insts[b.count - 1].op) \/ FullBlock(b)

BlocksWellFormed ==
  \A i \in 0 .. NSets - 1 :
    LET b == basicblock_cache[i] IN
    \/ b = ZeroBlock
    \/ IndexOf(b.pc) = i /\ WellFormed(b)

(* DISPATCH never walks p out of the decoded part of its block: p is at    *)
(* one of the block's count instructions, or at the OP_END of a full one.  *)
ExecInsideBlock ==
  (label = "exec" /\ host = "ok") =>
     LET b == basicblock_cache[basicblock] IN
     /\ b # ZeroBlock
     /\ \/ p < b.count
        \/ p = b.count /\ b.insts[p].op = "end"

(* A jump to address 0 finds the tag of a zeroed entry.  It never enters   *)
(* that entry, whose handler is NULL: the first block ever executed, at    *)
(* RESET_VECTOR, has taken the set that address 0 maps to.                 *)
NoNullEntry == host # "segv"

(* x0 reads as zero whatever the guest writes to it, although writes are   *)
(* not checked: decode_operand sends them to the dummy register.           *)
X0IsZero == gpr[0] = 0

(* g_nr_guest_inst is charged a whole block on entry; whenever control is  *)
(* between blocks it equals the number of instructions really executed.    *)
CountExact ==
  host = "ok" =>
    ahead = IF label = "exec" THEN basicblock_cache[basicblock].count - p ELSE 0

(* Inside a block the interpreter neither loops nor gets stuck: it comes   *)
(* to block_dispatch, or the host dies.                                    *)
BlockEnds == (label = "exec") ~> (label # "exec" \/ host # "ok")

(* Once ebreak or an invalid instruction has stopped the machine, control  *)
(* comes back to cpu_exec: no further block keeps it inside the            *)
(* interpreter, although nemu_state is polled between blocks only.         *)
HaltReturns ==
  (nemu_state.state # "RUNNING") ~> (label = "idle" \/ host # "ok")

------------------------------------------------------------------------------
(* Refinement: the interpreter implements the hart.  The hart's pc is the  *)
(* pc of the instruction about to execute, wherever the code keeps it.     *)
HartPc ==
  CASE label = "exec" /\ host # "segv" -> Cur.pc
    [] label = "dispatch" -> next_pc
    [] OTHER -> cpu_pc

HartGpr == [r \in 0 .. NReg - 1 |-> gpr[r]]
HartHost == IF host = "ok" THEN "ok" ELSE "panic"

H == INSTANCE Hart WITH
       pc <- HartPc, gpr <- HartGpr, host <- HartHost,
       Lookahead <- MAX_INST_LENGTH, PreciseInvalid <- FALSE

(* Caching is transparent: up to the first invalid instruction, the guest  *)
(* sees the registers, CSRs, memory, pc and exit of a hart that executes   *)
(* one instruction at a time.                                              *)
Transparent == H!Spec

HP == INSTANCE Hart WITH
        pc <- HartPc, gpr <- HartGpr, host <- HartHost,
        Lookahead <- MAX_INST_LENGTH, PreciseInvalid <- TRUE

(* The same with invalid instructions stopping the hart where they are.    *)
TransparentPrecise == HP!Spec
==============================================================================
