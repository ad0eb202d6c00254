----------------------------- MODULE MonitorProofs -----------------------------
(***************************************************************************)
(* The safety of the block cache, for every word size, memory, instruction *)
(* set, cache size and block length, and of the monitor around it, for     *)
(* every sequence of commands.                                             *)
(*                                                                         *)
(* IInv is the inductive invariant of BlockCache: its safety invariants    *)
(* and the two facts they need, MemInWords and ResetSet.  Every handler    *)
(* makes one of three moves as far as control is concerned (Advance, Leave *)
(* or Dead), and the entry of a block is the only step that writes the     *)
(* cache; the proof follows that split.                                    *)
(*                                                                         *)
(* Under IInv the handler of an instruction does what Hart does with the   *)
(* word that was fetched (Fetched, HartReads, HartWrites, NextPc), and the *)
(* entry of a block is a stutter or the death of the host (HartEnters): so *)
(* the interpreter implements the hart.                                    *)
(*                                                                         *)
(* IInv stays an invariant when the interpreter's steps are interleaved    *)
(* with commands; SInv adds what ties the monitor's control to the         *)
(* interpreter's.                                                          *)
(***************************************************************************)
EXTENDS Monitor, TLAPS

USE WordAssumption, RegAssumption, CacheAssumption

(* Every address has held its present contents.                            *)
MemInWords == \A a \in PMem : mem[a] \in words[a]

(* The set of address 0 is empty only before the first block is entered.   *)
ResetSet ==
  basicblock_cache[0] = ZeroBlock => label = "idle" /\ cpu_pc = RESET_VECTOR

IInv ==
  /\ TypeOK
  /\ BlocksWellFormed
  /\ ExecInsideBlock
  /\ CountExact
  /\ X0IsZero
  /\ NoNullEntry
  /\ MemInWords
  /\ ResetSet

Straight == {"alu", "load", "store", "csr", "invalid"}

(* The three ways control moves at the end of a handler.                   *)
Advance ==
  /\ host = "ok" /\ label = "exec" /\ Cur.op \in Straight
  /\ DISPATCH

Leave ==
  /\ host = "ok" /\ label = "exec"
  /\ label' = "dispatch"
  /\ next_pc' \in Word
  /\ \/ Terminates(Cur.op) /\ ahead' = ahead - 1
     \/ Cur.op = "end" /\ ahead' = ahead
  /\ UNCHANGED <<cpu_pc, basicblock_cache, basicblock, p>>

Dead == Die

(* What a handler may do to the guest's state.                             *)
DataOK ==
  /\ gpr' \in [0 .. Sink -> Word] /\ gpr'[0] = gpr[0]
  /\ csr' \in [CSRs -> Word]
  /\ mem' \in [PMem -> Word]
  /\ words' \in [PMem -> SUBSET Word]
  /\ \A a \in PMem : words[a] \subseteq words'[a] /\ mem'[a] \in words'[a]
  /\ nemu_state' \in NemuState
  /\ host' \in {"ok", "panic", "assert"}

------------------------------------------------------------------------------
LEMMA PlusWord ==
  ASSUME NEW a \in Int, NEW b \in Int
  PROVE  Plus(a, b) \in Word
  BY DEF Plus, Word

LEMMA WordPlus ==
  ASSUME NEW a \in Word
  PROVE  Plus(a, 1) \in Word /\ \A b \in Word : Plus(a, b) \in Word
  BY DEF Plus, Word

(* A decoded word is a well-typed instruction, whose operation is one the  *)
(* ISA has and whose destination is never x0.                              *)
LEMMA DecodeType ==
  ASSUME NEW a \in Word, NEW w \in Word
  PROVE  /\ Decode(a, w) \in Decoded
         /\ Decode(a, w).op = Fields(w).op
         /\ Decode(a, w).op \in Ops
         /\ Decode(a, w).word = w
  <1>1. Fields(w) \in Inst
    BY DecodeAssumption
  <1> QED
    BY <1>1 DEF Decode, Decoded, Inst, CachedOps, Sink

LEMMA BlankType ==
  ASSUME NEW a \in Word, NEW op \in CachedOps
  PROVE  Blank(op, a) \in Decoded
  BY DEF Blank, Decoded, Sink, Word

LEMMA ZeroBlockType == ZeroBlock \in Block
  <1>1. 0 \in Word /\ "null" \in CachedOps
    BY DEF Word, CachedOps
  <1> QED
    BY <1>1, BlankType DEF ZeroBlock, Block

LEMMA ZeroBlockFields == ZeroBlock.pc = 0 /\ ZeroBlock.count = 0
  BY DEF ZeroBlock

LEMMA IndexOfZero == IndexOf(0) = 0 /\ IndexOf(RESET_VECTOR) = 0
  BY DEF IndexOf

(* A refill leaves a well-formed block, provided no fetch left pmem.       *)
LEMMA RefillWellFormed ==
  ASSUME TypeOK, MemInWords, NEW pc \in Word, NEW nr \in 1 .. MAX_INST_LENGTH,
         NEW old \in Block, DecodeLoop(pc, nr), AddrAt(pc, nr - 1) \in PMem
  PROVE  /\ Refilled(old, pc, nr) \in Block
         /\ Refilled(old, pc, nr).pc = pc
         /\ Refilled(old, pc, nr).count = nr
         /\ Refilled(old, pc, nr).entry # "null"
         /\ WellFormed(Refilled(old, pc, nr))
  <1> DEFINE b == Refilled(old, pc, nr)
  <1>1. \A k \in 0 .. nr - 1 : AddrAt(pc, k) \in PMem
    BY DEF DecodeLoop
  <1>2. \A k \in 0 .. nr - 1 :
          /\ DecodedAt(pc, k) \in Decoded
          /\ DecodedAt(pc, k).op \in Ops
          /\ DecodedAt(pc, k).op = Fields(mem[AddrAt(pc, k)]).op
          /\ DecodedAt(pc, k).word = mem[AddrAt(pc, k)]
    BY <1>1, DecodeType, SMTT(30) DEF DecodedAt, TypeOK
  <1>3. Blank("end", AddrAt(pc, MAX_INST_LENGTH)) \in Decoded
    <2>1. AddrAt(pc, MAX_INST_LENGTH) \in Word
      BY DEF AddrAt, Plus, Word
    <2> QED
      BY <2>1, BlankType DEF CachedOps
  <1>4. \A k \in 0 .. MAX_INST_LENGTH : old.insts[k] \in Decoded
    BY DEF Block
  <1>5. b.insts \in [0 .. MAX_INST_LENGTH -> Decoded]
    BY <1>2, <1>3, <1>4 DEF Refilled
  <1>6. b \in Block
    BY <1>2, <1>5, SMTT(30) DEF Refilled, Block, CachedOps
  <1>7. \A k \in 0 .. nr - 1 : b.insts[k] = DecodedAt(pc, k)
    BY DEF Refilled
  <1>8. b.pc = pc /\ b.count = nr /\ b.entry = DecodedAt(pc, 0).op
    BY DEF Refilled
  <1>9. b.entry # "null"
    BY <1>2, <1>8 DEF Ops, AluOps
  <1>10. ~ Terminates(b.insts[nr - 1].op) => FullBlock(b)
    <2> SUFFICES ASSUME ~ Terminates(b.insts[nr - 1].op) PROVE FullBlock(b)
      OBVIOUS
    <2>1. ~ Terminates(Fields(mem[AddrAt(pc, nr - 1)]).op)
      BY <1>2, <1>7
    <2>2. nr = MAX_INST_LENGTH
      BY <2>1 DEF DecodeLoop
    <2>3. b.insts[MAX_INST_LENGTH] = Blank("end", AddrAt(pc, MAX_INST_LENGTH))
      BY <1>7, <2>2 DEF Refilled
    <2> QED
      BY <1>8, <2>2, <2>3 DEF FullBlock, Blank
  <1>11. \A k \in 0 .. nr - 2 : ~ Terminates(b.insts[k].op)
    BY <1>2, <1>7 DEF DecodeLoop
  <1>12. \A k \in 0 .. nr - 1 :
           /\ b.insts[k] = Decode(AddrAt(pc, k), b.insts[k].word)
           /\ b.insts[k].word \in words[AddrAt(pc, k)]
    BY <1>1, <1>2, <1>7 DEF DecodedAt, MemInWords
  <1>13. WellFormed(b)
    BY <1>1, <1>7, <1>8, <1>10, <1>11, <1>12 DEF WellFormed
  <1> QED
    BY <1>6, <1>8, <1>9, <1>13

------------------------------------------------------------------------------
(* Entering a block, on a hit or after a refill.                           *)
LEMMA EnterBlockInv ==
  ASSUME IInv, NEW pc \in Word, EnterBlock(pc), host = "ok", label # "exec",
         label = "idle" => pc = cpu_pc,
         UNCHANGED words
  PROVE  /\ basicblock_cache' \in [0 .. NSets - 1 -> Block]
         /\ basicblock' \in 0 .. NSets - 1
         /\ p' \in 0 .. MAX_INST_LENGTH
         /\ label' \in {"idle", "exec", "dispatch"}
         /\ ahead' \in 0 .. MAX_INST_LENGTH
         /\ host' \in {"ok", "panic"}
         /\ BlocksWellFormed'
         /\ ExecInsideBlock'
         /\ CountExact'
         /\ \/ basicblock_cache'[0] # ZeroBlock
            \/ label' = label /\ basicblock_cache' = basicblock_cache
  <1> DEFINE i == IndexOf(pc)
             c == basicblock_cache
  <1>0. i \in 0 .. NSets - 1 /\ c[i] \in Block
    BY DEF IndexOf, Word, IInv, TypeOK
  <1>1. ahead = 0
    BY DEF IInv, CountExact
  <1>2. ASSUME NEW b \in Block, c' = [c EXCEPT ![i] = b], b.pc = pc,
               WellFormed(b), b.entry # "null", ahead' = ahead + b.count,
               basicblock' = i, p' = 0, label' = "exec",
               host' = IF b.entry = "null" THEN "segv" ELSE "ok",
               c'[0] # ZeroBlock
        PROVE  /\ basicblock_cache' \in [0 .. NSets - 1 -> Block]
               /\ basicblock' \in 0 .. NSets - 1
               /\ p' \in 0 .. MAX_INST_LENGTH
               /\ label' \in {"idle", "exec", "dispatch"}
               /\ ahead' \in 0 .. MAX_INST_LENGTH
               /\ host' \in {"ok", "panic"}
               /\ BlocksWellFormed'
               /\ ExecInsideBlock'
               /\ CountExact'
               /\ basicblock_cache'[0] # ZeroBlock
    <2>1. b.count \in 1 .. MAX_INST_LENGTH
      BY <1>2 DEF WellFormed
    <2>2. c' \in [0 .. NSets - 1 -> Block] /\ c'[i] = b
      BY <1>0, <1>2 DEF IInv, TypeOK
    <2>3. WellFormed(b)'
      BY <1>2 DEF WellFormed, FullBlock
    <2>4. BlocksWellFormed'
      <3> SUFFICES ASSUME NEW j \in 0 .. NSets - 1
                   PROVE  \/ c'[j] = ZeroBlock
                          \/ IndexOf(c'[j].pc) = j /\ WellFormed(c[j])'
        BY DEF BlocksWellFormed
      <3>1. CASE j = i
        <4>1. c'[j] = b
          BY <2>2, <3>1
        <4>2. WellFormed(c[j])'
          BY <2>3, <4>1 DEF WellFormed, FullBlock
        <4> QED
          BY <1>2, <3>1, <4>1, <4>2
      <3>2. CASE j # i
        <4>1. c'[j] = c[j]
          BY <1>0, <1>2, <3>2 DEF IInv, TypeOK
        <4>2. c[j] = ZeroBlock \/ (IndexOf(c[j].pc) = j /\ WellFormed(c[j]))
          BY DEF IInv, BlocksWellFormed
        <4>3. WellFormed(c[j]) => WellFormed(c[j])'
          BY <4>1 DEF WellFormed, FullBlock
        <4> QED
          BY <4>1, <4>2, <4>3
      <3> QED
        BY <3>1, <3>2
    <2>5. ExecInsideBlock'
      <3>1. b # ZeroBlock
        BY <2>1 DEF ZeroBlock
      <3> QED
        BY <1>2, <2>1, <2>2, <3>1 DEF ExecInsideBlock
    <2>6. CountExact'
      BY <1>1, <1>2, <2>1, <2>2 DEF CountExact
    <2> QED
      BY <1>0, <1>1, <1>2, <2>1, <2>2, <2>4, <2>5, <2>6
  <1>3. CASE IsHitCache(pc)
    <2>1. c[i].pc = pc /\ UNCHANGED basicblock_cache
      BY <1>3 DEF EnterBlock, IsHitCache
    <2>2. c[i] # ZeroBlock
      <3> SUFFICES ASSUME c[i] = ZeroBlock PROVE FALSE
        OBVIOUS
      <3>1. pc = 0
        BY <2>1, ZeroBlockFields
      <3>2. i = 0
        BY <3>1, IndexOfZero
      <3>3. label = "idle" /\ pc = RESET_VECTOR
        BY <3>2 DEF IInv, ResetSet
      <3> QED
        BY <3>1, <3>3
    <2>3. WellFormed(c[i])
      BY <1>0, <2>2 DEF IInv, BlocksWellFormed
    <2>4. c[i].entry # "null"
      <3>1. /\ 0 \in 0 .. c[i].count - 1 /\ c[i].entry = c[i].insts[0].op
            /\ c[i].insts[0] = Decode(AddrAt(pc, 0), c[i].insts[0].word)
            /\ AddrAt(pc, 0) \in PMem
        BY <2>1, <2>3 DEF WellFormed
      <3>2. c[i].insts[0].word \in Word
        <4>1. c[i].insts[0] \in Decoded
          BY <1>0 DEF Block
        <4> QED
          BY <4>1 DEF Decoded
      <3>3. c[i].entry \in Ops
        BY <3>1, <3>2, DecodeType
      <3> QED
        BY <3>3 DEF Ops, AluOps
    <2>5. c[0] # ZeroBlock
      <3> SUFFICES ASSUME c[0] = ZeroBlock PROVE FALSE
        OBVIOUS
      <3>1. pc = RESET_VECTOR
        BY DEF IInv, ResetSet
      <3>2. i = 0
        BY <3>1 DEF IndexOf
      <3> QED
        BY <2>2, <3>2
    <2>6. c' = [c EXCEPT ![i] = c[i]]
      BY <1>0, <2>1 DEF IInv, TypeOK
    <2> QED
      BY <1>0, <1>2, <1>3, <2>1, <2>3, <2>4, <2>5, <2>6 DEF EnterBlock
  <1>4. CASE ~ IsHitCache(pc)
    <2>1. PICK nr \in 1 .. MAX_INST_LENGTH :
            /\ DecodeLoop(pc, nr)
            /\ IF AddrAt(pc, nr - 1) \in PMem
                 THEN LET b == Refilled(c[i], pc, nr) IN
                      /\ c' = [c EXCEPT ![i] = b]
                      /\ ahead' = ahead + b.count
                      /\ basicblock' = i
                      /\ p' = 0
                      /\ label' = "exec"
                      /\ host' = IF b.entry = "null" THEN "segv" ELSE "ok"
                 ELSE /\ host' = "panic"
                      /\ UNCHANGED <<basicblock_cache, basicblock, p, label, ahead>>
      BY <1>4 DEF EnterBlock
    <2>2. CASE AddrAt(pc, nr - 1) \in PMem
      <3> DEFINE b == Refilled(c[i], pc, nr)
      <3>1. b \in Block /\ b.pc = pc /\ WellFormed(b) /\ b.entry # "null"
        BY <1>0, <2>1, <2>2, RefillWellFormed DEF IInv
      <3>2. b # ZeroBlock
        BY <3>1, ZeroBlockFields DEF WellFormed
      <3>3. c'[0] # ZeroBlock
        <4>1. CASE i = 0
          BY <2>1, <2>2, <3>2, <4>1, <1>0 DEF IInv, TypeOK
        <4>2. CASE i # 0
          <5>1. c'[0] = c[0]
            BY <2>1, <2>2, <4>2, <1>0 DEF IInv, TypeOK
          <5>2. pc # RESET_VECTOR
            BY <4>2 DEF IndexOf
          <5> QED
            BY <5>1, <5>2 DEF IInv, ResetSet
        <4> QED
          BY <4>1, <4>2
      <3> HIDE DEF b
      <3> QED
        BY <1>2, <2>1, <2>2, <3>1, <3>3 DEF b
    <2>3. CASE AddrAt(pc, nr - 1) \notin PMem
      <3>1. /\ host' = "panic"
            /\ UNCHANGED <<basicblock_cache, basicblock, p, label, ahead>>
        BY <2>1, <2>3
      <3>2. BlocksWellFormed'
        BY <3>1 DEF IInv, BlocksWellFormed, WellFormed, FullBlock
      <3> QED
        BY <3>1, <3>2 DEF IInv, TypeOK, ExecInsideBlock, CountExact
    <2> QED
      BY <2>2, <2>3
  <1> QED
    BY <1>3, <1>4

------------------------------------------------------------------------------
(* The instruction a handler executes.                                     *)
LEMMA CurType ==
  ASSUME IInv, label = "exec", host = "ok"
  PROVE  /\ Cur.op \in CachedOps /\ Cur.pc \in Word
         /\ Cur.rd \in 1 .. Sink
         /\ Cur.rs1 \in 0 .. NReg - 1 /\ Cur.rs2 \in 0 .. NReg - 1
         /\ Cur.imm \in Word /\ Cur.word \in Word
         /\ gpr[Cur.rs1] \in Word /\ gpr[Cur.rs2] \in Word
  <1>1. basicblock_cache[basicblock] \in Block /\ p \in 0 .. MAX_INST_LENGTH
    BY DEF IInv, TypeOK
  <1>2. Cur \in Decoded
    BY <1>1 DEF Cur, Block
  <1>3. /\ Cur.op \in CachedOps /\ Cur.pc \in Word
        /\ Cur.rd \in 1 .. Sink
        /\ Cur.rs1 \in 0 .. NReg - 1 /\ Cur.rs2 \in 0 .. NReg - 1
        /\ Cur.imm \in Word /\ Cur.word \in Word
    BY <1>2 DEF Decoded
  <1>4. gpr \in [0 .. Sink -> Word]
    BY DEF IInv, TypeOK
  <1>5. gpr[Cur.rs1] \in Word /\ gpr[Cur.rs2] \in Word
    BY <1>3, <1>4 DEF Sink
  <1> QED
    BY <1>3, <1>5

(* A register write keeps the file typed and leaves x0 alone.              *)
LEMMA SetRType ==
  ASSUME IInv, NEW rd \in 1 .. Sink, NEW v \in Word, SetR(rd, v)
  PROVE  /\ gpr' \in [0 .. Sink -> Word]
         /\ gpr'[0] = gpr[0]
         /\ host' \in {"ok", "assert"}
  BY DEF SetR, IInv, TypeOK, Sink

(* The part of DataOK that holds when the handler leaves it alone.         *)
LEMMA DataUnchanged ==
  ASSUME IInv
  PROVE  /\ UNCHANGED gpr => gpr' \in [0 .. Sink -> Word] /\ gpr'[0] = gpr[0]
         /\ UNCHANGED csr => csr' \in [CSRs -> Word]
         /\ UNCHANGED mem_vars =>
              /\ mem' \in [PMem -> Word]
              /\ words' \in [PMem -> SUBSET Word]
              /\ \A a \in PMem : words[a] \subseteq words'[a] /\ mem'[a] \in words'[a]
         /\ UNCHANGED nemu_state => nemu_state' \in NemuState
  BY DEF IInv, TypeOK, mem_vars, MemInWords

------------------------------------------------------------------------------
(* Each handler makes one of the three moves and keeps its data typed.     *)
LEMMA OpAluMove ==
  ASSUME IInv, OpAlu
  PROVE  Advance /\ DataOK
  <1>1. label = "exec" /\ host = "ok" /\ Cur.op = "alu"
    BY DEF OpAlu, At
  <1>2. Alu(Fields(Cur.word), Cur.pc, gpr[Cur.rs1], gpr[Cur.rs2]) \in Word
    BY <1>1, CurType, SemanticsAssumption
  <1>3. /\ gpr' \in [0 .. Sink -> Word] /\ gpr'[0] = gpr[0]
        /\ host' \in {"ok", "assert"}
    BY <1>1, <1>2, CurType, SetRType DEF OpAlu
  <1>4. UNCHANGED <<csr, mem_vars, nemu_state>> /\ DISPATCH
    BY DEF OpAlu
  <1> QED
    BY <1>1, <1>3, <1>4, DataUnchanged DEF DataOK, Advance, Straight

LEMMA OpLoadMove ==
  ASSUME IInv, OpLoad
  PROVE  (Advance \/ Dead) /\ DataOK
  <1> DEFINE a == Plus(gpr[Cur.rs1], Cur.imm)
  <1>1. label = "exec" /\ host = "ok" /\ Cur.op = "load"
    BY DEF OpLoad, At
  <1>2. UNCHANGED <<csr, mem_vars, nemu_state>>
    BY DEF OpLoad
  <1>3. CASE a \in PMem
    <2>1. mem[a] \in Word
      BY <1>3 DEF IInv, TypeOK
    <2>2. SetR(Cur.rd, mem[a]) /\ DISPATCH
      BY <1>3 DEF OpLoad
    <2>3. /\ gpr' \in [0 .. Sink -> Word] /\ gpr'[0] = gpr[0]
          /\ host' \in {"ok", "assert"}
      BY <1>1, <2>1, <2>2, CurType, SetRType
    <2> QED
      BY <1>1, <1>2, <2>2, <2>3, DataUnchanged DEF DataOK, Advance, Straight
  <1>4. CASE a \notin PMem
    <2>1. Die /\ UNCHANGED gpr
      BY <1>4 DEF OpLoad
    <2> QED
      BY <1>2, <2>1, DataUnchanged DEF DataOK, Dead, Die
  <1> QED
    BY <1>3, <1>4

LEMMA OpStoreMove ==
  ASSUME IInv, OpStore
  PROVE  (Advance \/ Dead) /\ DataOK
  <1> DEFINE a == Plus(gpr[Cur.rs1], Cur.imm)
             v == gpr[Cur.rs2]
  <1>1. label = "exec" /\ host = "ok" /\ Cur.op = "store"
    BY DEF OpStore, At
  <1>2. UNCHANGED <<gpr, csr, nemu_state>>
    BY DEF OpStore, cpu_vars
  <1>3. CASE a \in PMem
    <2>1. v \in Word
      BY <1>1, CurType
    <2>2. /\ mem' = [mem EXCEPT ![a] = v]
          /\ words' = [words EXCEPT ![a] = @ \union {v}]
          /\ DISPATCH
          /\ UNCHANGED host
      BY <1>3 DEF OpStore
    <2>3. /\ mem' \in [PMem -> Word]
          /\ words' \in [PMem -> SUBSET Word]
          /\ \A x \in PMem : words[x] \subseteq words'[x] /\ mem'[x] \in words'[x]
      BY <1>3, <2>1, <2>2 DEF IInv, TypeOK, MemInWords
    <2> QED
      BY <1>1, <1>2, <2>2, <2>3, DataUnchanged DEF DataOK, Advance, Straight
  <1>4. CASE a \notin PMem
    <2>1. Die /\ UNCHANGED mem_vars
      BY <1>4 DEF OpStore
    <2> QED
      BY <1>2, <2>1, DataUnchanged DEF DataOK, Dead, Die
  <1> QED
    BY <1>3, <1>4

(* A handler that ends in goto block_dispatch leaves the block, if its     *)
(* opcode is one that terminates blocks.                                   *)
LEMMA GotoLeaves ==
  ASSUME host = "ok", label = "exec", Terminates(Cur.op),
         NEW target \in Word, GotoDispatch(target)
  PROVE  Leave
  BY DEF GotoDispatch, Leave

LEMMA OpJalMove ==
  ASSUME IInv, OpJal
  PROVE  Leave /\ DataOK
  <1>1. label = "exec" /\ host = "ok" /\ Cur.op = "jal"
    BY DEF OpJal, At
  <1>2. Plus(Cur.pc, 1) \in Word /\ Plus(Cur.pc, Cur.imm) \in Word
    BY <1>1, CurType, WordPlus
  <1>3. /\ gpr' \in [0 .. Sink -> Word] /\ gpr'[0] = gpr[0]
        /\ host' \in {"ok", "assert"}
    BY <1>1, <1>2, CurType, SetRType DEF OpJal
  <1>4. Leave
    BY <1>1, <1>2, GotoLeaves DEF OpJal, Terminates
  <1>5. UNCHANGED <<csr, mem_vars, nemu_state>>
    BY DEF OpJal
  <1> QED
    BY <1>3, <1>4, <1>5, DataUnchanged DEF DataOK

LEMMA OpJalrMove ==
  ASSUME IInv, OpJalr
  PROVE  Leave /\ DataOK
  <1>1. label = "exec" /\ host = "ok" /\ Cur.op = "jalr"
    BY DEF OpJalr, At
  <1>2. Plus(Cur.pc, 1) \in Word /\ Plus(gpr[Cur.rs1], Cur.imm) \in Word
    BY <1>1, CurType, WordPlus
  <1>3. /\ gpr' \in [0 .. Sink -> Word] /\ gpr'[0] = gpr[0]
        /\ host' \in {"ok", "assert"}
    BY <1>1, <1>2, CurType, SetRType DEF OpJalr
  <1>4. Leave
    BY <1>1, <1>2, GotoLeaves DEF OpJalr, Terminates
  <1>5. UNCHANGED <<csr, mem_vars, nemu_state>>
    BY DEF OpJalr
  <1> QED
    BY <1>3, <1>4, <1>5, DataUnchanged DEF DataOK

LEMMA OpBranchMove ==
  ASSUME IInv, OpBranch
  PROVE  Leave /\ DataOK
  <1>1. label = "exec" /\ host = "ok" /\ Cur.op = "branch"
    BY DEF OpBranch, At
  <1>2. Plus(Cur.pc, 1) \in Word /\ Plus(Cur.pc, Cur.imm) \in Word
    BY <1>1, CurType, WordPlus
  <1>3. Leave
    BY <1>1, <1>2, GotoLeaves DEF OpBranch, Terminates
  <1>4. UNCHANGED <<cpu_vars, mem_vars, nemu_state, host>>
    BY DEF OpBranch
  <1> QED
    BY <1>1, <1>3, <1>4, DataUnchanged DEF DataOK, cpu_vars
LEMMA OpCsrMove ==
  ASSUME IInv, OpCsr
  PROVE  (Advance \/ Dead) /\ DataOK
  <1>1. label = "exec" /\ host = "ok" /\ Cur.op = "csr"
    BY DEF OpCsr, At
  <1>2. UNCHANGED <<mem_vars, nemu_state>>
    BY DEF OpCsr
  <1>3. csr \in [CSRs -> Word]
    BY DEF IInv, TypeOK
  <1>4. CASE Cur.csr \in CSRs
    <2>1. csr[Cur.csr] \in Word
      BY <1>3, <1>4
    <2>2. CsrOp(Fields(Cur.word), csr[Cur.csr], gpr[Cur.rs1]) \in Word
      BY <1>1, <2>1, CurType, SemanticsAssumption
    <2>3. /\ SetR(Cur.rd, csr[Cur.csr])
          /\ csr' = [csr EXCEPT ![Cur.csr] =
                       CsrOp(Fields(Cur.word), csr[Cur.csr], gpr[Cur.rs1])]
          /\ DISPATCH
      BY <1>4 DEF OpCsr
    <2>4. csr' \in [CSRs -> Word]
      BY <1>3, <1>4, <2>2, <2>3
    <2>5. /\ gpr' \in [0 .. Sink -> Word] /\ gpr'[0] = gpr[0]
          /\ host' \in {"ok", "assert"}
      BY <1>1, <2>1, <2>3, CurType, SetRType
    <2> QED
      BY <1>1, <1>2, <2>3, <2>4, <2>5, DataUnchanged DEF DataOK, Advance,
         Straight
  <1>5. CASE Cur.csr \notin CSRs
    <2>1. Die /\ UNCHANGED <<gpr, csr>>
      BY <1>5 DEF OpCsr, cpu_vars
    <2> QED
      BY <1>2, <2>1, DataUnchanged DEF DataOK, Dead, Die
  <1> QED
    BY <1>4, <1>5

LEMMA OpEcallMove ==
  ASSUME IInv, OpEcall
  PROVE  Leave /\ DataOK
  <1>1. label = "exec" /\ host = "ok" /\ Cur.op = "ecall"
    BY DEF OpEcall, At
  <1>2. csr \in [CSRs -> Word] /\ csr["mtvec"] \in Word
    BY DEF IInv, TypeOK
  <1>3. Cur.pc \in Word
    BY <1>1, CurType
  <1>4. csr' \in [CSRs -> Word]
    BY <1>2, <1>3 DEF OpEcall
  <1>5. Leave
    BY <1>1, <1>2, GotoLeaves DEF OpEcall, Terminates
  <1>6. UNCHANGED <<gpr, mem_vars, nemu_state, host>>
    BY DEF OpEcall
  <1> QED
    BY <1>1, <1>4, <1>5, <1>6, DataUnchanged DEF DataOK

LEMMA OpMretMove ==
  ASSUME IInv, OpMret
  PROVE  Leave /\ DataOK
  <1>1. label = "exec" /\ host = "ok" /\ Cur.op = "mret"
    BY DEF OpMret, At
  <1>2. csr["mepc"] \in Word
    BY DEF IInv, TypeOK
  <1>3. Leave
    BY <1>1, <1>2, GotoLeaves DEF OpMret, Terminates
  <1>4. UNCHANGED <<cpu_vars, mem_vars, nemu_state, host>>
    BY DEF OpMret
  <1> QED
    BY <1>1, <1>3, <1>4, DataUnchanged DEF DataOK, cpu_vars

LEMMA OpEbreakMove ==
  ASSUME IInv, OpEbreak
  PROVE  Leave /\ DataOK
  <1>1. label = "exec" /\ host = "ok" /\ Cur.op = "ebreak"
    BY DEF OpEbreak, At
  <1>2. Cur.pc \in Word /\ Plus(Cur.pc, 1) \in Word
    BY <1>1, CurType, WordPlus
  <1>3. Leave
    BY <1>1, <1>2, GotoLeaves DEF OpEbreak, Terminates
  <1>4. gpr[A0] \in Word
    BY DEF IInv, TypeOK, Sink
  <1>5. nemu_state' \in NemuState
    BY <1>2, <1>4 DEF OpEbreak, Halt, NemuState, NemuStates
  <1>6. UNCHANGED <<cpu_vars, mem_vars, host>>
    BY DEF OpEbreak
  <1> QED
    BY <1>1, <1>3, <1>5, <1>6, DataUnchanged DEF DataOK, cpu_vars

LEMMA OpInvalidMove ==
  ASSUME IInv, OpInvalid
  PROVE  (Advance \/ Dead) /\ DataOK
  <1>1. label = "exec" /\ host = "ok" /\ Cur.op = "invalid"
    BY DEF OpInvalid, At
  <1>2. UNCHANGED <<cpu_vars, mem_vars>>
    BY DEF OpInvalid
  <1>3. CASE Plus(Cur.pc, 1) \in PMem
    <2>1. nemu_state' = Halt("ABORT", Cur.pc, -1) /\ DISPATCH /\ UNCHANGED host
      BY <1>3 DEF OpInvalid
    <2>2. Cur.pc \in Word
      BY <1>1, CurType
    <2>3. nemu_state' \in NemuState
      BY <2>1, <2>2 DEF Halt, NemuState, NemuStates
    <2> QED
      BY <1>1, <1>2, <2>1, <2>3, DataUnchanged DEF DataOK, Advance, Straight,
         cpu_vars
  <1>4. CASE Plus(Cur.pc, 1) \notin PMem
    <2>1. Die /\ UNCHANGED nemu_state
      BY <1>4 DEF OpInvalid
    <2> QED
      BY <1>2, <2>1, DataUnchanged DEF DataOK, Dead, Die, cpu_vars
  <1> QED
    BY <1>3, <1>4

LEMMA OpEndMove ==
  ASSUME IInv, OpEnd
  PROVE  Leave /\ DataOK
  <1>1. label = "exec" /\ host = "ok" /\ Cur.op = "end"
    BY DEF OpEnd, At
  <1>2. Cur.pc \in Word
    BY <1>1, CurType
  <1>3. Leave
    BY <1>1, <1>2 DEF OpEnd, Leave, block_vars
  <1>4. UNCHANGED <<cpu_vars, mem_vars, nemu_state, host>>
    BY DEF OpEnd
  <1> QED
    BY <1>1, <1>3, <1>4, DataUnchanged DEF DataOK, cpu_vars
LEMMA HandlerMoves ==
  ASSUME IInv,
         \/ OpAlu \/ OpLoad \/ OpStore \/ OpJal \/ OpJalr \/ OpBranch \/ OpCsr
         \/ OpEcall \/ OpMret \/ OpEbreak \/ OpInvalid \/ OpEnd
  PROVE  /\ DataOK
         /\ Advance \/ Leave \/ Dead
         /\ host = "ok" /\ label = "exec"
  <1>1. host = "ok" /\ label = "exec"
    BY DEF At, OpAlu, OpLoad, OpStore, OpJal, OpJalr, OpBranch, OpCsr,
       OpEcall, OpMret, OpEbreak, OpInvalid, OpEnd
  <1> QED
    BY <1>1, OpAluMove, OpLoadMove, OpStoreMove, OpJalMove, OpJalrMove,
       OpBranchMove, OpCsrMove, OpEcallMove, OpMretMove, OpEbreakMove,
       OpInvalidMove, OpEndMove

------------------------------------------------------------------------------
(* What the moves preserve.  No move writes the cache, and the words an    *)
(* address has held only grow, so the blocks stay well formed.             *)
LEMMA BlocksKept ==
  ASSUME IInv, DataOK, UNCHANGED basicblock_cache
  PROVE  BlocksWellFormed'
  <1> SUFFICES ASSUME NEW i \in 0 .. NSets - 1
               PROVE  LET b == basicblock_cache[i] IN
                      \/ b = ZeroBlock
                      \/ IndexOf(b.pc) = i /\ WellFormed(b)'
    BY DEF BlocksWellFormed
  <1> DEFINE b == basicblock_cache[i]
  <1>1. b = ZeroBlock \/ (IndexOf(b.pc) = i /\ WellFormed(b))
    BY DEF IInv, BlocksWellFormed
  <1>2. WellFormed(b) => WellFormed(b)'
    BY DEF WellFormed, FullBlock, DataOK
  <1> QED
    BY <1>1, <1>2

(* The block a handler runs in: where p is, and how it may go on.          *)
LEMMA ExecBlock ==
  ASSUME IInv, host = "ok", label = "exec"
  PROVE  LET b == basicblock_cache[basicblock] IN
         /\ b # ZeroBlock
         /\ b.count \in 1 .. MAX_INST_LENGTH
         /\ \/ p < b.count /\ Cur.op \in Ops
            \/ p = b.count /\ Cur.op = "end"
         /\ Cur.op \in Ops /\ ~ Terminates(Cur.op) =>
              \/ p + 1 < b.count
              \/ p + 1 = b.count /\ b.count = MAX_INST_LENGTH /\ b.insts[p + 1].op = "end"
         /\ Cur.op \in Ops /\ Terminates(Cur.op) => p + 1 = b.count
  <1> DEFINE b == basicblock_cache[basicblock]
  <1>1. basicblock \in 0 .. NSets - 1 /\ p \in 0 .. MAX_INST_LENGTH /\ b \in Block
    BY DEF IInv, TypeOK
  <1>2. b # ZeroBlock /\ (p < b.count \/ (p = b.count /\ b.insts[p].op = "end"))
    BY DEF IInv, ExecInsideBlock
  <1>3. WellFormed(b)
    BY <1>1, <1>2 DEF IInv, BlocksWellFormed
  <1>4. b.count \in 1 .. MAX_INST_LENGTH
    BY <1>3 DEF WellFormed
  <1>5. ASSUME p < b.count PROVE Cur.op \in Ops
    <2>1. Cur = Decode(AddrAt(b.pc, p), Cur.word) /\ AddrAt(b.pc, p) \in PMem
      BY <1>1, <1>3, <1>4, <1>5 DEF WellFormed, Cur
    <2>2. Cur.word \in Word
      BY CurType
    <2> QED
      BY <2>1, <2>2, DecodeType
  <1>6. "end" \notin Ops
    BY DEF Ops, AluOps
  <1>7. ASSUME Cur.op \in Ops PROVE p < b.count
    BY <1>2, <1>6, <1>7 DEF Cur
  <1>8. ASSUME Cur.op \in Ops, ~ Terminates(Cur.op)
        PROVE  \/ p + 1 < b.count
               \/ p + 1 = b.count /\ b.count = MAX_INST_LENGTH /\ b.insts[p + 1].op = "end"
    <2> SUFFICES ASSUME p + 1 = b.count
                 PROVE  b.count = MAX_INST_LENGTH /\ b.insts[p + 1].op = "end"
      BY <1>1, <1>4, <1>7, <1>8
    <2>1. b.count - 1 = p
      BY <1>1, <1>4
    <2>2. FullBlock(b)
      BY <1>3, <1>8, <2>1 DEF WellFormed, Cur
    <2> QED
      BY <2>2 DEF FullBlock
  <1>9. ASSUME Cur.op \in Ops, Terminates(Cur.op) PROVE p + 1 = b.count
    <2> SUFFICES ASSUME p < b.count - 1 PROVE FALSE
      BY <1>1, <1>4, <1>7, <1>9
    <2> QED
      BY <1>1, <1>3, <1>4, <1>9 DEF WellFormed, Cur
  <1> QED
    BY <1>2, <1>4, <1>5, <1>8, <1>9 DEF Cur

LEMMA AdvanceInv ==
  ASSUME IInv, DataOK, Advance
  PROVE  IInv'
  <1> DEFINE b == basicblock_cache[basicblock]
  <1>1. host = "ok" /\ label = "exec" /\ Cur.op \in Straight
    BY DEF Advance
  <1>2. /\ p' = p + 1 /\ ahead' = ahead - 1
        /\ UNCHANGED <<cpu_pc, basicblock_cache, basicblock, next_pc, label>>
    BY DEF Advance, DISPATCH
  <1>3. Cur.op \in Ops /\ ~ Terminates(Cur.op)
    BY <1>1 DEF Straight, Ops, AluOps, Terminates
  <1>4. /\ b # ZeroBlock
        /\ b.count \in 1 .. MAX_INST_LENGTH
        /\ \/ p + 1 < b.count
           \/ p + 1 = b.count /\ b.count = MAX_INST_LENGTH /\ b.insts[p + 1].op = "end"
    BY <1>1, <1>3, ExecBlock
  <1>5. p \in 0 .. MAX_INST_LENGTH /\ ahead = b.count - p
    BY <1>1 DEF IInv, TypeOK, CountExact
  <1>6. TypeOK'
    <2>1. p' \in 0 .. MAX_INST_LENGTH /\ ahead' \in 0 .. MAX_INST_LENGTH
      <3> HIDE DEF b
      <3> QED
        BY <1>2, <1>4, <1>5
    <2> QED
      BY <1>2, <2>1 DEF IInv, TypeOK, DataOK
  <1>7. BlocksWellFormed'
    BY <1>2, BlocksKept
  <1>8. ExecInsideBlock'
    BY <1>2, <1>4 DEF ExecInsideBlock
  <1>9. CountExact'
    BY <1>1, <1>2, <1>4, <1>5 DEF CountExact
  <1>10. X0IsZero' /\ NoNullEntry' /\ MemInWords'
    BY DEF IInv, DataOK, X0IsZero, NoNullEntry, MemInWords
  <1>11. ResetSet'
    BY <1>1, <1>2 DEF IInv, ResetSet
  <1> QED
    BY <1>6, <1>7, <1>8, <1>9, <1>10, <1>11 DEF IInv

LEMMA LeaveInv ==
  ASSUME IInv, DataOK, Leave
  PROVE  IInv'
  <1> DEFINE b == basicblock_cache[basicblock]
  <1>1. host = "ok" /\ label = "exec"
    BY DEF Leave
  <1>2. /\ label' = "dispatch" /\ next_pc' \in Word
        /\ UNCHANGED <<cpu_pc, basicblock_cache, basicblock, p>>
    BY DEF Leave
  <1>3. /\ b.count \in 1 .. MAX_INST_LENGTH
        /\ \/ p < b.count /\ Cur.op \in Ops
           \/ p = b.count /\ Cur.op = "end"
        /\ Cur.op \in Ops /\ Terminates(Cur.op) => p + 1 = b.count
    BY <1>1, ExecBlock
  <1>4. p \in 0 .. MAX_INST_LENGTH /\ ahead = b.count - p
    BY <1>1 DEF IInv, TypeOK, CountExact
  <1>5. ahead' = 0
    <2>1. CASE Terminates(Cur.op) /\ ahead' = ahead - 1
      <3>1. Cur.op \in Ops
        BY <2>1 DEF Terminates, Ops
      <3> QED
        BY <1>3, <1>4, <2>1, <3>1
    <2>2. CASE Cur.op = "end" /\ ahead' = ahead
      <3>1. "end" \notin Ops
        BY DEF Ops, AluOps
      <3> QED
        BY <1>3, <1>4, <2>2, <3>1
    <2> QED
      BY <2>1, <2>2 DEF Leave
  <1>6. TypeOK'
    BY <1>2, <1>4, <1>5 DEF IInv, TypeOK, DataOK
  <1>7. BlocksWellFormed'
    BY <1>2, BlocksKept
  <1>8. ExecInsideBlock' /\ CountExact'
    BY <1>2, <1>5 DEF ExecInsideBlock, CountExact
  <1>9. X0IsZero' /\ NoNullEntry' /\ MemInWords'
    BY DEF IInv, DataOK, X0IsZero, NoNullEntry, MemInWords
  <1>10. ResetSet'
    BY <1>1, <1>2 DEF IInv, ResetSet
  <1> QED
    BY <1>6, <1>7, <1>8, <1>9, <1>10 DEF IInv

LEMMA DeadInv ==
  ASSUME IInv, DataOK, Dead
  PROVE  IInv'
  <1>1. /\ host' = "panic"
        /\ UNCHANGED <<cpu_pc, basicblock_cache, basicblock, ahead, p, next_pc, label>>
    BY DEF Dead, Die, block_vars
  <1>2. TypeOK'
    BY <1>1 DEF IInv, TypeOK, DataOK
  <1>3. BlocksWellFormed'
    BY <1>1, BlocksKept
  <1>4. ExecInsideBlock' /\ CountExact'
    BY <1>1 DEF ExecInsideBlock, CountExact
  <1>5. X0IsZero' /\ NoNullEntry' /\ MemInWords' /\ ResetSet'
    BY <1>1 DEF IInv, DataOK, X0IsZero, NoNullEntry, MemInWords, ResetSet
  <1> QED
    BY <1>2, <1>3, <1>4, <1>5 DEF IInv

LEMMA ExecOnceInv ==
  ASSUME IInv, ExecOnce
  PROVE  IInv'
  <1>1. /\ host = "ok" /\ label = "idle" /\ EnterBlock(cpu_pc)
        /\ UNCHANGED <<gpr, csr, cpu_pc, mem, words, next_pc, nemu_state>>
    BY DEF ExecOnce, cpu_vars, mem_vars
  <1>2. cpu_pc \in Word
    BY DEF IInv, TypeOK
  <1>3. /\ basicblock_cache' \in [0 .. NSets - 1 -> Block]
        /\ basicblock' \in 0 .. NSets - 1
        /\ p' \in 0 .. MAX_INST_LENGTH
        /\ label' \in {"idle", "exec", "dispatch"}
        /\ ahead' \in 0 .. MAX_INST_LENGTH
        /\ host' \in {"ok", "panic"}
        /\ BlocksWellFormed' /\ ExecInsideBlock' /\ CountExact'
        /\ \/ basicblock_cache'[0] # ZeroBlock
           \/ label' = label /\ basicblock_cache' = basicblock_cache
    BY <1>1, <1>2, EnterBlockInv
  <1>4. TypeOK'
    BY <1>1, <1>3 DEF IInv, TypeOK
  <1>5. X0IsZero' /\ NoNullEntry' /\ MemInWords'
    BY <1>1, <1>3 DEF IInv, X0IsZero, NoNullEntry, MemInWords
  <1>6. ResetSet'
    BY <1>1, <1>3 DEF IInv, ResetSet
  <1> QED
    BY <1>3, <1>4, <1>5, <1>6 DEF IInv

LEMMA BlockDispatchInv ==
  ASSUME IInv, BlockDispatch
  PROVE  IInv'
  <1>1. /\ host = "ok" /\ label = "dispatch" /\ cpu_pc' = next_pc
        /\ UNCHANGED <<gpr, csr, mem, words, next_pc, nemu_state>>
    BY DEF BlockDispatch, cpu_vars, mem_vars
  <1>2. next_pc \in Word
    BY DEF IInv, TypeOK
  <1>3. basicblock_cache[0] # ZeroBlock
    BY <1>1 DEF IInv, ResetSet
  <1>4. CASE nemu_state.state = "RUNNING"
    <2>1. EnterBlock(next_pc)
      BY <1>4 DEF BlockDispatch
    <2>2. /\ basicblock_cache' \in [0 .. NSets - 1 -> Block]
          /\ basicblock' \in 0 .. NSets - 1
          /\ p' \in 0 .. MAX_INST_LENGTH
          /\ label' \in {"idle", "exec", "dispatch"}
          /\ ahead' \in 0 .. MAX_INST_LENGTH
          /\ host' \in {"ok", "panic"}
          /\ BlocksWellFormed' /\ ExecInsideBlock' /\ CountExact'
          /\ \/ basicblock_cache'[0] # ZeroBlock
             \/ label' = label /\ basicblock_cache' = basicblock_cache
      BY <1>1, <1>2, <2>1, EnterBlockInv
    <2>3. TypeOK'
      BY <1>1, <2>2 DEF IInv, TypeOK
    <2>4. X0IsZero' /\ NoNullEntry' /\ MemInWords'
      BY <1>1, <2>2 DEF IInv, X0IsZero, NoNullEntry, MemInWords
    <2>5. ResetSet'
      BY <1>3, <2>2 DEF ResetSet
    <2> QED
      BY <2>2, <2>3, <2>4, <2>5 DEF IInv
  <1>5. CASE nemu_state.state # "RUNNING"
    <2>1. /\ label' = "idle"
          /\ UNCHANGED <<basicblock_cache, basicblock, ahead, p, host>>
      BY <1>5 DEF BlockDispatch, block_vars
    <2>2. TypeOK'
      BY <1>1, <2>1 DEF IInv, TypeOK
    <2>3. BlocksWellFormed'
      BY <1>1, <2>1 DEF IInv, BlocksWellFormed, WellFormed, FullBlock
    <2>4. ExecInsideBlock' /\ CountExact'
      BY <1>1, <2>1 DEF IInv, ExecInsideBlock, CountExact
    <2>5. X0IsZero' /\ NoNullEntry' /\ MemInWords' /\ ResetSet'
      BY <1>1, <1>3, <2>1 DEF IInv, X0IsZero, NoNullEntry, MemInWords,
         ResetSet
    <2> QED
      BY <2>2, <2>3, <2>4, <2>5 DEF IInv
  <1> QED
    BY <1>4, <1>5

LEMMA StutterInv ==
  ASSUME IInv, UNCHANGED vars
  PROVE  IInv'
  BY DEF vars, IInv, TypeOK, BlocksWellFormed, WellFormed, FullBlock,
     ExecInsideBlock, CountExact, X0IsZero, NoNullEntry, MemInWords, ResetSet

LEMMA InitInv == Init => IInv
  <1> SUFFICES ASSUME Init PROVE IInv
    OBVIOUS
  <1>1. TypeOK
    BY ZeroBlockType
    DEF Init, Restart, TypeOK, Word, Sink, ResetCsr, Halt, NemuState, NemuStates
  <1>2. BlocksWellFormed
    BY DEF Init, Restart, BlocksWellFormed
  <1>3. ExecInsideBlock /\ CountExact
    BY DEF Init, Restart, ExecInsideBlock, CountExact
  <1>4. X0IsZero /\ NoNullEntry
    BY DEF Init, Restart, X0IsZero, NoNullEntry, Sink
  <1>5. MemInWords /\ ResetSet
    BY DEF Init, Restart, MemInWords, ResetSet
  <1> QED
    BY <1>1, <1>2, <1>3, <1>4, <1>5 DEF IInv

LEMMA NextInv == IInv /\ [Next]_vars => IInv'
  <1> SUFFICES ASSUME IInv, [Next]_vars PROVE IInv'
    OBVIOUS
  <1>1. CASE ExecOnce
    BY <1>1, ExecOnceInv
  <1>2. CASE BlockDispatch
    BY <1>2, BlockDispatchInv
  <1>3. CASE \/ OpAlu \/ OpLoad \/ OpStore \/ OpJal \/ OpJalr \/ OpBranch \/ OpCsr
             \/ OpEcall \/ OpMret \/ OpEbreak \/ OpInvalid \/ OpEnd
    <2>1. DataOK /\ (Advance \/ Leave \/ Dead)
      BY <1>3, HandlerMoves
    <2> QED
      BY <2>1, AdvanceInv, LeaveInv, DeadInv
  <1>4. CASE UNCHANGED vars
    BY <1>4, StutterInv
  <1> QED
    BY <1>1, <1>2, <1>3, <1>4 DEF Next

(* IInv is an invariant of the interpreter, for every instruction set,     *)
(* memory, cache geometry and block length that meet the assumptions.      *)
THEOREM Inductive == Spec => []IInv
  BY InitInv, NextInv, PTL DEF Spec

(* Every variable keeps its C type: the counter does not go negative, p    *)
(* stays within insts[MAX_INST_LENGTH + 1], register indices in range.     *)
THEOREM TypeCorrect == Spec => []TypeOK
  <1>1. IInv => TypeOK
    BY DEF IInv
  <1> QED
    BY <1>1, Inductive, PTL

(* Whatever the guest stores, every filled cache entry is a basic block    *)
(* decoded from words that were really at its addresses.                   *)
THEOREM BlocksCorrect == Spec => []BlocksWellFormed
  <1>1. IInv => BlocksWellFormed
    BY DEF IInv
  <1> QED
    BY <1>1, Inductive, PTL

(* The unchecked DISPATCH never leaves the decoded part of its block.      *)
THEOREM DispatchStaysInside == Spec => []ExecInsideBlock
  <1>1. IInv => ExecInsideBlock
    BY DEF IInv
  <1> QED
    BY <1>1, Inductive, PTL

(* The instruction counter, charged per block, is exact between blocks.    *)
THEOREM CountCorrect == Spec => []CountExact
  <1>1. IInv => CountExact
    BY DEF IInv
  <1> QED
    BY <1>1, Inductive, PTL

(* No guest jump, not even to address 0, enters a zeroed cache entry.      *)
THEOREM NoNullJump == Spec => []NoNullEntry
  <1>1. IInv => NoNullEntry
    BY DEF IInv
  <1> QED
    BY <1>1, Inductive, PTL

(* The dummy register makes every x0 write harmless.                       *)
THEOREM X0Correct == Spec => []X0IsZero
  <1>1. IInv => X0IsZero
    BY DEF IInv
  <1> QED
    BY <1>1, Inductive, PTL

------------------------------------------------------------------------------
(* The interpreter implements the hart.  Only an invalid instruction lets  *)
(* a block go on after the machine has stopped.                            *)
RunInv == label = "exec" => nemu_state.state \in {"RUNNING", "ABORT"}

TInv == IInv /\ RunInv

LEMMA ModUnique ==
  ASSUME NEW M \in Nat, M > 0, NEW z \in Int, NEW q \in Int, NEW r \in Int,
         0 <= r, r < M, z = M * q + r
  PROVE  z % M = r
<1> DEFINE d == z \div M
           m == z % M
<1>1. d \in Int /\ m \in Int /\ 0 <= m /\ m < M /\ z = M * d + m
  BY SMT
<1> HIDE DEF d, m
<1>2. M * (d - q) = r - m
  BY <1>1, SMT
<1>3. CASE d - q >= 1
  <2>1. M * (d - q) >= M
    BY <1>1, <1>3, SMT
  <2> QED
    BY <1>1, <1>2, <2>1, SMT
<1>4. CASE d - q <= -1
  <2>1. M * (d - q) <= - M
    BY <1>1, <1>4, SMT
  <2> QED
    BY <1>1, <1>2, <2>1, SMT
<1>5. CASE d - q = 0
  BY <1>1, <1>2, <1>5, SMT
<1> QED
  BY <1>1, <1>3, <1>4, <1>5, SMT DEF m

LEMMA ModPlus ==
  ASSUME NEW x \in Int
  PROVE  ((x % WordMod) + 1) % WordMod = (x + 1) % WordMod
<1> DEFINE d == x \div WordMod
           m == x % WordMod
<1>1. WordMod \in Nat /\ WordMod > 0
  BY WordAssumption
<1>2. d \in Int /\ m \in Int /\ 0 <= m /\ m < WordMod /\ x = WordMod * d + m
  BY <1>1, SMT
<1> HIDE DEF d, m
<1>3. CASE m + 1 < WordMod
  <2>1. x + 1 = WordMod * d + (m + 1) /\ m + 1 = WordMod * 0 + (m + 1)
    BY <1>1, <1>2, SMT
  <2>2. (x + 1) % WordMod = m + 1 /\ (m + 1) % WordMod = m + 1
    BY <1>1, <1>2, <1>3, <2>1, ModUnique
  <2> QED
    BY <2>2 DEF m
<1>4. CASE m + 1 = WordMod
  <2>1. x + 1 = WordMod * (d + 1) + 0 /\ m + 1 = WordMod * 1 + 0
    BY <1>1, <1>2, <1>4, SMT
  <2>2. (x + 1) % WordMod = 0 /\ (m + 1) % WordMod = 0
    BY <1>1, <1>2, <2>1, ModUnique
  <2> QED
    BY <2>2 DEF m
<1> QED
  BY <1>1, <1>2, <1>3, <1>4, SMT

(* The hart's copies of the operators of Isa.                              *)
LEMMA HartIsa ==
  /\ \A a, b : H!Plus(a, b) = Plus(a, b)
  /\ \A a, k : H!AddrAt(a, k) = AddrAt(a, k)
  /\ \A op : H!Terminates(op) <=> Terminates(op)
  /\ \A s, a, r : H!Halt(s, a, r) = Halt(s, a, r)
  /\ H!ResetCsr = ResetCsr
BY DEF H!Plus, Plus, H!AddrAt, AddrAt, H!Terminates, Terminates, H!Halt, Halt,
   H!ResetCsr, ResetCsr

(* The instruction of a handler is the one the hart fetches.               *)
LEMMA Fetched ==
  ASSUME IInv, label = "exec", host = "ok", Cur.op # "end",
         NEW i, i = Fields(Cur.word)
  PROVE  /\ HartPc = Cur.pc /\ Cur.pc \in PMem
         /\ Cur.word \in words[Cur.pc]
         /\ i \in Inst /\ i.op = Cur.op
         /\ i.rs1 = Cur.rs1 /\ i.rs2 = Cur.rs2 /\ i.imm = Cur.imm /\ i.csr = Cur.csr
         /\ Cur.rd = IF i.rd = 0 THEN Sink ELSE i.rd
<1> DEFINE b == basicblock_cache[basicblock]
<1>1. basicblock \in 0 .. NSets - 1 /\ p \in 0 .. MAX_INST_LENGTH
  BY DEF IInv, TypeOK
<1>2. b # ZeroBlock /\ b.count \in 1 .. MAX_INST_LENGTH /\ p < b.count
  BY ExecBlock
<1>3. WellFormed(b)
  BY <1>1, <1>2 DEF IInv, BlocksWellFormed
<1>4. /\ AddrAt(b.pc, p) \in PMem
      /\ Cur = Decode(AddrAt(b.pc, p), Cur.word)
      /\ Cur.word \in words[AddrAt(b.pc, p)]
  BY <1>1, <1>2, <1>3 DEF WellFormed, Cur
<1>5. Cur.word \in Word
  BY CurType
<1>6. i \in Inst
  BY <1>5, DecodeAssumption
<1>7. /\ Cur.pc = AddrAt(b.pc, p) /\ Cur.op = i.op
      /\ Cur.rs1 = i.rs1 /\ Cur.rs2 = i.rs2 /\ Cur.imm = i.imm /\ Cur.csr = i.csr
      /\ Cur.rd = IF i.rd = 0 THEN Sink ELSE i.rd
  <2> HIDE DEF Cur
  <2>1. Decode(AddrAt(b.pc, p), Cur.word)
          = [op |-> i.op, pc |-> AddrAt(b.pc, p), rd |-> IF i.rd = 0 THEN Sink ELSE i.rd,
             rs1 |-> i.rs1, rs2 |-> i.rs2, imm |-> i.imm, csr |-> i.csr, word |-> Cur.word]
    BY DEF Decode
  <2> QED
    BY <1>4, <2>1
<1>8. HartPc = Cur.pc
  BY DEF HartPc
<1> QED
  BY <1>4, <1>6, <1>7, <1>8

(* DISPATCH goes on to the instruction at the next address.                *)
LEMMA NextPc ==
  ASSUME IInv, Advance, host' # "segv"
  PROVE  HartPc' = Plus(Cur.pc, 1)
<1> DEFINE b == basicblock_cache[basicblock]
<1>1. basicblock \in 0 .. NSets - 1 /\ p \in 0 .. MAX_INST_LENGTH /\ b \in Block
  BY DEF IInv, TypeOK
<1>2. /\ host = "ok" /\ label = "exec" /\ Cur.op \in Straight
      /\ p' = p + 1
      /\ UNCHANGED <<basicblock_cache, basicblock, label>>
  BY DEF Advance, DISPATCH
<1>3. Cur.op \in Ops /\ ~ Terminates(Cur.op) /\ Cur.op # "end"
  BY <1>2 DEF Straight, Ops, AluOps, Terminates
<1>4. /\ b # ZeroBlock /\ b.count \in 1 .. MAX_INST_LENGTH
      /\ \/ p + 1 < b.count
         \/ p + 1 = b.count /\ b.count = MAX_INST_LENGTH /\ b.insts[p + 1].op = "end"
  BY <1>2, <1>3, ExecBlock
<1>5. WellFormed(b)
  BY <1>1, <1>4 DEF IInv, BlocksWellFormed
<1>6. b.pc \in Int /\ b.count \in Int
  BY <1>1, <1>4, SMT DEF Block, Word
<1>7. Cur.pc = AddrAt(b.pc, p)
  <2>1. Cur = Decode(AddrAt(b.pc, p), Cur.word)
    BY <1>1, <1>4, <1>5, SMT DEF WellFormed, Cur
  <2> QED
    BY <2>1 DEF Decode
<1>8. b.insts[p + 1].pc = AddrAt(b.pc, p + 1)
  <2>1. CASE p + 1 < b.count
    <3>1. b.insts[p + 1] = Decode(AddrAt(b.pc, p + 1), b.insts[p + 1].word)
      BY <1>1, <1>5, <1>6, <2>1, SMT DEF WellFormed
    <3> QED
      BY <3>1 DEF Decode
  <2>2. CASE p + 1 = b.count /\ b.count = MAX_INST_LENGTH /\ b.insts[p + 1].op = "end"
    <3>1. p + 1 - 1 = p /\ b.count - 1 = p
      BY <1>1, <2>2, SMT
    <3>2. ~ Terminates(b.insts[b.count - 1].op)
      BY <1>3, <3>1 DEF Cur
    <3> QED
      BY <1>5, <2>2, <3>2 DEF WellFormed, FullBlock
  <2> QED
    BY <1>4, <2>1, <2>2
<1>9. AddrAt(b.pc, p + 1) = Plus(AddrAt(b.pc, p), 1)
  <2>1. b.pc + p \in Int /\ b.pc + (p + 1) = (b.pc + p) + 1
    BY <1>1, <1>6, SMT
  <2> QED
    BY <2>1, ModPlus DEF AddrAt, Plus
<1>10. HartPc' = b.insts[p + 1].pc
  BY <1>2 DEF HartPc, Cur
<1> QED
  BY <1>7, <1>8, <1>9, <1>10

(* A write to the dummy register is the hart's write to x0.                *)
LEMMA HartWrites ==
  ASSUME IInv, ~ RT_CHECK, label = "exec", host = "ok", Cur.op # "end",
         NEW i, i = Fields(Cur.word), NEW v, SetR(Cur.rd, v)
  PROVE  H!WriteReg(i.rd, v) /\ host' = "ok"
<1>1. gpr \in [0 .. Sink -> Word] /\ gpr' = [gpr EXCEPT ![Cur.rd] = v] /\ host' = "ok"
  BY DEF IInv, TypeOK, SetR
<1>2. i.rd \in 0 .. NReg - 1 /\ Cur.rd = IF i.rd = 0 THEN Sink ELSE i.rd
  BY Fetched DEF Inst
<1>3. HartGpr' = IF i.rd = 0 THEN HartGpr ELSE [HartGpr EXCEPT ![i.rd] = v]
  <2>1. CASE i.rd = 0
    <3>1. \A r \in 0 .. NReg - 1 : gpr'[r] = gpr[r]
      BY <1>1, <1>2, <2>1, SMT DEF Sink
    <3> QED
      BY <2>1, <3>1 DEF HartGpr
  <2>2. CASE i.rd # 0
    <3>1. \A r \in 0 .. NReg - 1 : gpr'[r] = IF r = i.rd THEN v ELSE gpr[r]
      <4>1. Cur.rd = i.rd
        BY <1>2, <2>2
      <4>2. \A r \in 0 .. NReg - 1 : r \in 0 .. Sink
        BY RegAssumption, SMT DEF Sink
      <4> HIDE DEF Cur
      <4> QED
        BY <1>1, <4>1, <4>2
    <3>2. [HartGpr EXCEPT ![i.rd] = v] = [r \in 0 .. NReg - 1 |-> IF r = i.rd THEN v ELSE gpr[r]]
      BY <1>2 DEF HartGpr
    <3> QED
      BY <2>2, <3>1, <3>2 DEF HartGpr
  <2> QED
    BY <2>1, <2>2
<1> QED
  BY <1>1, <1>3 DEF H!WriteReg

(* What the hart does with the instruction is a step it may take.          *)
LEMMA HartMay ==
  ASSUME TInv, label = "exec", host = "ok", Cur.op # "end",
         NEW i, i = Fields(Cur.word), H!Execute(i)
  PROVE  H!Next
<1>1. HartPc \in PMem /\ Cur.word \in words[HartPc]
  BY Fetched DEF TInv
<1>2. CASE nemu_state.state = "RUNNING"
  <2>1. H!Running
    BY <1>2 DEF H!Running, HartHost
  <2>2. \E w \in words[HartPc] : H!Execute(Fields(w))
    BY <1>1
  <2> QED
    BY <1>1, <2>1, <2>2 DEF H!Next, H!Step
<1>3. CASE nemu_state.state = "ABORT"
  BY <1>3 DEF H!Next, H!Unspecified
<1> QED
  BY <1>2, <1>3 DEF TInv, RunInv

(* What a handler sees and leaves, as the hart sees it.                    *)
LEMMA HartReads ==
  ASSUME IInv, label = "exec", host = "ok", Cur.op # "end",
         NEW i, i = Fields(Cur.word)
  PROVE  /\ HartGpr[i.rs1] = gpr[Cur.rs1] /\ HartGpr[i.rs2] = gpr[Cur.rs2]
         /\ HartGpr[A0] = gpr[A0]
<1>1. i \in Inst /\ i.rs1 = Cur.rs1 /\ i.rs2 = Cur.rs2
  BY Fetched
<1>2. i.rs1 \in 0 .. NReg - 1 /\ i.rs2 \in 0 .. NReg - 1 /\ A0 \in 0 .. NReg - 1
  BY <1>1, RegAssumption, SMT DEF Inst
<1> QED
  BY <1>1, <1>2 DEF HartGpr

LEMMA HartKeeps ==
  /\ UNCHANGED gpr => UNCHANGED HartGpr
  /\ host = "ok" /\ host' = "ok" => UNCHANGED HartHost
  /\ host' = "panic" => HartHost' = "panic"
  /\ label' = "dispatch" => HartPc' = next_pc'
  /\ label = "exec" /\ host = "ok" /\ Die => HartPc' = Cur.pc
BY DEF HartGpr, HartHost, HartPc, Die, block_vars, Cur

LEMMA HartAlu ==
  ASSUME TInv, ~ RT_CHECK, OpAlu
  PROVE  H!Next
<1> DEFINE i == Fields(Cur.word)
           v == Alu(i, Cur.pc, gpr[Cur.rs1], gpr[Cur.rs2])
<1>1. /\ IInv /\ label = "exec" /\ host = "ok" /\ Cur.op = "alu" /\ Cur.op # "end"
      /\ SetR(Cur.rd, v) /\ DISPATCH
      /\ UNCHANGED <<csr, mem, words, nemu_state>>
  BY DEF TInv, OpAlu, At, mem_vars
<1>2. Advance
  BY <1>1 DEF Advance, Straight
<1>3. PICK j : j = i
  OBVIOUS
<1>4. H!WriteReg(j.rd, v) /\ host' = "ok"
  <2> HIDE DEF v
  <2> QED
    BY <1>1, <1>3, HartWrites
<1>5. j.op = "alu" /\ HartPc = Cur.pc
  BY <1>1, <1>3, Fetched
<1>6. HartPc' = H!Plus(HartPc, 1)
  BY <1>1, <1>2, <1>4, <1>5, NextPc, HartIsa
<1>7. v = Alu(j, HartPc, HartGpr[j.rs1], HartGpr[j.rs2])
  BY <1>1, <1>3, <1>5, HartReads
<1>8. H!ExecAlu(j)
  BY <1>1, <1>4, <1>5, <1>6, <1>7, HartKeeps DEF H!ExecAlu
<1> QED
  BY <1>1, <1>3, <1>8, HartMay DEF H!Execute

LEMMA HartLoad ==
  ASSUME TInv, ~ RT_CHECK, OpLoad
  PROVE  H!Next
<1> DEFINE a == Plus(gpr[Cur.rs1], Cur.imm)
<1>1. /\ IInv /\ label = "exec" /\ host = "ok" /\ Cur.op = "load" /\ Cur.op # "end"
      /\ IF a \in PMem THEN SetR(Cur.rd, mem[a]) /\ DISPATCH ELSE Die /\ UNCHANGED gpr
      /\ UNCHANGED <<csr, mem, words, nemu_state>>
  BY DEF TInv, OpLoad, At, mem_vars
<1>2. PICK j : j = Fields(Cur.word)
  OBVIOUS
<1>3. j.op = "load" /\ j.imm = Cur.imm /\ HartPc = Cur.pc
  BY <1>1, <1>2, Fetched
<1>4. a = H!Plus(HartGpr[j.rs1], j.imm)
  BY <1>1, <1>2, <1>3, HartReads, HartIsa
<1>5. CASE a \in PMem
  <2>1. Advance
    BY <1>1, <1>5 DEF Advance, Straight
  <2>2. H!WriteReg(j.rd, mem[a]) /\ host' = "ok"
    <3> HIDE DEF a
    <3> QED
      BY <1>1, <1>2, <1>5, HartWrites
  <2>3. HartPc' = H!Plus(HartPc, 1)
    BY <1>1, <1>3, <2>1, <2>2, NextPc, HartIsa
  <2> HIDE DEF a
  <2> QED
    BY <1>1, <1>3, <1>4, <1>5, <2>2, <2>3, HartKeeps, <1>2, HartMay
    DEF H!ExecLoad, H!Execute
<1>6. CASE a \notin PMem
  <2>1. Die /\ UNCHANGED gpr /\ host' = "panic"
    BY <1>1, <1>6 DEF Die
  <2>2. HartPc' = HartPc /\ HartHost' = "panic" /\ HartGpr' = HartGpr
    BY <1>1, <1>3, <2>1, HartKeeps
  <2> HIDE DEF a
  <2> QED
    BY <1>1, <1>3, <1>4, <1>6, <2>2, <1>2, HartMay DEF H!ExecLoad, H!Execute
<1> QED
  BY <1>5, <1>6

LEMMA HartStore ==
  ASSUME TInv, ~ RT_CHECK, OpStore
  PROVE  H!Next
<1> DEFINE a == Plus(gpr[Cur.rs1], Cur.imm)
           v == gpr[Cur.rs2]
<1>1. /\ IInv /\ label = "exec" /\ host = "ok" /\ Cur.op = "store" /\ Cur.op # "end"
      /\ IF a \in PMem
           THEN /\ mem' = [mem EXCEPT ![a] = v]
                /\ words' = [words EXCEPT ![a] = @ \union {v}]
                /\ DISPATCH
                /\ UNCHANGED host
           ELSE Die /\ UNCHANGED <<mem, words>>
      /\ UNCHANGED <<gpr, csr, nemu_state>>
  BY DEF TInv, OpStore, At, mem_vars, cpu_vars
<1>2. PICK j : j = Fields(Cur.word)
  OBVIOUS
<1>3. j.op = "store" /\ j.imm = Cur.imm /\ HartPc = Cur.pc
  BY <1>1, <1>2, Fetched
<1>4. a = H!Plus(HartGpr[j.rs1], j.imm) /\ v = HartGpr[j.rs2]
  BY <1>1, <1>2, <1>3, HartReads, HartIsa
<1>5. HartGpr' = HartGpr
  BY <1>1, HartKeeps
<1>6. CASE a \in PMem
  <2>1. Advance
    BY <1>1, <1>6 DEF Advance, Straight
  <2>2. HartPc' = H!Plus(HartPc, 1)
    BY <1>1, <1>3, <1>6, <2>1, NextPc, HartIsa
  <2> HIDE DEF a, v
  <2>3. H!ExecStore(j)
    BY <1>1, <1>3, <1>4, <1>5, <1>6, <2>2, HartKeeps DEF H!ExecStore
  <2> QED
    BY <1>1, <1>2, <2>3, HartMay DEF H!Execute
<1>7. CASE a \notin PMem
  <2>1. Die /\ host' = "panic"
    BY <1>1, <1>7 DEF Die
  <2>2. HartPc' = HartPc /\ HartHost' = "panic"
    BY <1>1, <1>3, <2>1, HartKeeps
  <2> HIDE DEF a, v
  <2>3. H!ExecStore(j)
    BY <1>1, <1>3, <1>4, <1>5, <1>7, <2>2 DEF H!ExecStore
  <2> QED
    BY <1>1, <1>2, <2>3, HartMay DEF H!Execute
<1> QED
  BY <1>6, <1>7

(* The jumps and the branches leave the block.                             *)
LEMMA HartTransfer ==
  ASSUME TInv, ~ RT_CHECK, OpJal \/ OpJalr \/ OpBranch
  PROVE  H!Next
<1> DEFINE link == Plus(Cur.pc, 1)
<1>1. /\ IInv /\ label = "exec" /\ host = "ok" /\ Cur.op # "end"
      /\ UNCHANGED <<csr, mem, words, nemu_state>>
  BY DEF TInv, OpJal, OpJalr, OpBranch, At, mem_vars, cpu_vars
<1>2. PICK j : j = Fields(Cur.word)
  OBVIOUS
<1>3. j.op = Cur.op /\ j.imm = Cur.imm /\ HartPc = Cur.pc
  BY <1>1, <1>2, Fetched
<1>4. HartGpr[j.rs1] = gpr[Cur.rs1] /\ HartGpr[j.rs2] = gpr[Cur.rs2]
  BY <1>1, <1>2, HartReads
<1>5. ASSUME SetR(Cur.rd, link)
      PROVE  H!WriteReg(j.rd, H!Plus(HartPc, 1)) /\ HartHost' = HartHost
  <2>1. H!Plus(HartPc, 1) = link
    BY <1>3, HartIsa
  <2> HIDE DEF link
  <2>2. H!WriteReg(j.rd, link) /\ host' = "ok"
    BY <1>1, <1>2, <1>5, HartWrites
  <2> QED
    BY <1>1, <2>1, <2>2, HartKeeps
<1>6. CASE OpJal
  <2>1. /\ j.op = "jal" /\ SetR(Cur.rd, link)
        /\ next_pc' = Plus(Cur.pc, Cur.imm) /\ label' = "dispatch"
    BY <1>3, <1>6 DEF OpJal, At, GotoDispatch
  <2>2. HartPc' = H!Plus(HartPc, j.imm)
    BY <1>3, <2>1, HartKeeps, HartIsa
  <2>3. H!ExecTransfer(j)
    BY <1>1, <1>5, <2>1, <2>2 DEF H!ExecTransfer
  <2> QED
    BY <1>1, <1>2, <2>3, HartMay DEF H!Execute
<1>7. CASE OpJalr
  <2>1. /\ j.op = "jalr" /\ SetR(Cur.rd, link)
        /\ next_pc' = Plus(gpr[Cur.rs1], Cur.imm) /\ label' = "dispatch"
    BY <1>3, <1>7 DEF OpJalr, At, GotoDispatch
  <2>2. HartPc' = H!Plus(HartGpr[j.rs1], j.imm)
    BY <1>3, <1>4, <2>1, HartKeeps, HartIsa
  <2>3. H!ExecTransfer(j)
    BY <1>1, <1>5, <2>1, <2>2 DEF H!ExecTransfer
  <2> QED
    BY <1>1, <1>2, <2>3, HartMay DEF H!Execute
<1>8. CASE OpBranch
  <2>1. /\ j.op = "branch" /\ gpr' = gpr /\ host' = host /\ label' = "dispatch"
        /\ next_pc' = IF Taken(j, gpr[Cur.rs1], gpr[Cur.rs2])
                        THEN Plus(Cur.pc, Cur.imm) ELSE Plus(Cur.pc, 1)
    BY <1>2, <1>3, <1>8 DEF OpBranch, At, GotoDispatch, cpu_vars
  <2>2. HartPc' = IF Taken(j, HartGpr[j.rs1], HartGpr[j.rs2])
                    THEN H!Plus(HartPc, j.imm) ELSE H!Plus(HartPc, 1)
    BY <1>3, <1>4, <2>1, HartKeeps, HartIsa
  <2>3. HartGpr' = HartGpr /\ HartHost' = HartHost
    BY <1>1, <2>1, HartKeeps
  <2>4. H!ExecTransfer(j)
    BY <1>1, <2>1, <2>2, <2>3 DEF H!ExecTransfer
  <2> QED
    BY <1>1, <1>2, <2>4, HartMay DEF H!Execute
<1> QED
  BY <1>6, <1>7, <1>8

LEMMA HartCsr ==
  ASSUME TInv, ~ RT_CHECK, OpCsr
  PROVE  H!Next
<1>1. /\ IInv /\ label = "exec" /\ host = "ok" /\ Cur.op = "csr" /\ Cur.op # "end"
      /\ IF Cur.csr \in CSRs
           THEN /\ SetR(Cur.rd, csr[Cur.csr])
                /\ csr' = [csr EXCEPT ![Cur.csr] =
                                CsrOp(Fields(Cur.word), @, gpr[Cur.rs1])]
                /\ DISPATCH
           ELSE Die /\ UNCHANGED <<gpr, csr>>
      /\ UNCHANGED <<mem, words, nemu_state>>
  BY DEF TInv, OpCsr, At, mem_vars, cpu_vars
<1>2. PICK j : j = Fields(Cur.word)
  OBVIOUS
<1>3. j.op = "csr" /\ j.csr = Cur.csr /\ HartPc = Cur.pc
  BY <1>1, <1>2, Fetched
<1>4. HartGpr[j.rs1] = gpr[Cur.rs1]
  BY <1>1, <1>2, HartReads
<1>5. CASE Cur.csr \in CSRs
  <2>1. Advance
    BY <1>1, <1>5 DEF Advance, Straight
  <2>2. PICK v : v = csr[Cur.csr]
    OBVIOUS
  <2>3. H!WriteReg(j.rd, v) /\ host' = "ok"
    BY <1>1, <1>2, <1>5, <2>2, HartWrites
  <2>4. HartPc' = H!Plus(HartPc, 1)
    BY <1>1, <1>3, <2>1, <2>3, NextPc, HartIsa
  <2>5. csr' = [csr EXCEPT ![j.csr] = CsrOp(j, @, HartGpr[j.rs1])]
    BY <1>1, <1>2, <1>3, <1>4, <1>5
  <2>6. HartHost' = HartHost
    BY <1>1, <2>3, HartKeeps
  <2>7. H!ExecCsr(j)
    BY <1>1, <1>3, <1>5, <2>2, <2>3, <2>4, <2>5, <2>6 DEF H!ExecCsr
  <2> QED
    BY <1>1, <1>2, <2>7, HartMay DEF H!Execute
<1>6. CASE Cur.csr \notin CSRs
  <2>1. Die /\ UNCHANGED <<gpr, csr>> /\ host' = "panic"
    BY <1>1, <1>6 DEF Die
  <2>2. HartPc' = HartPc /\ HartHost' = "panic" /\ HartGpr' = HartGpr
    BY <1>1, <1>3, <2>1, HartKeeps
  <2>3. H!ExecCsr(j)
    BY <1>1, <1>3, <1>6, <2>1, <2>2 DEF H!ExecCsr
  <2> QED
    BY <1>1, <1>2, <2>3, HartMay DEF H!Execute
<1> QED
  BY <1>5, <1>6

LEMMA HartTrap ==
  ASSUME TInv, OpEcall \/ OpMret \/ OpEbreak
  PROVE  H!Next
<1>1. /\ IInv /\ label = "exec" /\ host = "ok" /\ Cur.op # "end"
      /\ UNCHANGED <<gpr, mem, words, host>> /\ label' = "dispatch"
  BY DEF TInv, OpEcall, OpMret, OpEbreak, At, mem_vars, cpu_vars, GotoDispatch
<1>2. PICK j : j = Fields(Cur.word)
  OBVIOUS
<1>3. j.op = Cur.op /\ HartPc = Cur.pc /\ HartPc' = next_pc' /\ HartGpr' = HartGpr
      /\ HartHost' = HartHost
  BY <1>1, <1>2, Fetched, HartKeeps
<1>4. HartGpr[A0] = gpr[A0]
  BY <1>1, <1>2, HartReads
<1>5. CASE OpEcall
  <2>1. H!ExecTrap(j)
    BY <1>1, <1>3, <1>5 DEF OpEcall, At, GotoDispatch, H!ExecTrap
  <2> QED
    BY <1>1, <1>2, <2>1, HartMay DEF H!Execute
<1>6. CASE OpMret
  <2>1. H!ExecTrap(j)
    BY <1>1, <1>3, <1>6 DEF OpMret, At, GotoDispatch, cpu_vars, H!ExecTrap
  <2> QED
    BY <1>1, <1>2, <2>1, HartMay DEF H!Execute
<1>7. CASE OpEbreak
  <2>1. H!ExecEbreak(j)
    BY <1>1, <1>3, <1>4, <1>7, HartIsa
    DEF OpEbreak, At, GotoDispatch, cpu_vars, H!ExecEbreak
  <2> QED
    BY <1>1, <1>2, <2>1, HartMay DEF H!Execute
<1> QED
  BY <1>5, <1>6, <1>7

LEMMA HartInvalid ==
  ASSUME TInv, OpInvalid
  PROVE  H!Next
<1>1. /\ IInv /\ label = "exec" /\ host = "ok" /\ Cur.op = "invalid" /\ Cur.op # "end"
      /\ IF Plus(Cur.pc, 1) \in PMem
           THEN nemu_state' = Halt("ABORT", Cur.pc, -1) /\ DISPATCH /\ UNCHANGED host
           ELSE Die /\ UNCHANGED nemu_state
      /\ UNCHANGED <<gpr, csr, mem, words>>
  BY DEF TInv, OpInvalid, At, mem_vars, cpu_vars
<1>2. PICK j : j = Fields(Cur.word)
  OBVIOUS
<1>3. j.op = "invalid" /\ HartPc = Cur.pc /\ HartGpr' = HartGpr
  BY <1>1, <1>2, Fetched, HartKeeps
<1>4. H!Plus(HartPc, 1) = Plus(Cur.pc, 1)
  BY <1>3, HartIsa
<1>5. CASE Plus(Cur.pc, 1) \in PMem
  <2>1. Advance
    BY <1>1, <1>5 DEF Advance, Straight
  <2>2. HartPc' = Plus(Cur.pc, 1) /\ HartHost' = HartHost
    BY <1>1, <1>5, <2>1, NextPc, HartKeeps
  <2>3. H!ExecInvalid(j)
    BY <1>1, <1>3, <1>4, <1>5, <2>2, HartIsa DEF H!ExecInvalid
  <2> QED
    BY <1>1, <1>2, <2>3, HartMay DEF H!Execute
<1>6. CASE Plus(Cur.pc, 1) \notin PMem
  <2>1. Die /\ host' = "panic" /\ UNCHANGED nemu_state
    BY <1>1, <1>6 DEF Die
  <2>2. HartPc' = HartPc /\ HartHost' = "panic"
    BY <1>1, <1>3, <2>1, HartKeeps
  <2>3. H!ExecInvalid(j)
    BY <1>1, <1>3, <1>4, <1>6, <2>1, <2>2 DEF H!ExecInvalid
  <2> QED
    BY <1>1, <1>2, <2>3, HartMay DEF H!Execute
<1> QED
  BY <1>5, <1>6

(* The end marker is no instruction.                                       *)
LEMMA HartEnd ==
  ASSUME TInv, OpEnd
  PROVE  UNCHANGED H!vars
<1>1. /\ label = "exec" /\ host = "ok" /\ next_pc' = Cur.pc /\ label' = "dispatch"
      /\ UNCHANGED <<gpr, csr, mem, words, nemu_state, host>>
  BY DEF OpEnd, At, cpu_vars, mem_vars
<1>2. HartPc = Cur.pc
  BY <1>1 DEF HartPc
<1> QED
  BY <1>1, <1>2, HartKeeps DEF H!vars

------------------------------------------------------------------------------
(* Entering a block is no instruction either: the hart's pc stays where it *)
(* is, at the first instruction of the block.                              *)
EntryPc ==
  label = "exec" /\ host = "ok" /\ p = 0 => Cur.pc = basicblock_cache[basicblock].pc

LEMMA EntryPcInv == IInv => EntryPc
<1> SUFFICES ASSUME IInv, label = "exec", host = "ok", p = 0
             PROVE  Cur.pc = basicblock_cache[basicblock].pc
  BY DEF EntryPc
<1> DEFINE b == basicblock_cache[basicblock]
<1>1. basicblock \in 0 .. NSets - 1 /\ b \in Block
  BY DEF IInv, TypeOK
<1>2. b # ZeroBlock /\ b.count \in 1 .. MAX_INST_LENGTH
  BY ExecBlock
<1>3. WellFormed(b)
  BY <1>1, <1>2 DEF IInv, BlocksWellFormed
<1>4. 0 \in 0 .. b.count - 1
  BY <1>2, SMT
<1>5. Cur = Decode(AddrAt(b.pc, 0), Cur.word)
  BY <1>3, <1>4 DEF WellFormed, Cur
<1>6. AddrAt(b.pc, 0) = b.pc
  <2>1. b.pc \in 0 .. WordMod - 1
    BY <1>1 DEF Block, Word
  <2>2. WordMod \in Nat /\ WordMod > 0
    BY WordAssumption
  <2>3. (b.pc + 0) % WordMod = b.pc
    BY <2>1, <2>2, SMT
  <2> QED
    BY <2>3 DEF AddrAt, Plus
<1> QED
  BY <1>5, <1>6 DEF Decode

LEMMA EntryPcNext == IInv' => EntryPc'
BY EntryPcInv, PTL

LEMMA HartEnters ==
  ASSUME TInv, IInv', NEW pc \in Word, EnterBlock(pc),
         host = "ok", label \in {"idle", "dispatch"}, nemu_state.state = "RUNNING",
         HartPc = pc, cpu_pc' = pc,
         UNCHANGED <<gpr, csr, mem, words, next_pc, nemu_state>>
  PROVE  H!Next \/ UNCHANGED H!vars
<1> DEFINE i == IndexOf(pc)
           c == basicblock_cache
<1>1. i \in 0 .. NSets - 1 /\ c[i] \in Block /\ c \in [0 .. NSets - 1 -> Block]
  <2>1. c \in [0 .. NSets - 1 -> Block]
    BY DEF TInv, IInv, TypeOK
  <2>2. pc \in Int /\ NSets \in Nat /\ NSets > 0
    BY CacheAssumption, SMT DEF Word
  <2>3. i \in 0 .. NSets - 1
    BY <2>2, SMT DEF IndexOf
  <2> QED
    BY <2>1, <2>3
<1>2. host' # "segv" /\ HartGpr' = HartGpr
  BY HartKeeps DEF IInv, NoNullEntry
<1>3. ASSUME NEW b, b.pc = pc, c'[i] = b, basicblock' = i, p' = 0, label' = "exec",
             host' = IF b.entry = "null" THEN "segv" ELSE "ok"
      PROVE  UNCHANGED H!vars
  <2>1. host' = "ok"
    BY <1>2, <1>3
  <2>2. Cur.pc' = pc
    BY <1>3, <2>1, EntryPcNext DEF EntryPc
  <2>3. HartPc' = pc /\ HartHost' = HartHost
    BY <1>3, <2>1, <2>2, HartKeeps DEF HartPc
  <2> QED
    BY <1>2, <2>3 DEF H!vars
<1>4. CASE IsHitCache(pc)
  <2>1. /\ c[i].pc = pc /\ c' = c /\ basicblock' = i /\ p' = 0 /\ label' = "exec"
        /\ host' = IF c[i].entry = "null" THEN "segv" ELSE "ok"
    BY <1>4 DEF EnterBlock, IsHitCache
  <2> HIDE DEF i, c
  <2>2. c'[i] = c[i]
    BY <2>1
  <2>3. UNCHANGED H!vars
    <3>1. PICK b : b = c[i]
      OBVIOUS
    <3> QED
      BY <1>3, <2>1, <2>2, <3>1
  <2> QED
    BY <2>3
<1>5. CASE ~ IsHitCache(pc)
  <2>1. PICK nr \in 1 .. MAX_INST_LENGTH :
          /\ DecodeLoop(pc, nr)
          /\ IF AddrAt(pc, nr - 1) \in PMem
               THEN LET b == Refilled(c[i], pc, nr) IN
                    /\ c' = [c EXCEPT ![i] = b]
                    /\ basicblock' = i
                    /\ p' = 0
                    /\ label' = "exec"
                    /\ host' = IF b.entry = "null" THEN "segv" ELSE "ok"
               ELSE /\ host' = "panic"
                    /\ UNCHANGED <<basicblock_cache, basicblock, p, label, ahead>>
    BY <1>5 DEF EnterBlock
  <2>2. CASE AddrAt(pc, nr - 1) \in PMem
    <3>1. PICK b : b = Refilled(c[i], pc, nr)
      OBVIOUS
    <3>2. b.pc = pc
      BY <3>1 DEF Refilled
    <3>3. /\ c' = [c EXCEPT ![i] = b] /\ basicblock' = i /\ p' = 0 /\ label' = "exec"
          /\ host' = IF b.entry = "null" THEN "segv" ELSE "ok"
      BY <2>1, <2>2, <3>1
    <3>4. c'[i] = b
      BY <1>1, <3>3
    <3> HIDE DEF i, c
    <3> QED
      BY <1>3, <3>2, <3>3, <3>4
  <2>3. CASE AddrAt(pc, nr - 1) \notin PMem
    <3>1. host' = "panic" /\ label' = label
      BY <2>1, <2>3
    <3>2. HartHost' = "panic" /\ HartPc' = HartPc
      BY <3>1, HartKeeps DEF HartPc
    <3>3. H!Running
      BY DEF H!Running, HartHost
    <3>4. nr - 1 \in 0 .. MAX_INST_LENGTH - 1 /\ nr - 1 - 1 = nr - 2
      <4>1. nr \in Int /\ MAX_INST_LENGTH \in Int /\ 1 <= nr /\ nr <= MAX_INST_LENGTH
        BY CacheAssumption
      <4> QED
        BY <4>1, SMT
    <3>5. /\ AddrAt(pc, nr - 1) \notin PMem
          /\ \A j \in 0 .. nr - 2 : /\ AddrAt(pc, j) \in PMem
                                   /\ ~ Terminates(Fields(mem[AddrAt(pc, j)]).op)
      BY <2>1, <2>3 DEF DecodeLoop
    <3>6. H!Doomed(pc)
      BY <3>4, <3>5, HartIsa DEF H!Doomed
    <3>7. H!RunOff
      BY <1>2, <3>2, <3>3, <3>6 DEF H!RunOff
    <3> QED
      BY <3>7 DEF H!Next
  <2> QED
    BY <2>2, <2>3
<1> QED
  BY <1>4, <1>5

LEMMA HartLooksUp ==
  ASSUME TInv, IInv', ExecOnce \/ BlockDispatch
  PROVE  H!Next \/ UNCHANGED H!vars
<1>1. cpu_pc \in Word /\ next_pc \in Word
  BY DEF TInv, IInv, TypeOK
<1>2. CASE ExecOnce
  <2>1. /\ host = "ok" /\ label = "idle" /\ nemu_state.state = "RUNNING"
        /\ EnterBlock(cpu_pc)
        /\ UNCHANGED <<gpr, csr, cpu_pc, mem, words, next_pc, nemu_state>>
    BY <1>2 DEF ExecOnce, cpu_vars, mem_vars
  <2>2. HartPc = cpu_pc
    BY <2>1 DEF HartPc
  <2>3. PICK pc \in Word : pc = cpu_pc
    BY <1>1
  <2> QED
    BY <2>1, <2>2, <2>3, HartEnters
<1>3. CASE BlockDispatch
  <2>1. /\ host = "ok" /\ label = "dispatch" /\ cpu_pc' = next_pc
        /\ UNCHANGED <<gpr, csr, mem, words, next_pc, nemu_state>>
    BY <1>3 DEF BlockDispatch, cpu_vars, mem_vars
  <2>2. HartPc = next_pc
    BY <2>1 DEF HartPc
  <2>3. CASE nemu_state.state = "RUNNING"
    <3>1. EnterBlock(next_pc)
      BY <1>3, <2>3 DEF BlockDispatch
    <3>2. PICK pc \in Word : pc = next_pc
      BY <1>1
    <3> QED
      BY <2>1, <2>2, <2>3, <3>1, <3>2, HartEnters
  <2>4. CASE nemu_state.state # "RUNNING"
    <3>1. label' = "idle" /\ host' = host
      BY <1>3, <2>4 DEF BlockDispatch
    <3>2. HartPc' = next_pc
      BY <2>1, <3>1 DEF HartPc
    <3> QED
      BY <2>1, <2>2, <3>1, <3>2, HartKeeps DEF H!vars
  <2> QED
    BY <2>3, <2>4
<1> QED
  BY <1>2, <1>3

LEMMA RunInvNext ==
  ASSUME TInv, [Next]_vars
  PROVE  RunInv'
<1>1. CASE ExecOnce \/ BlockDispatch
  BY <1>1 DEF ExecOnce, BlockDispatch, RunInv
<1>2. CASE \/ OpAlu \/ OpLoad \/ OpStore \/ OpCsr
  BY <1>2 DEF TInv, RunInv, OpAlu, OpLoad, OpStore, OpCsr, At, DISPATCH, Die
<1>3. CASE OpJal \/ OpJalr \/ OpBranch \/ OpEcall \/ OpMret \/ OpEbreak
  <2>1. label' = "dispatch"
    BY <1>3 DEF OpJal, OpJalr, OpBranch, OpEcall, OpMret, OpEbreak,
       GotoDispatch
  <2> QED
    BY <2>1 DEF RunInv
<1>4. CASE OpInvalid
  <2>1. nemu_state' = nemu_state \/ nemu_state'.state = "ABORT"
    BY <1>4 DEF OpInvalid, Halt
  <2>2. label = "exec"
    BY <1>4 DEF OpInvalid, At
  <2> QED
    BY <2>1, <2>2 DEF TInv, RunInv
<1>5. CASE OpEnd
  BY <1>5 DEF OpEnd, RunInv
<1>6. CASE UNCHANGED vars
  BY <1>6 DEF TInv, RunInv, vars
<1> QED
  BY <1>1, <1>2, <1>3, <1>4, <1>5, <1>6 DEF Next

LEMMA HartInit == Init => H!Init
<1> SUFFICES ASSUME Init
             PROVE  H!Init
  OBVIOUS
<1>1. \A r \in 0 .. NReg - 1 : r \in 0 .. Sink
  BY RegAssumption, SMT DEF Sink
<1>2. HartGpr = [r \in 0 .. NReg - 1 |-> 0]
  BY <1>1 DEF Init, Restart, HartGpr
<1>3. HartPc = RESET_VECTOR /\ HartHost = "ok"
  BY DEF Init, Restart, HartPc, HartHost
<1> QED
  BY <1>2, <1>3, HartIsa DEF Init, Restart, H!Init, H!Word, Word

LEMMA HartNext ==
  ASSUME TInv, IInv', ~ RT_CHECK, [Next]_vars
  PROVE  [H!Next]_H!vars
<1>1. CASE ExecOnce \/ BlockDispatch
  BY <1>1, HartLooksUp
<1>2. CASE OpAlu
  BY <1>2, HartAlu
<1>3. CASE OpLoad
  BY <1>3, HartLoad
<1>4. CASE OpStore
  BY <1>4, HartStore
<1>5. CASE OpJal \/ OpJalr \/ OpBranch
  BY <1>5, HartTransfer
<1>6. CASE OpCsr
  BY <1>6, HartCsr
<1>7. CASE OpEcall \/ OpMret \/ OpEbreak
  BY <1>7, HartTrap
<1>8. CASE OpInvalid
  BY <1>8, HartInvalid
<1>9. CASE OpEnd
  BY <1>9, HartEnd
<1>10. CASE UNCHANGED vars
  BY <1>10 DEF vars, H!vars, HartPc, HartGpr, HartHost, Cur
<1> QED
  BY <1>1, <1>2, <1>3, <1>4, <1>5, <1>6, <1>7, <1>8, <1>9, <1>10 DEF Next

(* "Caching is transparent to the program" (docs/blog.typ): every run of   *)
(* the interpreter is, up to the first invalid instruction, a run of a     *)
(* hart that executes one instruction at a time from memory.  With         *)
(* RT_CHECK the build asserts on the dummy register instead.               *)
THEOREM CachingIsTransparent == ~ RT_CHECK => (Spec => Transparent)
<1> SUFFICES ASSUME ~ RT_CHECK
             PROVE  Spec => Transparent
  OBVIOUS
<1>1. Init => RunInv /\ H!Init
  BY HartInit DEF Init, Restart, RunInv
<1>2. IInv /\ RunInv /\ [Next]_vars => RunInv'
  BY RunInvNext DEF TInv
<1>3. IInv /\ IInv' /\ RunInv /\ [Next]_vars => [H!Next]_H!vars
  BY HartNext DEF TInv
<1> QED
  BY <1>1, <1>2, <1>3, Inductive, PTL DEF Spec, Transparent, H!Spec

------------------------------------------------------------------------------
(* The monitor.                                                            *)
USE MonitorAssumption

Fresh ==
  /\ cpu_pc = RESET_VECTOR
  /\ gpr = [r \in 0 .. Sink |-> 0]
  /\ csr = ResetCsr
  /\ basicblock_cache = [i \in 0 .. NSets - 1 |-> ZeroBlock]

SdbVarsOK ==
  /\ mon \in {"prompt", "execute", "inside", "exited"}
  /\ n \in 0 .. ULongMax /\ asked \in 0 .. ULongMax
  /\ batch \in BOOLEAN
  /\ steps \in 0 .. StepCap

(* Where the interpreter is, for each place the monitor can be in.         *)
ControlOK ==
  /\ (mon # "inside" /\ host = "ok") => label = "idle"
  /\ (mon = "inside" /\ label = "idle" /\ host = "ok") =>
        nemu_state.state # "RUNNING"
  /\ mon \in {"prompt", "exited"} => nemu_state.state # "RUNNING"
  /\ mon = "exited" => host = "ok"

(* The guest is untouched until isa_exec_once is called.                   *)
FreshOK ==
  /\ nemu_state.state = "STOP" => Fresh /\ mon \in {"prompt", "exited"}
  /\ (mon = "execute" /\ nemu_state.state = "RUNNING") => Fresh

(* Between the good or bad trap and the end, nothing is executed.          *)
EndOK ==
  /\ (nemu_state.state = "END" /\ host = "ok") =>
        /\ nemu_state.halt_ret = gpr[A0]
        /\ \/ label = "dispatch" /\ next_pc = Plus(nemu_state.halt_pc, 1)
           \/ label = "idle" /\ cpu_pc = Plus(nemu_state.halt_pc, 1)
  /\ nemu_state.state = "QUIT" => ~ batch

SInv == IInv /\ SdbVarsOK /\ ControlOK /\ FreshOK /\ EndOK

------------------------------------------------------------------------------
(* A command that leaves the interpreter's own state alone keeps IInv.     *)
LEMMA CommandKeepsIInv ==
  ASSUME IInv, CpuUntouched, host = "ok", csr' \in [CSRs -> Word],
         nemu_state' \in NemuState, host' \in {"ok", "panic"}
  PROVE  IInv'
  <1>1. UNCHANGED <<gpr, cpu_pc, mem, words, basicblock_cache, basicblock,
                    ahead, p, next_pc, label>>
    BY DEF CpuUntouched, mem_vars, block_vars
  <1>2. TypeOK'
    BY <1>1 DEF IInv, TypeOK
  <1>3. BlocksWellFormed'
    BY <1>1 DEF IInv, BlocksWellFormed, WellFormed, FullBlock
  <1>4. ExecInsideBlock' /\ CountExact'
    BY <1>1 DEF IInv, ExecInsideBlock, CountExact
  <1>5. X0IsZero' /\ NoNullEntry' /\ MemInWords' /\ ResetSet'
    BY <1>1 DEF IInv, X0IsZero, NoNullEntry, MemInWords, ResetSet
  <1> QED
    BY <1>2, <1>3, <1>4, <1>5 DEF IInv

LEMMA StateType ==
  ASSUME IInv
  PROVE  /\ \A s \in NemuStates : [nemu_state EXCEPT !.state = s] \in NemuState
         /\ nemu_state \in NemuState
         /\ csr \in [CSRs -> Word]
         /\ [csr EXCEPT !["mstatus"] = MSTATUS] \in [CSRs -> Word]
  <1>1. nemu_state \in NemuState /\ csr \in [CSRs -> Word]
    BY DEF IInv, TypeOK
  <1>2. \A s \in NemuStates : [nemu_state EXCEPT !.state = s] \in NemuState
    BY <1>1 DEF NemuState
  <1>3. [csr EXCEPT !["mstatus"] = MSTATUS] \in [CSRs -> Word]
    BY <1>1, WordAssumption, RegAssumption
  <1> QED
    BY <1>1, <1>2, <1>3

LEMMA FreshMstatus ==
  ASSUME Fresh
  PROVE  [csr EXCEPT !["mstatus"] = MSTATUS] = csr
  BY DEF Fresh, ResetCsr

(* cpu_exec either refuses, or starts a guest that is still fresh.         *)
LEMMA CpuExecInv ==
  ASSUME SInv, NEW k \in 0 .. ULongMax, Prompt, CpuExec(k),
         CpuUntouched, UNCHANGED <<host, batch>>
  PROVE  SInv'
  <1>1. host = "ok" /\ mon = "prompt" /\ IInv /\ nemu_state.state # "RUNNING"
    BY DEF Prompt, SInv, ControlOK
  <1>2. csr' = [csr EXCEPT !["mstatus"] = MSTATUS]
    BY DEF CpuExec
  <1>3. UNCHANGED <<gpr, cpu_pc, basicblock_cache, next_pc, label, host, batch>>
    BY DEF CpuUntouched, block_vars
  <1>4. CASE nemu_state.state \in Ended
    <2>1. UNCHANGED <<nemu_state, mon, n, asked, steps>>
      BY <1>4 DEF CpuExec
    <2>2. IInv'
      BY <1>1, <1>2, <1>3, <2>1, StateType, CommandKeepsIInv
    <2>3. SdbVarsOK' /\ ControlOK' /\ EndOK'
      BY <1>3, <2>1 DEF SInv, SdbVarsOK, ControlOK, EndOK
    <2>4. FreshOK'
      BY <1>1, <1>4, <2>1 DEF FreshOK, Ended
    <2> QED
      BY <2>2, <2>3, <2>4 DEF SInv
  <1>5. CASE nemu_state.state \notin Ended
    <2>1. /\ nemu_state' = [nemu_state EXCEPT !.state = "RUNNING"]
          /\ mon' = "execute" /\ n' = k
          /\ asked' = k /\ steps' = 0
      BY <1>5 DEF CpuExec
    <2>2. nemu_state \in NemuState /\ nemu_state' \in NemuState
      BY <1>1, <2>1, StateType DEF NemuStates
    <2>3. nemu_state'.state = "RUNNING"
      BY <2>1, <2>2 DEF NemuState
    <2>4. nemu_state.state = "STOP"
      BY <1>1, <1>5, <2>2 DEF NemuState, NemuStates, Ended
    <2>5. Fresh
      BY <2>4 DEF SInv, FreshOK
    <2>6. Fresh'
      BY <1>2, <1>3, <2>5, FreshMstatus DEF Fresh
    <2>7. IInv'
      BY <1>1, <1>2, <1>3, <2>2, StateType, CommandKeepsIInv
    <2>8. SdbVarsOK'
      BY <1>3, <2>1 DEF SInv, SdbVarsOK
    <2>9. ControlOK' /\ FreshOK' /\ EndOK'
      BY <1>1, <1>3, <2>1, <2>3, <2>6 DEF SInv, ControlOK, FreshOK, EndOK
    <2> QED
      BY <2>7, <2>8, <2>9 DEF SInv
  <1> QED
    BY <1>4, <1>5

LEMMA CommandInv ==
  ASSUME SInv, Command
  PROVE  SInv'
  <1>1. CASE CmdC
    BY <1>1, CpuExecInv DEF CmdC
  <1>2. CASE CmdSi
    <2>1. PICK i \in SiArgs : CpuExec(ToULong(i))
      BY <1>2 DEF CmdSi
    <2>2. ToULong(i) \in 0 .. ULongMax
      BY DEF ToULong
    <2> QED
      BY <1>2, <2>1, <2>2, CpuExecInv DEF CmdSi
  <1>3. CASE CmdX
    <2>1. /\ host = "ok" /\ mon = "prompt" /\ host' \in {"ok", "panic"}
          /\ CpuUntouched
          /\ UNCHANGED <<csr, nemu_state, mon, n, batch, asked, steps>>
      BY <1>3 DEF CmdX, Prompt, sdb_vars
    <2>2. UNCHANGED <<gpr, cpu_pc, basicblock_cache, next_pc, label>>
      BY <2>1 DEF CpuUntouched, block_vars
    <2>3. IInv'
      BY <2>1, StateType, CommandKeepsIInv DEF SInv
    <2>4. SdbVarsOK' /\ ControlOK' /\ EndOK'
      BY <2>1, <2>2 DEF SInv, SdbVarsOK, ControlOK, EndOK
    <2>5. FreshOK'
      BY <2>1, <2>2 DEF SInv, FreshOK, Fresh
    <2> QED
      BY <2>3, <2>4, <2>5 DEF SInv
  <1>4. CASE CmdQ
    <2>1. /\ host = "ok" /\ mon = "prompt" /\ ~ batch
          /\ nemu_state' = [nemu_state EXCEPT !.state = "QUIT"]
          /\ mon' = "exited"
          /\ CpuUntouched
          /\ UNCHANGED <<csr, host, n, batch, asked, steps>>
      BY <1>4 DEF CmdQ, Prompt
    <2>2. label = "idle" /\ label' = label
      BY <2>1 DEF CpuUntouched, SInv, ControlOK
    <2>3. nemu_state' \in NemuState
      BY <2>1, StateType DEF SInv, NemuStates
    <2>4. nemu_state'.state = "QUIT"
      BY <2>1, StateType DEF SInv, NemuState
    <2>5. IInv'
      BY <2>1, <2>3, StateType, CommandKeepsIInv DEF SInv
    <2>6. SdbVarsOK' /\ ControlOK' /\ FreshOK' /\ EndOK'
      BY <2>1, <2>2, <2>4 DEF SInv, SdbVarsOK, ControlOK, FreshOK, EndOK
    <2> QED
      BY <2>5, <2>6 DEF SInv
  <1>5. CASE EndOfInput
    <2>1. /\ host = "ok" /\ mon = "prompt" /\ mon' = "exited"
          /\ CpuUntouched
          /\ UNCHANGED <<csr, nemu_state, host, n, batch, asked, steps>>
      BY <1>5 DEF EndOfInput, Prompt
    <2>2. UNCHANGED <<gpr, cpu_pc, basicblock_cache, next_pc, label>>
      BY <2>1 DEF CpuUntouched, block_vars
    <2>3. IInv'
      BY <2>1, StateType, CommandKeepsIInv DEF SInv
    <2>4. SdbVarsOK' /\ ControlOK' /\ EndOK'
      BY <2>1, <2>2 DEF SInv, SdbVarsOK, ControlOK, EndOK
    <2>5. FreshOK'
      BY <2>1, <2>2 DEF SInv, FreshOK, Fresh
    <2> QED
      BY <2>3, <2>4, <2>5 DEF SInv
  <1> QED
    BY <1>1, <1>2, <1>3, <1>4, <1>5 DEF Command

------------------------------------------------------------------------------
(* What a step of the interpreter does to the machine's state.             *)
LEMMA HandlerState ==
  ASSUME IInv,
         \/ OpAlu \/ OpLoad \/ OpStore \/ OpJal \/ OpJalr \/ OpBranch \/ OpCsr
         \/ OpEcall \/ OpMret \/ OpInvalid \/ OpEnd
  PROVE  nemu_state' = nemu_state \/ nemu_state'.state = "ABORT"
  <1>1. CASE OpInvalid
    BY <1>1 DEF OpInvalid, Halt
  <1>2. CASE \/ OpAlu \/ OpLoad \/ OpStore \/ OpJal \/ OpJalr \/ OpBranch \/ OpCsr
             \/ OpEcall \/ OpMret \/ OpEnd
    BY <1>2 DEF OpAlu, OpLoad, OpStore, OpJal, OpJalr, OpBranch, OpCsr,
                OpEcall, OpMret, OpEnd
  <1> QED
    BY <1>1, <1>2

LEMMA HandlerLabel ==
  ASSUME IInv,
         \/ OpAlu \/ OpLoad \/ OpStore \/ OpJal \/ OpJalr \/ OpBranch \/ OpCsr
         \/ OpEcall \/ OpMret \/ OpEbreak \/ OpInvalid \/ OpEnd
  PROVE  /\ host = "ok" /\ label = "exec" /\ label' \in {"exec", "dispatch"}
         /\ IInv'
  <1>1. /\ DataOK /\ (Advance \/ Leave \/ Dead)
        /\ host = "ok" /\ label = "exec"
    BY HandlerMoves
  <1>2. label' \in {"exec", "dispatch"}
    BY <1>1 DEF Advance, DISPATCH, Leave, Dead, Die
  <1> QED
    BY <1>1, <1>2, AdvanceInv, LeaveInv, DeadInv

LEMMA InterpretInv ==
  ASSUME SInv, Interpret
  PROVE  SInv'
  <1>1. /\ mon = "inside" /\ UNCHANGED <<mon, n, batch, asked>>
        /\ steps' = steps \/ steps' = IF steps < StepCap THEN steps + 1 ELSE steps
    BY DEF Interpret
  <1>2. SdbVarsOK'
    BY <1>1 DEF SInv, SdbVarsOK
  <1>3. CASE BlockDispatch
    <2>1. /\ host = "ok" /\ label = "dispatch" /\ cpu_pc' = next_pc
          /\ UNCHANGED <<gpr, csr, nemu_state>>
      BY <1>3 DEF BlockDispatch, cpu_vars
    <2>2. IInv'
      BY <1>3, BlockDispatchInv DEF SInv
    <2>3. CASE nemu_state.state = "RUNNING"
      <3>1. EnterBlock(next_pc)
        BY <1>3, <2>3 DEF BlockDispatch
      <3>2. label' = "exec" \/ host' = "panic"
        BY <3>1 DEF EnterBlock
      <3> QED
        BY <1>1, <1>2, <2>1, <2>2, <2>3, <3>2
        DEF SInv, ControlOK, FreshOK, EndOK
    <2>4. CASE nemu_state.state # "RUNNING"
      <3>1. label' = "idle" /\ host' = host
        BY <1>3, <2>4 DEF BlockDispatch
      <3>2. ControlOK' /\ FreshOK'
        BY <1>1, <2>1, <2>4, <3>1 DEF SInv, ControlOK, FreshOK
      <3>3. EndOK'
        BY <1>1, <2>1, <2>4, <3>1 DEF SInv, EndOK
      <3> QED
        BY <1>2, <2>2, <3>2, <3>3 DEF SInv
    <2> QED
      BY <2>3, <2>4
  <1>4. CASE \/ OpAlu \/ OpLoad \/ OpStore \/ OpJal \/ OpJalr \/ OpBranch \/ OpCsr
             \/ OpEcall \/ OpMret \/ OpInvalid \/ OpEnd
    <2>1. /\ host = "ok" /\ label = "exec" /\ label' \in {"exec", "dispatch"}
          /\ IInv'
      BY <1>4, HandlerLabel DEF SInv
    <2>2. nemu_state' = nemu_state \/ nemu_state'.state = "ABORT"
      BY <1>4, HandlerState DEF SInv
    <2>3. nemu_state.state # "END" /\ nemu_state.state # "STOP"
      BY <1>1, <2>1 DEF SInv, EndOK, FreshOK
    <2>4. ControlOK' /\ FreshOK' /\ EndOK'
      BY <1>1, <2>1, <2>2, <2>3 DEF SInv, ControlOK, FreshOK, EndOK
    <2> QED
      BY <1>2, <2>1, <2>4 DEF SInv
  <1>5. CASE OpEbreak
    <2>1. /\ host = "ok" /\ label = "exec" /\ label' = "dispatch" /\ IInv'
      BY <1>5, HandlerLabel DEF SInv, OpEbreak, GotoDispatch
    <2>2. /\ nemu_state' = Halt("END", Cur.pc, gpr[A0])
          /\ next_pc' = Plus(Cur.pc, 1) /\ UNCHANGED gpr
      BY <1>5 DEF OpEbreak, GotoDispatch, cpu_vars
    <2>3. /\ nemu_state'.state = "END" /\ nemu_state'.halt_pc = Cur.pc
          /\ nemu_state'.halt_ret = gpr[A0]
      BY <2>2 DEF Halt
    <2>4. next_pc' = Plus(nemu_state'.halt_pc, 1)
      BY <2>2, <2>3
    <2>5. ControlOK' /\ FreshOK' /\ EndOK'
      BY <1>1, <2>1, <2>2, <2>3, <2>4 DEF ControlOK, FreshOK, EndOK
    <2> QED
      BY <1>2, <2>1, <2>5 DEF SInv
  <1> QED
    BY <1>3, <1>4, <1>5 DEF Interpret

LEMMA InterpreterInv ==
  ASSUME SInv, Run
  PROVE  SInv'
  <1>1. CASE ExecuteCall
    <2>1. /\ mon = "execute" /\ mon' = "inside" /\ ExecOnce
          /\ UNCHANGED <<n, batch, asked, steps>>
      BY <1>1 DEF ExecuteCall
    <2>2. /\ nemu_state.state = "RUNNING" /\ EnterBlock(cpu_pc)
          /\ UNCHANGED nemu_state
      BY <2>1 DEF ExecOnce
    <2>3. label' = "exec" \/ host' = "panic"
      BY <2>2 DEF EnterBlock
    <2>4. IInv'
      BY <2>1, ExecOnceInv DEF SInv
    <2>5. SdbVarsOK' /\ ControlOK' /\ FreshOK' /\ EndOK'
      BY <2>1, <2>2, <2>3 DEF SInv, SdbVarsOK, ControlOK, FreshOK, EndOK
    <2> QED
      BY <2>4, <2>5 DEF SInv
  <1>2. CASE Interpret
    BY <1>2, InterpretInv
  <1>3. CASE ExecuteReturn
    <2>1. /\ mon = "inside" /\ label = "idle" /\ host = "ok" /\ mon' = "execute"
          /\ UNCHANGED <<vars, batch, asked, steps>>
      BY <1>3 DEF ExecuteReturn
    <2>2. nemu_state.state # "RUNNING"
      BY <2>1 DEF SInv, ControlOK
    <2>3. n' = n
      BY <1>3, <2>2 DEF ExecuteReturn
    <2>4. UNCHANGED <<gpr, csr, cpu_pc, basicblock_cache, next_pc, label, host,
                      nemu_state>>
      BY <2>1 DEF vars
    <2>5. IInv'
      BY <2>1, StutterInv DEF SInv
    <2>6. SdbVarsOK' /\ ControlOK' /\ FreshOK' /\ EndOK'
      BY <2>1, <2>2, <2>3, <2>4
      DEF SInv, SdbVarsOK, ControlOK, FreshOK, EndOK
    <2> QED
      BY <2>5, <2>6 DEF SInv
  <1>4. CASE CpuExecEnd
    <2>1. /\ mon = "execute" /\ host = "ok" /\ mon' \in {"prompt", "exited"}
          /\ CpuUntouched /\ UNCHANGED <<csr, host, n, batch, asked, steps>>
      BY <1>4 DEF CpuExecEnd
    <2>2. /\ UNCHANGED <<gpr, cpu_pc, basicblock_cache, next_pc, label>>
          /\ label = "idle"
      BY <2>1 DEF CpuUntouched, block_vars, SInv, ControlOK
    <2>3. CASE nemu_state.state = "RUNNING"
      <3>1. nemu_state' = [nemu_state EXCEPT !.state = "STOP"]
        BY <1>4, <2>3 DEF CpuExecEnd
      <3>2. nemu_state' \in NemuState /\ nemu_state'.state = "STOP"
        BY <3>1, StateType DEF SInv, NemuState, NemuStates
      <3>3. Fresh'
        BY <2>1, <2>2, <2>3 DEF SInv, FreshOK, Fresh
      <3>4. IInv'
        BY <2>1, <3>2, StateType, CommandKeepsIInv DEF SInv
      <3>5. SdbVarsOK' /\ ControlOK' /\ FreshOK' /\ EndOK'
        BY <2>1, <2>2, <3>2, <3>3
        DEF SInv, SdbVarsOK, ControlOK, FreshOK, EndOK
      <3> QED
        BY <3>4, <3>5 DEF SInv
    <2>4. CASE nemu_state.state # "RUNNING"
      <3>1. UNCHANGED nemu_state
        BY <1>4, <2>4 DEF CpuExecEnd
      <3>2. IInv'
        BY <2>1, <3>1, StateType, CommandKeepsIInv DEF SInv
      <3>3. SdbVarsOK' /\ ControlOK' /\ EndOK'
        BY <2>1, <2>2, <2>4, <3>1 DEF SInv, SdbVarsOK, ControlOK, EndOK
      <3>4. FreshOK'
        BY <2>1, <2>2, <2>4, <3>1 DEF SInv, FreshOK, Fresh
      <3> QED
        BY <3>2, <3>3, <3>4 DEF SInv
    <2> QED
      BY <2>3, <2>4
  <1> QED
    BY <1>1, <1>2, <1>3, <1>4 DEF Run
LEMMA SdbInitInv ==
  ASSUME SdbInit
  PROVE  SInv
  <1>1. TypeOK
    BY ZeroBlockType, WordAssumption, RegAssumption, CacheAssumption
    DEF SdbInit, Restart, TypeOK, Word, Sink, ResetCsr, Halt, NemuState, NemuStates
  <1>2. BlocksWellFormed /\ ExecInsideBlock /\ CountExact
    BY DEF SdbInit, Restart, BlocksWellFormed, ExecInsideBlock, CountExact
  <1>3. X0IsZero /\ NoNullEntry /\ MemInWords /\ ResetSet
    BY RegAssumption
    DEF SdbInit, Restart, X0IsZero, NoNullEntry, Sink, MemInWords, ResetSet
  <1>4. nemu_state.state = "STOP"
    BY DEF SdbInit, Halt
  <1>5. SdbVarsOK /\ ControlOK /\ FreshOK /\ EndOK
    BY <1>4 DEF SdbInit, Restart, SdbVarsOK, ControlOK, FreshOK, EndOK, Fresh
  <1> QED
    BY <1>1, <1>2, <1>3, <1>5 DEF SInv, IInv

LEMMA SdbStutterInv ==
  ASSUME SInv, UNCHANGED all_vars
  PROVE  SInv'
  <1>1. UNCHANGED vars /\ UNCHANGED sdb_vars
    BY DEF all_vars
  <1>2. IInv'
    BY <1>1, StutterInv DEF SInv
  <1>3. SdbVarsOK' /\ ControlOK' /\ FreshOK' /\ EndOK'
    BY <1>1 DEF vars, sdb_vars, SInv, SdbVarsOK, ControlOK, FreshOK, EndOK, Fresh
  <1> QED
    BY <1>2, <1>3 DEF SInv

LEMMA SdbNextInv == SInv /\ [SdbNext]_all_vars => SInv'
  BY CommandInv, InterpreterInv, SdbStutterInv DEF SdbNext

(* SInv is an invariant of every debugger session and of batch mode.       *)
THEOREM SdbInductive == SdbSpec => []SInv
  BY SdbInitInv, SdbNextInv, PTL DEF SdbSpec

(* Types of the monitor and of the interpreter inside it.                  *)
THEOREM SdbTypeCorrect == SdbSpec => []SdbTypeOK
  <1>1. SInv => SdbTypeOK
    BY DEF SInv, IInv, SdbVarsOK, SdbTypeOK
  <1> QED
    BY <1>1, SdbInductive, PTL

(* At the prompt the machine is stopped and the counter is settled.        *)
THEOREM SdbPromptStopped == SdbSpec => []PromptStopped
  <1>1. SInv => PromptStopped
    BY DEF SInv, IInv, ControlOK, CountExact, PromptStopped
  <1> QED
    BY <1>1, SdbInductive, PTL

(* STOP is never a state in the middle of the guest.                       *)
THEOREM SdbStopIsFresh == SdbSpec => []StopIsFresh
  <1>1. SInv => StopIsFresh
    BY DEF SInv, FreshOK, Fresh, StopIsFresh
  <1> QED
    BY <1>1, SdbInductive, PTL

(* Exit status 0 of a batch run means a good trap.                         *)
THEOREM SdbGoodExit == SdbSpec => []GoodExit
  <1>1. SInv => GoodExit
    BY DEF SInv, ControlOK, EndOK, GoodExit, IsExitStatusBad
  <1> QED
    BY <1>1, SdbInductive, PTL
------------------------------------------------------------------------------
(* The steps that let the guest run are the calls of cpu_exec.             *)
LEMMA RunNeverStarts ==
  ASSUME SInv, Run, nemu_state.state # "RUNNING"
  PROVE  nemu_state'.state # "RUNNING"
  <1>1. CASE ExecuteCall
    BY <1>1 DEF ExecuteCall, ExecOnce
  <1>2. CASE Interpret
    <2>1. CASE BlockDispatch
      BY <2>1 DEF BlockDispatch
    <2>2. CASE OpEbreak
      BY <2>2 DEF OpEbreak, Halt
    <2>3. CASE \/ OpAlu \/ OpLoad \/ OpStore \/ OpJal \/ OpJalr \/ OpBranch \/ OpCsr
               \/ OpEcall \/ OpMret \/ OpInvalid \/ OpEnd
      BY <2>3, HandlerState DEF SInv
    <2> QED
      BY <1>2, <2>1, <2>2, <2>3 DEF Interpret
  <1>3. CASE ExecuteReturn
    BY <1>3 DEF ExecuteReturn, vars
  <1>4. CASE CpuExecEnd
    BY <1>4 DEF CpuExecEnd
  <1> QED
    BY <1>1, <1>2, <1>3, <1>4 DEF Run

LEMMA ResumeStep ==
  ASSUME SInv, [SdbNext]_all_vars,
         nemu_state.state # "RUNNING", nemu_state'.state = "RUNNING"
  PROVE  UNCHANGED csr
  <1>1. ASSUME NEW k, Prompt, CpuExec(k)
        PROVE  UNCHANGED csr
    <2>1. nemu_state.state \notin Ended
      BY <1>1 DEF CpuExec
    <2>2. nemu_state.state = "STOP"
      BY <2>1, StateType DEF SInv, NemuState, NemuStates, Ended
    <2>3. Fresh
      BY <2>2 DEF SInv, FreshOK
    <2> QED
      BY <1>1, <2>3, FreshMstatus DEF CpuExec
  <1>2. CASE Run
    BY <1>2, RunNeverStarts
  <1>3. CASE Command
    <2>1. CASE CmdC
      BY <1>1, <2>1 DEF CmdC
    <2>2. CASE CmdSi
      BY <1>1, <2>2 DEF CmdSi
    <2>3. CASE CmdX \/ EndOfInput
      BY <2>3 DEF CmdX, EndOfInput
    <2>4. CASE CmdQ
      <3>1. nemu_state'.state = "QUIT"
        BY <2>4, StateType DEF CmdQ, SInv, NemuState
      <3> QED
        BY <3>1
    <2> QED
      BY <1>3, <2>1, <2>2, <2>3, <2>4 DEF Command
  <1>4. CASE UNCHANGED all_vars
    BY <1>4 DEF all_vars, vars
  <1> QED
    BY <1>2, <1>3, <1>4 DEF SdbNext

LEMMA EndedStep ==
  ASSUME SInv, [SdbNext]_all_vars, nemu_state.state \in Ended, mon = "prompt"
  PROVE  /\ UNCHANGED <<gpr, cpu_pc, mem>>
         /\ nemu_state'.state \in {nemu_state.state, "QUIT"}
         /\ nemu_state'.halt_pc = nemu_state.halt_pc
         /\ nemu_state'.halt_ret = nemu_state.halt_ret
  <1>1. CASE Run
    BY <1>1 DEF Run, ExecuteCall, Interpret, ExecuteReturn, CpuExecEnd
  <1>2. CASE CmdC \/ CmdSi \/ CmdX \/ EndOfInput
    BY <1>2 DEF CmdC, CmdSi, CmdX, EndOfInput, CpuExec, CpuUntouched, mem_vars
  <1>3. CASE CmdQ
    <2>1. UNCHANGED <<gpr, cpu_pc, mem>>
      BY <1>3 DEF CmdQ, CpuUntouched, mem_vars
    <2>2. nemu_state' = [nemu_state EXCEPT !.state = "QUIT"]
      BY <1>3 DEF CmdQ
    <2>3. /\ nemu_state'.state = "QUIT"
          /\ nemu_state'.halt_pc = nemu_state.halt_pc
          /\ nemu_state'.halt_ret = nemu_state.halt_ret
      BY <2>2, StateType DEF SInv, NemuState
    <2> QED
      BY <2>1, <2>3
  <1>4. CASE UNCHANGED all_vars
    BY <1>4 DEF all_vars, vars
  <1> QED
    BY <1>1, <1>2, <1>3, <1>4 DEF SdbNext, Command

(* No call of cpu_exec that lets the guest run changes what the guest sees *)
(* in its CSRs.                                                            *)
THEOREM SdbResumeKeepsCsr == SdbSpec => ResumeKeepsCsr
  <1>1. SInv /\ [SdbNext]_all_vars =>
          [nemu_state.state # "RUNNING" /\ nemu_state'.state = "RUNNING"
             => UNCHANGED csr]_all_vars
    BY ResumeStep
  <1> QED
    BY <1>1, SdbInductive, PTL DEF SdbSpec, ResumeKeepsCsr

(* No command revives a program that has ended.                            *)
THEOREM SdbEndedIsFinal == SdbSpec => EndedIsFinal
  <1>1. SInv /\ [SdbNext]_all_vars =>
          [nemu_state.state \in Ended /\ mon = "prompt"
             => /\ UNCHANGED <<gpr, cpu_pc, mem>>
                /\ nemu_state'.state \in {nemu_state.state, "QUIT"}
                /\ nemu_state'.halt_pc = nemu_state.halt_pc
                /\ nemu_state'.halt_ret = nemu_state.halt_ret]_all_vars
    BY EndedStep
  <1> QED
    BY <1>1, SdbInductive, PTL DEF SdbSpec, EndedIsFinal
==============================================================================
